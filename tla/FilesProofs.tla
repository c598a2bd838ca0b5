----------------------------- MODULE FilesProofs -----------------------------
(***************************************************************************)
(* Proofs about the file operations.                                       *)
(*   mm_copy(): a copy is whole or is not there, for sources of every      *)
(*     length, reads and writes of every length, and any number of steps   *)
(*     of the other process.                                               *)
(*   Descriptors on Windows: for any number of descriptors, files, calls   *)
(*     and buffers, what the library remembers of a descriptor is true of  *)
(*     the file behind it, no call loses what a file holds, and reads and  *)
(*     writes report what they did in terms of the caller's bytes.         *)
(*   mm_rename() and mm_unlink() on Windows: for any number of callers and *)
(*     links, no link disappears that nobody asked to remove.              *)
(*   mm_basename() and mm_dirname(): for every path.                       *)
(***************************************************************************)
EXTENDS FileCopy, FdWin32, NamesWin32, PathNames, SequenceTheorems,
        FiniteSetTheorems, WellFoundedInduction, TLAPS

-----------------------------------------------------------------------------
(***************************************************************************)
(* mm_copy(): the inductive invariant                                      *)
(***************************************************************************)
OutRec == [type : {"none", "REG", "LNK"}, blocks : Seq(Nat), target : Seq(Nat)]

\* The steps before the destination is there, those of the copy of a link, and
\* those that fill the file.
Before == {"start", "open", "create"}
Linking == {"lstat", "readlink", "reparse", "symlink"}
Filling == {"range", "read", "write", "undo"}

CopyTypeOK ==
    /\ cpWin \in BOOLEAN /\ moved \in BOOLEAN
    /\ source \in SourceRec /\ atOpen \in SourceRec
    /\ outFile \in OutRec
    /\ dstName \in {"none", "ours", "theirs"}
    /\ cpAt \in Before \cup Linking \cup Filling \cup Ended
    /\ cpResult \in {-1, 0, 1}
    /\ offset \in Nat /\ buffer \in Seq(Nat) /\ tgt \in Seq(Nat)

\* The file and the buffer together are what has been read of the source.
DataInv ==
    /\ \A i \in 1 .. Len(source.blocks) : source.blocks[i] = i
    /\ Len(atOpen.blocks) <= Len(source.blocks)
    /\ Len(outFile.blocks) + Len(buffer) = offset /\ offset <= Len(source.blocks)
    /\ \A i \in 1 .. Len(outFile.blocks) : outFile.blocks[i] = i
    /\ \A i \in 1 .. Len(buffer) : buffer[i] = Len(outFile.blocks) + i
    /\ cpAt \in {"range", "read"} => Len(buffer) = 0
    /\ cpAt \in Before \cup Linking => offset = 0
    /\ cpAt = "range" /\ offset # 0 => source.ranges

\* What has been created, and what the call knows of the link.
PhaseInv ==
    /\ cpResult = 1 <=> cpAt \notin Ended
    /\ cpAt \in Before \cup Linking => outFile = NoFile
    /\ cpAt \in Linking => CopiesLink
    /\ cpAt \in Filling \cup {"create"} => ~CopiesLink
    /\ cpAt \in Filling => outFile.type = "REG"
    /\ source.target \in targets /\ atOpen.target \in targets
    /\ cpAt = "symlink" => tgt \in targets
    /\ cpResult = 0 =>
        IF CopiesLink THEN outFile.type = "LNK" /\ outFile.target \in targets
        ELSE /\ outFile.type = "REG" /\ Behind = "REG"
             /\ Len(outFile.blocks) >= Len(atOpen.blocks)

\* Whose file dst names.
NameInv ==
    /\ outFile = NoFile => dstName # "ours" /\ ~moved
    /\ outFile # NoFile /\ cpResult # -1 => dstName = IF moved THEN "theirs" ELSE "ours"
    /\ (cpResult = -1 /\ cpAt # "left") => dstName # "ours" /\ (outFile # NoFile => cpWin \/ dstName = "none")
    /\ (cpWin /\ moved) => dstName = "theirs"

CopyInv == CopyTypeOK /\ DataInv /\ PhaseInv /\ NameInv

-----------------------------------------------------------------------------
(***************************************************************************)
(* Blocks in order                                                         *)
(***************************************************************************)

\* A part of a sequence.
LEMMA PartOf ==
    ASSUME NEW t \in Seq(Nat), NEW a \in Nat, NEW b \in Nat, b <= Len(t)
    PROVE  /\ SubSeq(t, a + 1, b) \in Seq(Nat)
           /\ Len(SubSeq(t, a + 1, b)) = IF a <= b THEN b - a ELSE 0
           /\ \A i \in 1 .. b - a : SubSeq(t, a + 1, b)[i] = t[a + i]
<1>1. \A i \in a + 1 .. b : i \in 1 .. Len(t)
  OBVIOUS
<1>2. \A i \in a + 1 .. b : t[i] \in Nat
  BY <1>1
<1> DEFINE u == SubSeq(t, a + 1, b)
<1>3. /\ u \in Seq(Nat) /\ Len(u) = IF a + 1 <= b THEN b - (a + 1) + 1 ELSE 0
      /\ \A i \in 1 .. b - (a + 1) + 1 : u[i] = t[(a + 1) + i - 1]
  BY <1>2, a + 1 \in Int, SubSeqProperties
<1> HIDE DEF u
<1>4. Len(u) = IF a <= b THEN b - a ELSE 0
  BY <1>3
<1>5. \A i \in 1 .. b - a : u[i] = t[a + i]
  BY <1>3
<1> QED
  BY <1>3, <1>4, <1>5 DEF u

\* Blocks in order, and the next ones, are blocks in order.
LEMMA NextBlocks ==
    ASSUME NEW s \in Seq(Nat), NEW x \in Seq(Nat),
           \A i \in 1 .. Len(s) : s[i] = i,
           \A i \in 1 .. Len(x) : x[i] = Len(s) + i
    PROVE  /\ s \o x \in Seq(Nat) /\ Len(s \o x) = Len(s) + Len(x)
           /\ \A i \in 1 .. Len(s) + Len(x) : (s \o x)[i] = i
<1>1. /\ s \o x \in Seq(Nat) /\ Len(s \o x) = Len(s) + Len(x)
      /\ \A i \in 1 .. Len(s) + Len(x) :
            (s \o x)[i] = IF i <= Len(s) THEN s[i] ELSE x[i - Len(s)]
  BY ConcatProperties
<1> DEFINE m == Len(s)
           n == Len(x)
<1>2. m \in Nat /\ n \in Nat
  OBVIOUS
<1> HIDE DEF m, n
<1>3. ASSUME NEW i \in 1 .. m + n PROVE (s \o x)[i] = i
  <2>1. CASE i <= m
    BY <1>1, <1>2, <2>1 DEF m, n
  <2>2. CASE ~(i <= m)
    <3>1. i - m \in 1 .. n /\ m + (i - m) = i
      BY <1>2, <2>2
    <3>2. x[i - m] = m + (i - m)
      BY <3>1 DEF m, n
    <3> QED
      BY <1>1, <2>2, <3>1, <3>2 DEF m, n
  <2> QED
    BY <2>1, <2>2
<1> QED
  BY <1>1, <1>3 DEF m, n

\* Blocks in order are a prefix of longer ones.
LEMMA OrderedPrefix ==
    ASSUME NEW s \in Seq(Nat), NEW t \in Seq(Nat), Len(s) <= Len(t),
           \A i \in 1 .. Len(s) : s[i] = i, \A i \in 1 .. Len(t) : t[i] = i
    PROVE  IsPrefix(s, t)
<1> DEFINE n == Len(s)
           a == SubSeq(s, 0 + 1, n)
           b == SubSeq(t, 0 + 1, n)
<1>1. n \in Nat
  OBVIOUS
<1>2. a \in Seq(Nat) /\ Len(a) = n /\ \A i \in 1 .. n : a[i] = i
  <2>1. /\ a \in Seq(Nat) /\ Len(a) = IF 0 <= n THEN n - 0 ELSE 0
        /\ \A i \in 1 .. n - 0 : a[i] = s[0 + i]
    BY PartOf
  <2> HIDE DEF a
  <2> QED
    BY <2>1
<1>3. b \in Seq(Nat) /\ Len(b) = n /\ \A i \in 1 .. n : b[i] = i
  <2>1. /\ b \in Seq(Nat) /\ Len(b) = IF 0 <= n THEN n - 0 ELSE 0
        /\ \A i \in 1 .. n - 0 : b[i] = t[0 + i]
    BY PartOf
  <2> HIDE DEF b
  <2> QED
    BY <2>1
<1> HIDE DEF a, b, n
<1>4. a = b
  BY <1>1, <1>2, <1>3, SeqEqual
<1> QED
  BY <1>4, 0 + 1 = 1 DEF IsPrefix, a, b, n
-----------------------------------------------------------------------------
(***************************************************************************)
(* mm_copy(): every step keeps the invariant                               *)
(***************************************************************************)
LEMMA InitCopyInv == CopyInit => CopyInv
<1> SUFFICES ASSUME CopyInit PROVE CopyInv
  OBVIOUS
<1>1. <<>> \in Seq(Nat) /\ Len(<<>>) = 0
  OBVIOUS
<1>2. source \in SourceRec /\ Len(source.blocks) \in Nat
  BY CopyAssumption DEF CopyInit, SourceRec
<1>3. \A i \in 1 .. Len(source.blocks) : source.blocks[i] = i
  BY CopyAssumption DEF CopyInit, Blocks
<1>4. CopyTypeOK
  BY <1>1, <1>2 DEF CopyInit, CopyTypeOK, OutRec, NoFile, Before, Linking, Filling, Ended
<1>5. DataInv
  BY <1>1, <1>2, <1>3 DEF CopyInit, DataInv, NoFile, Before, Linking
<1>6. PhaseInv
  BY DEF CopyInit, PhaseInv, Before, Linking, Filling, Ended
<1>7. NameInv
  BY DEF CopyInit, NameInv
<1> QED
  BY <1>4, <1>5, <1>6, <1>7 DEF CopyInv

\* Steps that create, read and write nothing.
LEMMA QuietCopySteps ==
    ASSUME CopyInv, mm_copy \/ copy_internal \/ copy_symlink \/ mm_readlink \/ copy_hnd_symlink
    PROVE  CopyInv'
<1>1. UNCHANGED <<cpWin, cpFlags, source, targets, moved, dstName, outFile, offset, buffer>>
  BY DEF mm_copy, copy_internal, copy_symlink, mm_readlink, copy_hnd_symlink, given, Free
<1>2. cpAt \in Before \cup Linking /\ cpAt \notin Ended /\ cpAt \notin Filling
  <2>1. cpAt \in {"start", "open", "lstat", "readlink", "reparse"}
    BY DEF mm_copy, copy_internal, copy_symlink, mm_readlink, copy_hnd_symlink
  <2> QED
    BY <2>1 DEF Before, Linking, Filling, Ended
<1>3. /\ cpAt' \in Before \cup Linking \cup {"done"}
      /\ cpResult' \in {-1, 1} /\ (cpResult' = 1 <=> cpAt' \notin Ended)
      /\ cpAt' \notin {"start", "range", "read", "write", "undo"}
  BY DEF mm_copy, copy_internal, copy_symlink, mm_readlink, copy_hnd_symlink,
         Before, Linking, Filling, Ended, End, StepTo, Free, CopyInv, PhaseInv
<1>4. atOpen' \in {atOpen, source} /\ tgt' \in {tgt, source.target, atOpen.target}
  BY DEF mm_copy, copy_internal, copy_symlink, mm_readlink, copy_hnd_symlink
<1>5. /\ cpAt' \in Linking => CopiesLink
      /\ cpAt' = "create" => ~CopiesLink
      /\ cpAt' = "symlink" => tgt' \in {source.target, atOpen.target}
  BY DEF mm_copy, copy_internal, copy_symlink, mm_readlink, copy_hnd_symlink,
         Before, Linking, Filling, Ended, End, StepTo, Free, CopyInv, PhaseInv, CopiesLink
<1>6. /\ source \in SourceRec /\ atOpen \in SourceRec /\ atOpen' \in SourceRec
      /\ source.target \in Seq(Nat) /\ atOpen.target \in Seq(Nat)
      /\ source.target \in targets /\ atOpen.target \in targets
  BY <1>4 DEF CopyInv, CopyTypeOK, PhaseInv, SourceRec
<1>7. CopyTypeOK'
  BY <1>1, <1>3, <1>4, <1>6 DEF CopyInv, CopyTypeOK, Before, Linking, Filling, Ended, OutRec
<1>8. DataInv'
  <2>1. Len(source.blocks) \in Nat
    BY <1>6 DEF SourceRec
  <2>2. Len(atOpen'.blocks) <= Len(source.blocks)
    BY <1>4, <2>1 DEF CopyInv, DataInv
  <2>3. offset = 0
    BY <1>2 DEF CopyInv, DataInv
  <2> QED
    BY <1>1, <1>2, <1>3, <2>2, <2>3 DEF CopyInv, DataInv, Before, Linking
<1>9. PhaseInv'
  <2>1. CopiesLink' = CopiesLink /\ Behind' = Behind
    BY <1>1 DEF CopiesLink, Behind
  <2>2. outFile' = NoFile
    BY <1>1, <1>2 DEF CopyInv, PhaseInv
  <2>3. atOpen'.target \in targets
    BY <1>4, <1>6
  <2> QED
    BY <1>1, <1>3, <1>5, <1>6, <2>1, <2>2, <2>3
    DEF CopyInv, PhaseInv, Before, Linking, Filling, Ended, NoFile
<1>10. NameInv'
  <2>1. outFile = NoFile
    BY <1>2 DEF CopyInv, PhaseInv
  <2> QED
    BY <1>1, <1>3, <2>1 DEF CopyInv, NameInv, NoFile
<1> QED
  BY <1>7, <1>8, <1>9, <1>10 DEF CopyInv

\* The destination is created, empty.
LEMMA CreateStep ==
    ASSUME CopyInv, clone_srcfd
    PROVE  CopyInv'
<1>1. /\ UNCHANGED <<cpWin, cpFlags, source, targets, moved, offset, buffer, tgt, atOpen>>
      /\ cpAt = "create"
  BY DEF clone_srcfd, given
<1>2. offset = 0 /\ outFile = NoFile /\ Len(outFile.blocks) = 0 /\ Len(buffer) = 0
      /\ ~CopiesLink /\ dstName # "ours" /\ ~moved /\ cpResult = 1
  BY <1>1 DEF CopyInv, CopyTypeOK, DataInv, PhaseInv, NameInv, Before, Linking, Filling, Ended, NoFile
<1>3. CopiesLink' = CopiesLink /\ Behind' = Behind
  BY <1>1 DEF CopiesLink, Behind
<1>4. CASE dstName # "none"
  <2>1. UNCHANGED <<dstName, outFile>> /\ cpAt' = "done" /\ cpResult' = -1
    BY <1>4 DEF clone_srcfd, End
  <2>2. CopyTypeOK'
    BY <1>1, <2>1 DEF CopyInv, CopyTypeOK, SourceRec, OutRec, Before, Linking, Filling, Ended
  <2>3. DataInv'
    BY <1>1, <2>1 DEF CopyInv, DataInv, Before, Linking
  <2>4. PhaseInv'
    BY <1>1, <1>2, <1>3, <2>1 DEF CopyInv, PhaseInv, Before, Linking, Filling, Ended, NoFile
  <2>5. NameInv'
    BY <1>1, <1>2, <2>1 DEF CopyInv, NameInv, NoFile
  <2> QED
    BY <2>2, <2>3, <2>4, <2>5 DEF CopyInv
<1>5. CASE dstName = "none"
  <2>1. /\ dstName' = "ours" /\ outFile' = [NoFile EXCEPT !.type = "REG"]
        /\ cpAt' \in {"read", "range"} /\ cpResult' = 1
    BY <1>2, <1>5 DEF clone_srcfd, StepTo
  <2>2. /\ outFile' \in OutRec /\ outFile'.type = "REG" /\ outFile' # NoFile'
        /\ outFile'.blocks = <<>> /\ Len(outFile'.blocks) = 0
    <3>1. outFile' = [type |-> "REG", blocks |-> <<>>, target |-> <<>>]
      BY <2>1 DEF NoFile
    <3>2. <<>> \in Seq(Nat) /\ Len(<<>>) = 0
      OBVIOUS
    <3>3. NoFile'.type = "none"
      BY DEF NoFile
    <3> QED
      BY <3>1, <3>2, <3>3 DEF OutRec
  <2>3. CopyTypeOK'
    BY <1>1, <2>1, <2>2 DEF CopyInv, CopyTypeOK, SourceRec, OutRec, Before, Linking, Filling, Ended
  <2>4. DataInv'
    BY <1>1, <1>2, <2>1, <2>2 DEF CopyInv, DataInv, Before, Linking
  <2>5. PhaseInv'
    BY <1>1, <1>2, <1>3, <2>1, <2>2 DEF CopyInv, PhaseInv, Before, Linking, Filling, Ended
  <2>6. NameInv'
    BY <1>1, <1>2, <2>1, <2>2 DEF CopyInv, NameInv
  <2> QED
    BY <2>3, <2>4, <2>5, <2>6 DEF CopyInv
<1> QED
  BY <1>4, <1>5

\* The kernel copies blocks, or leaves it to the buffer.
LEMMA RangeStep ==
    ASSUME CopyInv, clone_fd_try_cow
    PROVE  CopyInv'
<1>1. /\ UNCHANGED <<cpWin, cpFlags, source, targets, moved, dstName, buffer, tgt, atOpen>>
      /\ cpAt = "range"
  BY DEF clone_fd_try_cow, given
<1>2. /\ ~CopiesLink /\ outFile.type = "REG" /\ cpResult = 1 /\ Len(buffer) = 0
      /\ (offset # 0 => source.ranges)
  BY <1>1 DEF CopyInv, DataInv, PhaseInv, Filling, Ended
<1>3. CopiesLink' = CopiesLink /\ Behind' = Behind
  BY <1>1 DEF CopiesLink, Behind
<1> DEFINE n == Len(source.blocks)
           m == Len(outFile.blocks)
<1>4. /\ n \in Nat /\ m \in Nat /\ offset \in Nat /\ offset = m /\ m <= n
      /\ source.blocks \in Seq(Nat) /\ outFile.blocks \in Seq(Nat)
      /\ Len(atOpen.blocks) \in Nat /\ Len(atOpen.blocks) <= n
  BY <1>2 DEF CopyInv, CopyTypeOK, DataInv, SourceRec, OutRec
<1> HIDE DEF n, m
<1>5. ASSUME NEW k \in 1 .. Remaining, source.ranges,
             outFile' = [outFile EXCEPT !.blocks =
                            @ \o SubSeq(source.blocks, offset + 1, offset + k)],
             offset' = offset + k, UNCHANGED <<cpAt, cpResult>>
      PROVE  CopyInv'
  <2> DEFINE x == SubSeq(source.blocks, offset + 1, offset + k)
             new == outFile.blocks \o x
  <2>1. k \in Nat /\ 1 <= k /\ offset + k <= n
    BY <1>4, <1>5 DEF Remaining, n
  <2>2. x \in Seq(Nat) /\ Len(x) = k /\ \A i \in 1 .. k : x[i] = m + i
    <3>1. offset + k \in Nat /\ offset <= offset + k /\ offset + k - offset = k
      BY <1>4, <2>1
    <3>2. /\ x \in Seq(Nat) /\ Len(x) = k
          /\ \A i \in 1 .. k : x[i] = source.blocks[offset + i]
      BY <1>4, <2>1, <3>1, PartOf DEF n
    <3>3. \A i \in 1 .. k : offset + i \in 1 .. n /\ source.blocks[offset + i] = offset + i
      BY <1>4, <2>1 DEF CopyInv, DataInv, n
    <3> HIDE DEF x
    <3> QED
      BY <1>4, <3>2, <3>3
  <2> HIDE DEF x
  <2>3. new \in Seq(Nat) /\ Len(new) = m + k /\ \A i \in 1 .. m + k : new[i] = i
    BY <1>4, <2>2, NextBlocks DEF CopyInv, DataInv, m
  <2>4. outFile' = [outFile EXCEPT !.blocks = new]
    BY <1>5 DEF x
  <2> HIDE DEF new
  <2>5. outFile' \in OutRec /\ outFile'.type = "REG" /\ outFile'.blocks = new
    BY <1>2, <2>3, <2>4 DEF CopyInv, CopyTypeOK, OutRec
  <2>6. CopyTypeOK'
    BY <1>1, <1>4, <1>5, <2>1, <2>5 DEF CopyInv, CopyTypeOK, SourceRec, OutRec
  <2>7. DataInv'
    <3>1. /\ m + k = offset' /\ offset' <= n /\ cpAt' = "range" /\ source.ranges
          /\ (m + k) + 0 = m + k
      BY <1>1, <1>4, <1>5, <2>1
    <3>2. Len(outFile'.blocks) + Len(buffer') = offset' /\ Len(buffer') = 0
      BY <1>1, <1>2, <2>3, <2>5, <3>1
    <3>3. \A i \in 1 .. Len(outFile'.blocks) : outFile'.blocks[i] = i
      BY <2>3, <2>5
    <3>4. \A i \in 1 .. Len(buffer') : buffer'[i] = Len(outFile'.blocks) + i
      BY <3>2
    <3> QED
      BY <1>1, <3>1, <3>2, <3>3, <3>4 DEF CopyInv, DataInv, n, Before, Linking
  <2>8. PhaseInv'
    <3>1. cpAt' = "range" /\ cpResult' = 1
      BY <1>1, <1>2, <1>5
    <3> QED
      BY <1>1, <1>2, <1>3, <2>5, <3>1 DEF CopyInv, PhaseInv, Before, Linking, Filling, Ended
  <2>9. NameInv'
    BY <1>1, <1>2, <1>5, <2>5 DEF CopyInv, NameInv, NoFile
  <2> QED
    BY <2>6, <2>7, <2>8, <2>9 DEF CopyInv
<1>6. ASSUME UNCHANGED <<outFile, offset>>,
             \/ /\ Behind = "REG" /\ (Remaining = 0 \/ ~source.ranges)
                /\ offset # 0 /\ cpAt' = "done" /\ cpResult' = 0
             \/ cpAt' \in {"read", "undo"} /\ cpResult' = cpResult
      PROVE  CopyInv'
  <2>1. cpAt' = "done" => Behind = "REG" /\ m = n
    BY <1>2, <1>4, <1>6 DEF Remaining, n
  <2>2. CopyTypeOK'
    BY <1>1, <1>2, <1>6 DEF CopyInv, CopyTypeOK, SourceRec, OutRec, Before, Linking, Filling, Ended
  <2>3. DataInv'
    BY <1>1, <1>2, <1>6 DEF CopyInv, DataInv, Before, Linking
  <2>4. PhaseInv'
    BY <1>1, <1>2, <1>3, <1>4, <1>6, <2>1 DEF CopyInv, PhaseInv, Before, Linking, Filling, Ended, m
  <2>5. NameInv'
    BY <1>1, <1>2, <1>6 DEF CopyInv, NameInv, NoFile
  <2> QED
    BY <2>2, <2>3, <2>4, <2>5 DEF CopyInv
<1> QED
  BY <1>1, <1>5, <1>6, Zenon DEF clone_fd_try_cow, End, StepTo

\* The buffer is filled; at the end of the source the copy is whole.
LEMMA ReadStep ==
    ASSUME CopyInv, ReadBlocks
    PROVE  CopyInv'
<1>1. /\ UNCHANGED <<cpWin, cpFlags, source, targets, moved, dstName, outFile, tgt, atOpen>>
      /\ cpAt = "read"
  BY DEF ReadBlocks, given
<1>2. ~CopiesLink /\ outFile.type = "REG" /\ cpResult = 1 /\ Len(buffer) = 0
  BY <1>1 DEF CopyInv, DataInv, PhaseInv, Filling, Ended
<1>3. CopiesLink' = CopiesLink /\ Behind' = Behind
  BY <1>1 DEF CopiesLink, Behind
<1> DEFINE n == Len(source.blocks)
           m == Len(outFile.blocks)
<1>4. /\ n \in Nat /\ m \in Nat /\ offset \in Nat /\ offset = m /\ m <= n
      /\ source.blocks \in Seq(Nat)
      /\ Len(atOpen.blocks) \in Nat /\ Len(atOpen.blocks) <= n
  BY <1>2 DEF CopyInv, CopyTypeOK, DataInv, SourceRec, OutRec
<1> HIDE DEF n, m
<1>5. ASSUME NEW k \in 1 .. Remaining,
             buffer' = SubSeq(source.blocks, offset + 1, offset + k),
             offset' = offset + k, cpAt' = "write", cpResult' = cpResult
      PROVE  CopyInv'
  <2> DEFINE x == SubSeq(source.blocks, offset + 1, offset + k)
  <2>1. k \in Nat /\ 1 <= k /\ offset + k <= n
    BY <1>4, <1>5 DEF Remaining, n
  <2>2. x \in Seq(Nat) /\ Len(x) = k /\ \A i \in 1 .. k : x[i] = m + i
    <3>1. offset + k \in Nat /\ offset <= offset + k /\ offset + k - offset = k
      BY <1>4, <2>1
    <3>2. /\ x \in Seq(Nat) /\ Len(x) = k
          /\ \A i \in 1 .. k : x[i] = source.blocks[offset + i]
      BY <1>4, <2>1, <3>1, PartOf DEF n
    <3>3. \A i \in 1 .. k : offset + i \in 1 .. n /\ source.blocks[offset + i] = offset + i
      BY <1>4, <2>1 DEF CopyInv, DataInv, n
    <3> HIDE DEF x
    <3> QED
      BY <1>4, <3>2, <3>3
  <2>3. buffer' = x
    BY <1>5
  <2> HIDE DEF x
  <2>4. CopyTypeOK'
    <3>1. offset' \in Nat /\ buffer' \in Seq(Nat) /\ cpAt' = "write" /\ cpResult' = 1
      BY <1>2, <1>4, <1>5, <2>1, <2>2, <2>3
    <3> QED
      BY <1>1, <3>1 DEF CopyInv, CopyTypeOK, SourceRec, OutRec, Before, Linking, Filling, Ended
  <2>5. DataInv'
    <3>1. m + k = offset' /\ offset' <= n /\ cpAt' = "write"
      BY <1>4, <1>5, <2>1
    <3> QED
      BY <1>1, <2>2, <2>3, <3>1 DEF CopyInv, DataInv, n, m, Before, Linking
  <2>6. PhaseInv'
    <3>1. cpAt' = "write" /\ cpResult' = 1
      BY <1>2, <1>5
    <3> QED
      BY <1>1, <1>2, <1>3, <3>1 DEF CopyInv, PhaseInv, Before, Linking, Filling, Ended
  <2>7. NameInv'
    BY <1>1, <1>2, <1>5 DEF CopyInv, NameInv, NoFile
  <2> QED
    BY <2>4, <2>5, <2>6, <2>7 DEF CopyInv
<1>6. ASSUME UNCHANGED <<buffer, offset>>,
             \/ Behind = "REG" /\ Remaining = 0 /\ cpAt' = "done" /\ cpResult' = 0
             \/ cpAt' = "undo" /\ cpResult' = cpResult
      PROVE  CopyInv'
  <2>1. cpAt' = "done" => Behind = "REG" /\ m = n
    BY <1>4, <1>6 DEF Remaining, n
  <2>2. CopyTypeOK'
    BY <1>1, <1>2, <1>6 DEF CopyInv, CopyTypeOK, SourceRec, OutRec, Before, Linking, Filling, Ended
  <2>3. DataInv'
    BY <1>1, <1>2, <1>6 DEF CopyInv, DataInv, Before, Linking
  <2>4. PhaseInv'
    BY <1>1, <1>2, <1>3, <1>4, <1>6, <2>1 DEF CopyInv, PhaseInv, Before, Linking, Filling, Ended, m
  <2>5. NameInv'
    BY <1>1, <1>2, <1>6 DEF CopyInv, NameInv, NoFile
  <2> QED
    BY <2>2, <2>3, <2>4, <2>5 DEF CopyInv
<1> QED
  BY <1>1, <1>5, <1>6, Zenon DEF ReadBlocks, End, StepTo

\* The buffer is written, from its start, as far as the system takes it.
LEMMA WriteStep ==
    ASSUME CopyInv, clone_fallback
    PROVE  CopyInv'
<1>1. /\ UNCHANGED <<cpWin, cpFlags, source, targets, moved, dstName, offset, tgt, atOpen>>
      /\ cpAt = "write"
  BY DEF clone_fallback, given
<1>2. ~CopiesLink /\ outFile.type = "REG" /\ cpResult = 1
  BY <1>1 DEF CopyInv, DataInv, PhaseInv, Filling, Ended
<1>3. CopiesLink' = CopiesLink /\ Behind' = Behind
  BY <1>1 DEF CopiesLink, Behind
<1> DEFINE l == Len(buffer)
           m == Len(outFile.blocks)
<1>4. /\ l \in Nat /\ m \in Nat /\ m + l = offset
      /\ buffer \in Seq(Nat) /\ outFile.blocks \in Seq(Nat)
      /\ \A i \in 1 .. l : buffer[i] = m + i
  BY DEF CopyInv, CopyTypeOK, DataInv, OutRec
<1> HIDE DEF l, m
<1>5. ASSUME NEW k \in 1 .. l,
             outFile' = [outFile EXCEPT !.blocks = @ \o SubSeq(buffer, 1, k)],
             buffer' = SubSeq(buffer, k + 1, l),
             cpAt' = (IF k = l THEN "read" ELSE "write"), cpResult' = cpResult
      PROVE  CopyInv'
  <2> DEFINE x == SubSeq(buffer, 0 + 1, k)
             y == SubSeq(buffer, k + 1, l)
             new == outFile.blocks \o x
  <2>1. k \in Nat /\ 1 <= k /\ k <= l
    BY <1>4
  <2>2. x \in Seq(Nat) /\ Len(x) = k /\ \A i \in 1 .. k : x[i] = m + i
    <3>1. /\ x \in Seq(Nat) /\ Len(x) = IF 0 <= k THEN k - 0 ELSE 0
          /\ \A i \in 1 .. k - 0 : x[i] = buffer[0 + i]
      BY <1>4, <2>1, PartOf DEF l
    <3> HIDE DEF x
    <3> QED
      BY <1>4, <2>1, <3>1
  <2>3. y \in Seq(Nat) /\ Len(y) = l - k /\ \A i \in 1 .. l - k : y[i] = (m + k) + i
    <3>1. /\ y \in Seq(Nat) /\ Len(y) = IF k <= l THEN l - k ELSE 0
          /\ \A i \in 1 .. l - k : y[i] = buffer[k + i]
      <4>1. l <= Len(buffer)
        BY <1>4 DEF l
      <4> QED
        BY <1>4, <2>1, <4>1, PartOf
    <3>2. \A i \in 1 .. l - k : k + i \in 1 .. l /\ m + (k + i) = (m + k) + i
      BY <1>4, <2>1
    <3> HIDE DEF y
    <3> QED
      BY <1>4, <2>1, <3>1, <3>2
  <2> HIDE DEF x
  <2>4. new \in Seq(Nat) /\ Len(new) = m + k /\ \A i \in 1 .. m + k : new[i] = i
    BY <1>4, <2>2, NextBlocks DEF CopyInv, DataInv, m
  <2>5. outFile' = [outFile EXCEPT !.blocks = new] /\ buffer' = y
    BY <1>5, 0 + 1 = 1 DEF x
  <2> HIDE DEF new, y
  <2>6. outFile' \in OutRec /\ outFile'.type = "REG" /\ outFile'.blocks = new
    BY <1>2, <2>4, <2>5 DEF CopyInv, CopyTypeOK, OutRec
  <2>7. cpAt' \in {"read", "write"} /\ cpResult' = 1 /\ (cpAt' = "read" => k = l)
    BY <1>2, <1>5
  <2>8. CopyTypeOK'
    BY <1>1, <1>4, <2>3, <2>5, <2>6, <2>7
    DEF CopyInv, CopyTypeOK, SourceRec, OutRec, Before, Linking, Filling, Ended
  <2>9. DataInv'
    <3>1. (m + k) + (l - k) = offset /\ (k = l => l - k = 0)
      BY <1>4, <2>1
    <3> QED
      BY <1>1, <2>3, <2>4, <2>5, <2>6, <2>7, <3>1 DEF CopyInv, DataInv, Before, Linking
  <2>10. PhaseInv'
    BY <1>1, <1>2, <1>3, <2>6, <2>7 DEF CopyInv, PhaseInv, Before, Linking, Filling, Ended
  <2>11. NameInv'
    BY <1>1, <1>2, <2>6, <2>7 DEF CopyInv, NameInv, NoFile
  <2> QED
    BY <2>8, <2>9, <2>10, <2>11 DEF CopyInv
<1>6. ASSUME UNCHANGED <<outFile, buffer>>, cpAt' = "undo", cpResult' = cpResult
      PROVE  CopyInv'
  <2>1. CopyTypeOK'
    BY <1>1, <1>2, <1>6 DEF CopyInv, CopyTypeOK, SourceRec, OutRec, Before, Linking, Filling, Ended
  <2>2. DataInv'
    BY <1>1, <1>2, <1>6 DEF CopyInv, DataInv, Before, Linking
  <2>3. PhaseInv'
    BY <1>1, <1>2, <1>3, <1>6 DEF CopyInv, PhaseInv, Before, Linking, Filling, Ended
  <2>4. NameInv'
    BY <1>1, <1>2, <1>6 DEF CopyInv, NameInv, NoFile
  <2> QED
    BY <2>1, <2>2, <2>3, <2>4 DEF CopyInv
<1> QED
  BY <1>1, <1>5, <1>6, Zenon DEF clone_fallback, StepTo, l

\* The unfinished file goes.
LEMMA UndoStep ==
    ASSUME CopyInv, Undo
    PROVE  CopyInv'
<1>1. /\ UNCHANGED <<cpWin, cpFlags, source, targets, moved, outFile, offset, buffer, tgt, atOpen>>
      /\ cpAt = "undo" /\ cpAt' \in Ended /\ cpResult' = -1
      /\ dstName' \in {dstName, "none"} /\ (cpWin /\ dstName = "theirs" => dstName' = dstName)
      /\ cpAt' # "left" => dstName' = IF cpWin /\ dstName = "theirs" THEN dstName ELSE "none"
  BY DEF Undo, given, Ended
<1>2. CopyTypeOK'
  BY <1>1 DEF CopyInv, CopyTypeOK, SourceRec, OutRec, Before, Linking, Filling, Ended
<1>3. DataInv'
  BY <1>1 DEF CopyInv, DataInv, Before, Linking, Ended
<1>4. PhaseInv'
  <2>1. CopiesLink' = CopiesLink /\ Behind' = Behind
    BY <1>1 DEF CopiesLink, Behind
  <2> QED
    BY <1>1, <2>1 DEF CopyInv, PhaseInv, Before, Linking, Filling, Ended
<1>5. NameInv'
  <2>1. outFile # NoFile /\ cpResult # -1
    BY <1>1 DEF CopyInv, PhaseInv, Filling, Ended, NoFile
  <2> QED
    BY <1>1, <2>1 DEF CopyInv, CopyTypeOK, NameInv, NoFile
<1> QED
  BY <1>2, <1>3, <1>4, <1>5 DEF CopyInv

\* The link is created.
LEMMA SymlinkStep ==
    ASSUME CopyInv, mm_symlink
    PROVE  CopyInv'
<1>1. /\ UNCHANGED <<cpWin, cpFlags, source, targets, moved, offset, buffer, tgt, atOpen>>
      /\ cpAt = "symlink" /\ cpAt' = "done"
  BY DEF mm_symlink, given, End
<1>2. /\ offset = 0 /\ outFile = NoFile /\ Len(outFile.blocks) = 0 /\ Len(buffer) = 0
      /\ CopiesLink /\ dstName # "ours" /\ ~moved /\ cpResult = 1 /\ tgt \in targets
  BY <1>1 DEF CopyInv, CopyTypeOK, DataInv, PhaseInv, NameInv, Before, Linking, Filling, Ended, NoFile
<1>3. CopiesLink' = CopiesLink /\ Behind' = Behind
  BY <1>1 DEF CopiesLink, Behind
<1>4. CASE dstName # "none"
  <2>1. UNCHANGED <<dstName, outFile>> /\ cpResult' = -1
    BY <1>4 DEF mm_symlink, End
  <2>2. CopyTypeOK'
    BY <1>1, <2>1 DEF CopyInv, CopyTypeOK, SourceRec, OutRec, Before, Linking, Filling, Ended
  <2>3. DataInv'
    BY <1>1, <2>1 DEF CopyInv, DataInv, Before, Linking
  <2>4. PhaseInv'
    BY <1>1, <1>2, <1>3, <2>1 DEF CopyInv, PhaseInv, Before, Linking, Filling, Ended, NoFile
  <2>5. NameInv'
    BY <1>1, <1>2, <2>1 DEF CopyInv, NameInv, NoFile
  <2> QED
    BY <2>2, <2>3, <2>4, <2>5 DEF CopyInv
<1>5. CASE dstName = "none"
  <2>1. /\ dstName' = "ours" /\ cpResult' = 0
        /\ outFile' = [NoFile EXCEPT !.type = "LNK", !.target = tgt]
    BY <1>5 DEF mm_symlink, End
  <2>2. /\ outFile' \in OutRec /\ outFile'.type = "LNK" /\ outFile' # NoFile'
        /\ outFile'.blocks = <<>> /\ Len(outFile'.blocks) = 0 /\ outFile'.target = tgt
    <3>1. outFile' = [type |-> "LNK", blocks |-> <<>>, target |-> tgt]
      BY <2>1 DEF NoFile
    <3>2. <<>> \in Seq(Nat) /\ Len(<<>>) = 0 /\ tgt \in Seq(Nat)
      BY DEF CopyInv, CopyTypeOK
    <3>3. NoFile'.type = "none"
      BY DEF NoFile
    <3> QED
      BY <3>1, <3>2, <3>3 DEF OutRec
  <2>3. CopyTypeOK'
    BY <1>1, <2>1, <2>2 DEF CopyInv, CopyTypeOK, SourceRec, OutRec, Before, Linking, Filling, Ended
  <2>4. DataInv'
    BY <1>1, <1>2, <2>1, <2>2 DEF CopyInv, DataInv, Before, Linking
  <2>5. PhaseInv'
    BY <1>1, <1>2, <1>3, <2>1, <2>2 DEF CopyInv, PhaseInv, Before, Linking, Filling, Ended
  <2>6. NameInv'
    BY <1>1, <1>2, <2>1, <2>2 DEF CopyInv, NameInv
  <2> QED
    BY <2>3, <2>4, <2>5, <2>6 DEF CopyInv
<1> QED
  BY <1>4, <1>5

\* The other process: the source grows, the link is redirected, dst is taken.
LEMMA OtherSteps ==
    ASSUME CopyInv, OtherAppends \/ OtherRedirects \/ OtherTakesName
    PROVE  CopyInv'
<1>1. /\ UNCHANGED <<cpWin, cpFlags, outFile, cpAt, offset, buffer, tgt, cpResult, atOpen>>
      /\ cpAt \notin Ended
  BY DEF OtherAppends, OtherRedirects, OtherTakesName, otherVars
<1>2. cpResult = 1 /\ source \in SourceRec /\ Len(source.blocks) \in Nat
  BY <1>1 DEF CopyInv, CopyTypeOK, PhaseInv, SourceRec
<1>3. CASE OtherAppends
  <2> DEFINE n == Len(source.blocks)
             more == Blocks(n + 1)
  <2>1. /\ source' = [source EXCEPT !.blocks = more] /\ source.type = "REG"
        /\ UNCHANGED <<dstName, targets, moved>>
    BY <1>3 DEF OtherAppends
  <2>2. more \in Seq(Nat) /\ Len(more) = n + 1 /\ \A i \in 1 .. n + 1 : more[i] = i
    <3> HIDE DEF n
    <3>1. n \in Nat /\ more = [i \in 1 .. n + 1 |-> i]
      BY <1>2 DEF Blocks, n
    <3>2. more \in [1 .. n + 1 -> Nat] /\ n + 1 \in Nat
      BY <3>1
    <3> QED
      BY <3>1, <3>2, SeqDef, LenProperties
  <2> HIDE DEF more
  <2>3. /\ source' \in SourceRec /\ source'.blocks = more /\ source'.ranges = source.ranges
        /\ source'.target = source.target /\ source'.type = source.type
    BY <1>2, <2>1, <2>2 DEF SourceRec
  <2>4. CopyTypeOK'
    BY <1>1, <2>1, <2>3 DEF CopyInv, CopyTypeOK, OutRec, Before, Linking, Filling, Ended, SourceRec
  <2>5. DataInv'
    <3>1. Len(atOpen.blocks) <= n + 1 /\ offset <= n + 1
      BY <1>2 DEF CopyInv, CopyTypeOK, DataInv, SourceRec
    <3> QED
      BY <1>1, <2>2, <2>3, <3>1 DEF CopyInv, DataInv, Before, Linking
  <2>6. PhaseInv'
    <3>1. CopiesLink' = CopiesLink /\ Behind' = Behind
      BY <1>1, <2>3 DEF CopiesLink, Behind
    <3> QED
      BY <1>1, <1>2, <2>1, <2>3, <3>1 DEF CopyInv, PhaseInv, Before, Linking, Filling, Ended, NoFile
  <2>7. NameInv'
    BY <1>1, <2>1 DEF CopyInv, NameInv, NoFile
  <2> QED
    BY <2>4, <2>5, <2>6, <2>7 DEF CopyInv
<1>4. CASE OtherRedirects
  <2>1. PICK target \in {<<1>>, <<1, 2>>} :
          /\ source' = [source EXCEPT !.target = target]
          /\ targets' = targets \cup {target}
          /\ UNCHANGED <<dstName, moved>>
    BY <1>4 DEF OtherRedirects
  <2>2. target \in Seq(Nat)
    <3>1. <<1>> \in Seq(Nat) /\ <<1, 2>> \in Seq(Nat)
      OBVIOUS
    <3> QED
      BY <3>1
  <2>3. /\ source' \in SourceRec /\ source'.blocks = source.blocks
        /\ source'.ranges = source.ranges
        /\ source'.target = target /\ source'.type = source.type
    BY <1>2, <2>1, <2>2 DEF SourceRec
  <2>4. CopyTypeOK'
    BY <1>1, <2>1, <2>3 DEF CopyInv, CopyTypeOK, OutRec, Before, Linking, Filling, Ended, SourceRec
  <2>5. DataInv'
    BY <1>1, <2>3 DEF CopyInv, DataInv, Before, Linking
  <2>6. PhaseInv'
    <3>1. CopiesLink' = CopiesLink /\ Behind' = Behind
      BY <1>1, <2>3 DEF CopiesLink, Behind
    <3> QED
      BY <1>1, <1>2, <2>1, <2>3, <3>1 DEF CopyInv, PhaseInv, Before, Linking, Filling, Ended, NoFile
  <2>7. NameInv'
    BY <1>1, <2>1 DEF CopyInv, NameInv, NoFile
  <2> QED
    BY <2>4, <2>5, <2>6, <2>7 DEF CopyInv
<1>5. CASE OtherTakesName
  <2>1. /\ UNCHANGED <<source, targets>> /\ dstName' = "theirs" /\ moved' = (dstName = "ours")
        /\ dstName \in {"none", "ours"} /\ ~moved
    BY <1>5 DEF OtherTakesName
  <2>2. CopyTypeOK'
    BY <1>1, <2>1 DEF CopyInv, CopyTypeOK, OutRec, Before, Linking, Filling, Ended, SourceRec
  <2>3. DataInv'
    BY <1>1, <2>1 DEF CopyInv, DataInv, Before, Linking
  <2>4. PhaseInv'
    <3>1. CopiesLink' = CopiesLink /\ Behind' = Behind
      BY <1>1, <2>1 DEF CopiesLink, Behind
    <3> QED
      BY <1>1, <1>2, <2>1, <3>1 DEF CopyInv, PhaseInv, Before, Linking, Filling, Ended, NoFile
  <2>5. NameInv'
    <3>1. moved' <=> outFile # NoFile
      <4>1. outFile = NoFile => dstName # "ours"
        BY DEF CopyInv, NameInv
      <4>2. outFile # NoFile => dstName = "ours"
        BY <1>2, <2>1 DEF CopyInv, NameInv
      <4> QED
        BY <2>1, <4>1, <4>2
    <3> QED
      BY <1>1, <1>2, <2>1, <3>1 DEF NameInv, NoFile
  <2> QED
    BY <2>2, <2>3, <2>4, <2>5 DEF CopyInv
<1> QED
  BY <1>3, <1>4, <1>5

(***************************************************************************)
(* mm_copy() makes a whole copy or none: whatever the system moves at a    *)
(* time, and whatever the other process does between two calls, the new    *)
(* file is a prefix of the source, all of it if the call succeeds, and a   *)
(* call that fails leaves no file of its own, unless it cannot remove it.  *)
(***************************************************************************)
THEOREM CopyIsWhole == CopySpec => []CopyAllOrNothing
<1>1. CopyInit => CopyInv
  BY InitCopyInv
<1>2. CopyInv /\ [CopyNext]_copyVars => CopyInv'
  <2> SUFFICES ASSUME CopyInv, [CopyNext]_copyVars PROVE CopyInv'
    OBVIOUS
  <2>1. CASE UNCHANGED copyVars
    <3>1. UNCHANGED <<cpWin, cpFlags, source, dstName, outFile, cpAt, offset, buffer, tgt,
                      cpResult, atOpen, targets, moved>>
      BY <2>1 DEF copyVars
    <3>2. CopyTypeOK' /\ DataInv'
      BY <3>1 DEF CopyInv, CopyTypeOK, DataInv, OutRec, Before, Linking, Filling, Ended, SourceRec
    <3>3. PhaseInv' /\ NameInv'
      BY <3>1 DEF CopyInv, PhaseInv, NameInv, Before, Linking, Filling, Ended, NoFile, CopiesLink, Behind
    <3> QED
      BY <3>2, <3>3 DEF CopyInv
  <2>2. CASE CopyNext
    BY <2>2, QuietCopySteps, CreateStep, RangeStep, ReadStep, WriteStep, UndoStep, SymlinkStep,
       OtherSteps DEF CopyNext
  <2> QED
    BY <2>1, <2>2
<1>3. CopyInv => CopyAllOrNothing
  <2> SUFFICES ASSUME CopyInv PROVE CopyAllOrNothing
    OBVIOUS
  <2>1. IsPrefix(outFile.blocks, source.blocks)
    <3>1. /\ outFile.blocks \in Seq(Nat) /\ source.blocks \in Seq(Nat) /\ buffer \in Seq(Nat)
          /\ offset \in Nat
      BY DEF CopyInv, CopyTypeOK, OutRec, SourceRec
    <3>2. \A x, y, z, w \in Nat : x + y = z /\ z <= w => x <= w
      OBVIOUS
    <3>3. Len(outFile.blocks) <= Len(source.blocks)
      BY <3>1, <3>2 DEF CopyInv, DataInv
    <3> QED
      BY <3>1, <3>3, OrderedPrefix DEF CopyInv, DataInv
  <2>2. (cpResult = 0 /\ ~moved) => dstName = "ours"
    <3>1. cpResult = 0 => outFile # NoFile
      BY DEF CopyInv, PhaseInv, NoFile
    <3> QED
      BY <3>1 DEF CopyInv, NameInv
  <2> QED
    BY <2>1, <2>2 DEF CopyInv, PhaseInv, NameInv, CopyAllOrNothing
<1> QED
  BY <1>1, <1>2, <1>3, PTL DEF CopySpec

-----------------------------------------------------------------------------
(***************************************************************************)
(* Descriptors on Windows: the inductive invariant                         *)
(***************************************************************************)
FdSpec == FdInit /\ [][FdNext]_fdVars

\* The characters a file can hold: a gap reads as "0".
Char == {"a", "0", CR, LF} \cup UNION {Range(buf) : buf \in Buffers}

Kinds == {"file", "pipe", "console", "pty"}
ObjRec == [kind : Kinds, name : FileNames \cup {"tty", "pipe"}, pos : Nat,
           access : SUBSET {"read", "write"}, append : BOOLEAN]
InfoRec == [type : {"unknown", "normal", "console", "pipe"},
            flags : SUBSET {"TEXT", "ISATTY", "APPEND"}]

FdTypeOK ==
    /\ \A n \in DOMAIN files : files[n] \in Seq(Char)
    /\ opened \in Seq(ObjRec)
    /\ \A i \in 1 .. Len(opened) : opened[i].name \in DOMAIN files
    /\ fdObj \in [Fd -> Nat] /\ \A fd \in Fd : fdObj[fd] <= Len(opened)
    /\ fdMode \in [Fd -> {"binary", "text"}]
    /\ fdInfos \in [Fd -> InfoRec]
    /\ closing \in Fd \cup {-1}

\* An info is right for an object and a mode, or there is none and the object
\* does not append. What appends is a file in binary mode.
InfoFits(info, obj, mode) ==
    /\ \/ info = FD_TYPE_UNKNOWN /\ ~obj.append
       \/ /\ info.type = CASE obj.kind = "file" -> "normal"
                           [] obj.kind = "console" -> "console"
                           [] OTHER -> "pipe"
          /\ ("APPEND" \in info.flags) = obj.append
          /\ obj.kind \in {"file", "pipe"} => (("TEXT" \in info.flags) = (mode = "text"))
    /\ obj.append => obj.kind = "file" /\ mode = "binary"

\* The table is right for what is open, and a number that is free is unknown,
\* but for the one whose info mm_close() has yet to forget.
FdTableInv ==
    \A fd \in Fd : closing # fd =>
        IF fdObj[fd] = 0 THEN fdInfos[fd] = FD_TYPE_UNKNOWN
        ELSE InfoFits(fdInfos[fd], ObjOf(fd), fdMode[fd])

\* Nothing happens between the steps of mm_close().
ClosingInv == closing # -1 => fdCall.op = "close" /\ fdObj[closing] = 0

FdInv == FdTypeOK /\ FdTableInv /\ ClosingInv

-----------------------------------------------------------------------------
\* A set that holds 0 and the successor of each of its numbers holds all.
LEMMA SetInduction ==
    ASSUME NEW T, 0 \in T, \A n \in Nat : n \in T => n + 1 \in T
    PROVE  Nat \subseteq T
<1> DEFINE R == {p \in Nat \X Nat : p[1] < p[2]}
           Bad == Nat \ T
<1> SUFFICES ASSUME Bad # {} PROVE FALSE
  OBVIOUS
<1>1. IsWellFoundedOn(R, Nat)
  BY NatLessThanWellFounded DEF OpToRel
<1>2. Bad \subseteq Nat
  OBVIOUS
<1> HIDE DEF R, Bad
<1>3. PICK x \in Bad : \A y \in Bad : ~(<<y, x>> \in R)
  BY <1>1, <1>2, WFMin
<1>4. x \in Nat /\ x # 0
  BY DEF Bad
<1>5. x - 1 \in Nat /\ <<x - 1, x>> \in R
  BY <1>4 DEF R
<1>6. x - 1 \in T
  BY <1>3, <1>5 DEF Bad
<1>7. (x - 1) + 1 = x
  BY <1>4
<1> QED
  BY <1>3, <1>5, <1>6, <1>7 DEF Bad

\* The concatenation of a sequence of sequences is made one by one.
FlatRun(g, S, seqs) ==
    /\ g \in [0 .. Len(seqs) -> Seq(S)] /\ g[0] = <<>>
    /\ \A k \in 1 .. Len(seqs) : g[k] = g[k - 1] \o seqs[k]

LEMMA FlattenedBy ==
    ASSUME NEW S, NEW seqs \in Seq(Seq(S))
    PROVE  \E g : FlatRun(g, S, seqs) /\ FlattenSeq(seqs) = g[Len(seqs)]
<1> DEFINE n == Len(seqs)
           Def(f, i) == IF i = 1 THEN seqs[i] ELSE f[i - 1] \o seqs[i]
           IsFlat(f, k) == f \in [1 .. k -> Seq(S)] /\ \A i \in 1 .. k : f[i] = Def(f, i)
           T == {k \in Nat : k <= n => \E f : IsFlat(f, k)}
<1>1. n \in Nat /\ \A i \in 1 .. n : seqs[i] \in Seq(S)
  OBVIOUS
<1> HIDE DEF n
<1>2. 0 \in T
  <2> DEFINE f == [i \in 1 .. 0 |-> <<>>]
  <2>1. f \in [1 .. 0 -> Seq(S)] /\ \A i \in 1 .. 0 : f[i] = Def(f, i)
    OBVIOUS
  <2> QED
    BY <2>1
<1>3. ASSUME NEW k \in Nat, k \in T PROVE k + 1 \in T
  <2> SUFFICES ASSUME k + 1 <= n
               PROVE  \E g : IsFlat(g, k + 1)
    <3> HIDE DEF IsFlat
    <3> QED
      OBVIOUS
  <2>1. PICK f : IsFlat(f, k)
    <3> HIDE DEF IsFlat
    <3> QED
      BY <1>1, <1>3
  <2> DEFINE g == [i \in 1 .. k + 1 |-> IF i = k + 1 THEN Def(f, i) ELSE f[i]]
  <2>2. Def(f, k + 1) \in Seq(S)
    <3>1. seqs[k + 1] \in Seq(S)
      BY <1>1
    <3>2. CASE k = 0
      BY <3>1, <3>2
    <3>3. CASE k # 0
      <4>1. f[k] \in Seq(S) /\ (k + 1) - 1 = k /\ k + 1 # 1
        BY <2>1, <3>3
      <4>2. f[k] \o seqs[k + 1] \in Seq(S)
        BY <3>1, <4>1, ConcatProperties
      <4> QED
        BY <4>1, <4>2
    <3> QED
      BY <3>2, <3>3
  <2>3. g \in [1 .. k + 1 -> Seq(S)]
    <3> HIDE DEF Def
    <3>1. \A i \in 1 .. k + 1 : i # k + 1 => f[i] \in Seq(S)
      BY <2>1
    <3> QED
      BY <2>2, <3>1
  <2>4. ASSUME NEW i \in 1 .. k + 1 PROVE g[i] = Def(g, i)
    <3>1. g[i] = Def(f, i)
      <4>1. CASE i = k + 1
        BY <4>1
      <4>2. CASE i # k + 1
        <5>1. i \in 1 .. k
          BY <4>2
        <5> QED
          BY <2>1, <4>2, <5>1
      <4> QED
        BY <4>1, <4>2
    <3>2. i # 1 => g[i - 1] = f[i - 1]
      <4> SUFFICES ASSUME i # 1 PROVE g[i - 1] = f[i - 1]
        OBVIOUS
      <4>1. i - 1 \in 1 .. k /\ i - 1 \in 1 .. k + 1 /\ i - 1 # k + 1
        OBVIOUS
      <4> QED
        BY <4>1
    <3> HIDE DEF g
    <3> QED
      BY <3>1, <3>2
  <2> HIDE DEF g
  <2> QED
    BY <2>3, <2>4
<1>4. n \in T
  <2> HIDE DEF T
  <2> QED
    BY <1>1, <1>2, <1>3, SetInduction
<1>5. PICK f : IsFlat(f, n)
  <2> HIDE DEF IsFlat
  <2> QED
    BY <1>1, <1>4
<1> DEFINE IsIt(g) == g = [i \in 1 .. n |-> Def(g, i)]
           flat == CHOOSE g : IsIt(g)
<1>6. IsIt(f)
  BY <1>5
<1>7. flat = [i \in 1 .. n |-> Def(flat, i)]
  BY <1>6
<1>8. FlattenSeq(seqs) = IF n = 0 THEN seqs ELSE flat[n]
  BY DEF FlattenSeq, n
<1> DEFINE U == {k \in Nat : k + 1 <= n => flat[k + 1] \in Seq(S)}
<1> HIDE DEF flat
<1>9. 0 \in U
  <2> SUFFICES ASSUME 1 <= n PROVE flat[1] \in Seq(S)
    OBVIOUS
  <2>1. 1 \in 1 .. n
    BY <1>1
  <2>2. flat[1] = seqs[1]
    BY <1>7, <2>1
  <2> QED
    BY <1>1, <2>1, <2>2
<1>10. ASSUME NEW k \in Nat, k \in U PROVE k + 1 \in U
  <2> SUFFICES ASSUME (k + 1) + 1 <= n PROVE flat[(k + 1) + 1] \in Seq(S)
    OBVIOUS
  <2> DEFINE i == (k + 1) + 1
  <2>1. i \in 1 .. n /\ i # 1 /\ i - 1 = k + 1 /\ k + 1 <= n
    BY <1>1
  <2>2. flat[k + 1] \in Seq(S)
    BY <1>10, <2>1
  <2> HIDE DEF i
  <2>3. flat[i] = flat[k + 1] \o seqs[i]
    BY <1>7, <2>1
  <2>4. flat[i] \in Seq(S)
    BY <1>1, <2>1, <2>2, <2>3, ConcatProperties
  <2> QED
    BY <2>4 DEF i
<1>11. ASSUME NEW k \in 1 .. n PROVE flat[k] \in Seq(S)
  <2>1. k - 1 \in Nat /\ (k - 1) + 1 = k /\ k <= n
    BY <1>1
  <2>2. Nat \subseteq U
    <3> HIDE DEF U
    <3> QED
      BY <1>9, <1>10, SetInduction
  <2>3. k - 1 \in U
    BY <2>1, <2>2
  <2> QED
    BY <2>1, <2>3
<1> DEFINE g == [k \in 0 .. n |-> IF k = 0 THEN <<>> ELSE flat[k]]
<1>12. g \in [0 .. n -> Seq(S)] /\ g[0] = <<>> /\ \A k \in 1 .. n : g[k] = flat[k]
  <2>1. ASSUME NEW k \in 0 .. n PROVE (IF k = 0 THEN <<>> ELSE flat[k]) \in Seq(S)
    <3>1. <<>> \in Seq(S) /\ (k = 0 \/ k \in 1 .. n)
      BY <1>1
    <3> QED
      BY <1>11, <3>1
  <2>2. g \in [0 .. n -> Seq(S)]
    BY <2>1
  <2>3. 0 \in 0 .. n /\ \A k \in 1 .. n : k \in 0 .. n /\ k # 0
    BY <1>1
  <2> QED
    BY <2>2, <2>3
<1> HIDE DEF g
<1>13. ASSUME NEW k \in 1 .. n PROVE g[k] = g[k - 1] \o seqs[k]
  <2>1. CASE k = 1
    <3>1. flat[1] = seqs[1]
      BY <1>7, <2>1
    <3>2. seqs[1] \in Seq(S) /\ 1 - 1 = 0
      BY <1>1, <2>1
    <3>3. <<>> \o seqs[1] = seqs[1]
      BY <3>2, ConcatEmptySeq
    <3> QED
      BY <1>12, <2>1, <3>1, <3>2, <3>3
  <2>2. CASE k # 1
    <3>1. k - 1 \in 1 .. n
      BY <1>1, <2>2
    <3>2. flat[k] = flat[k - 1] \o seqs[k]
      BY <1>7, <2>2
    <3> QED
      BY <1>12, <3>1, <3>2
  <2> QED
    BY <2>1, <2>2
<1>14. FlattenSeq(seqs) = g[n]
  <2>1. CASE n = 0
    <3>1. seqs = <<>>
      BY <2>1 DEF n
    <3> QED
      BY <1>8, <1>12, <2>1, <3>1
  <2>2. CASE n # 0
    <3>1. n \in 1 .. n
      BY <1>1, <2>2
    <3> QED
      BY <1>8, <1>12, <2>2, <3>1
  <2> QED
    BY <2>1, <2>2
<1>15. FlatRun(g, S, seqs)
  BY <1>12, <1>13 DEF FlatRun, n
<1> QED
  BY <1>14, <1>15 DEF n

LEMMA FlattenedIsSeq ==
    ASSUME NEW S, NEW seqs \in Seq(Seq(S)) PROVE FlattenSeq(seqs) \in Seq(S)
<1>1. PICK g : FlatRun(g, S, seqs) /\ FlattenSeq(seqs) = g[Len(seqs)]
  BY FlattenedBy
<1>2. Len(seqs) \in 0 .. Len(seqs)
  OBVIOUS
<1> QED
  BY <1>1, <1>2 DEF FlatRun

\* What is written in text mode.
LEMMA ExpandedType ==
    ASSUME NEW buf \in Seq(Char) PROVE Expanded(buf) \in Seq(Char)
<1> DEFINE seqs == [i \in 1 .. Len(buf) |-> IF buf[i] = LF THEN <<CR, LF>> ELSE <<buf[i]>>]
<1>1. CR \in Char /\ LF \in Char /\ Len(buf) \in Nat
  BY DEF Char
<1>2. ASSUME NEW i \in 1 .. Len(buf)
      PROVE  (IF buf[i] = LF THEN <<CR, LF>> ELSE <<buf[i]>>) \in Seq(Char)
  <2>1. buf[i] \in Char
    OBVIOUS
  <2>2. <<CR, LF>> \in Seq(Char) /\ <<buf[i]>> \in Seq(Char)
    BY <1>1, <2>1
  <2> QED
    BY <2>2
<1>3. seqs \in Seq(Seq(Char))
  BY <1>1, <1>2
<1>4. Expanded(buf) = FlattenSeq(seqs)
  BY DEF Expanded
<1> HIDE DEF seqs
<1> QED
  BY <1>3, <1>4, FlattenedIsSeq

\* What set_creation_mode() makes of the flags.
LEMMA Dispositions ==
    ASSUME NEW oflags
    PROVE  LET d == set_creation_mode(oflags)
           IN  /\ d \in {"OPEN_EXISTING", "TRUNCATE_EXISTING", "CREATE_NEW", "OPEN_ALWAYS",
                          "CREATE_ALWAYS"}
               /\ d \in {"CREATE_NEW", "OPEN_ALWAYS", "CREATE_ALWAYS"} => "CREAT" \in oflags
               /\ d \in {"TRUNCATE_EXISTING", "CREATE_ALWAYS"} =>
                        "TRUNC" \in oflags /\ ~({"CREAT", "EXCL"} \subseteq oflags)
               /\ "TRUNC" \in oflags => d \notin {"OPEN_EXISTING", "OPEN_ALWAYS"}
<1> DEFINE T == oflags \cap {"TRUNC", "CREAT"}
           U == oflags \cap {"TRUNC", "CREAT", "EXCL"}
<1>1. CASE "CREAT" \notin oflags /\ "TRUNC" \notin oflags
  <2>1. T = {}
    BY <1>1
  <2>2. set_creation_mode(oflags) = "OPEN_EXISTING"
    BY <2>1, <1>1 DEF set_creation_mode
  <2> QED
    BY <1>1, <2>2
<1>2. CASE "CREAT" \notin oflags /\ "TRUNC" \in oflags
  <2>1. T = {"TRUNC"} /\ T # {} /\ ~({"CREAT", "EXCL"} \subseteq oflags) /\ U # {"CREAT"}
    BY <1>2
  <2>2. set_creation_mode(oflags) = "TRUNCATE_EXISTING"
    BY <2>1 DEF set_creation_mode
  <2> QED
    BY <1>2, <2>1, <2>2
<1>3. CASE "CREAT" \in oflags /\ "EXCL" \in oflags
  <2>1. T # {} /\ T # {"TRUNC"} /\ {"CREAT", "EXCL"} \subseteq oflags /\ U # {"CREAT"}
    BY <1>3
  <2>2. set_creation_mode(oflags) = "CREATE_NEW"
    BY <2>1 DEF set_creation_mode
  <2> QED
    BY <1>3, <2>2
<1>4. CASE "CREAT" \in oflags /\ "EXCL" \notin oflags /\ "TRUNC" \notin oflags
  <2>1. T # {} /\ T # {"TRUNC"} /\ ~({"CREAT", "EXCL"} \subseteq oflags) /\ U = {"CREAT"}
    BY <1>4
  <2>2. set_creation_mode(oflags) = "OPEN_ALWAYS"
    BY <2>1 DEF set_creation_mode
  <2> QED
    BY <1>4, <2>2
<1>5. CASE "CREAT" \in oflags /\ "EXCL" \notin oflags /\ "TRUNC" \in oflags
  <2>1. T # {} /\ T # {"TRUNC"} /\ ~({"CREAT", "EXCL"} \subseteq oflags) /\ U # {"CREAT"}
    BY <1>5
  <2>2. set_creation_mode(oflags) = "CREATE_ALWAYS"
    BY <2>1 DEF set_creation_mode
  <2> QED
    BY <1>5, <2>1, <2>2
<1> QED
  BY <1>1, <1>2, <1>3, <1>4, <1>5

\* The files fs after CreateFileW() of name with disposition d.
Created(fs, name, d) ==
    /\ DOMAIN fs = DOMAIN files \cup {name}
    /\ \A n \in DOMAIN fs : fs[n] \in Seq(Char)
    /\ \A n \in DOMAIN files : n # name => fs[n] = files[n]
    /\ name \notin DOMAIN files => d \in {"CREATE_NEW", "OPEN_ALWAYS", "CREATE_ALWAYS"}
    /\ name \in DOMAIN files => d # "CREATE_NEW"
    /\ IF name \in DOMAIN files /\ d \in {"OPEN_EXISTING", "OPEN_ALWAYS"}
       THEN fs = files ELSE fs[name] = <<>>

LEMMA CreatedFiles ==
    ASSUME FdTypeOK, NEW name, NEW access, NEW d, NEW fs \in CreateFile(name, access, d),
           d \in {"OPEN_EXISTING", "TRUNCATE_EXISTING", "CREATE_NEW", "OPEN_ALWAYS",
                 "CREATE_ALWAYS"}
    PROVE  Created(fs, name, d)
<1> DEFINE exists == name \in DOMAIN files
           denied == \/ d = "CREATE_NEW" /\ exists
                     \/ d \in {"OPEN_EXISTING", "TRUNCATE_EXISTING"} /\ ~exists
                     \/ d = "TRUNCATE_EXISTING" /\ "write" \notin access
           kept == d \in {"OPEN_EXISTING", "OPEN_ALWAYS"} /\ exists
           new == [n \in DOMAIN files \cup {name} |-> IF n = name THEN <<>> ELSE files[n]]
<1>1. ~(denied /\ kept)
  OBVIOUS
<1>2. CreateFile(name, access, d) = CASE denied -> {} [] kept -> {files} [] OTHER -> {new}
  BY DEF CreateFile
<1>3. ~denied
  BY <1>1, <1>2
<1>4. CASE kept
  <2>1. fs = files
    BY <1>1, <1>2, <1>3, <1>4
  <2> QED
    BY <1>3, <1>4, <2>1 DEF FdTypeOK, Created
<1>5. CASE ~kept
  <2>1. fs = new
    BY <1>2, <1>3, <1>5
  <2>2. <<>> \in Seq(Char)
    OBVIOUS
  <2> QED
    BY <1>3, <1>5, <2>1, <2>2 DEF FdTypeOK, Created
<1> QED
  BY <1>4, <1>5

\* The kernel gives a free number, the lowest of those asked for.
LEMMA LowestOf ==
    ASSUME NEW S \in SUBSET Fd, S # {}
    PROVE  (CHOOSE fd \in S : \A g \in S : fd <= g) \in S
<1> DEFINE R == {p \in Nat \X Nat : p[1] < p[2]}
<1>1. IsWellFoundedOn(R, Nat)
  BY NatLessThanWellFounded DEF OpToRel
<1>2. S \subseteq Nat
  BY FdAssumption DEF Fd
<1> HIDE DEF R
<1>3. PICK x \in S : \A y \in S : ~(<<y, x>> \in R)
  BY <1>1, <1>2, WFMin
<1>4. ASSUME NEW y \in S PROVE x <= y
  <2>1. x \in Nat /\ y \in Nat /\ <<y, x>> \notin R
    BY <1>2, <1>3
  <2>2. <<y, x>> \in Nat \X Nat /\ <<y, x>>[1] = y /\ <<y, x>>[2] = x
    BY <2>1
  <2>3. ~(y < x)
    BY <2>1, <2>2 DEF R
  <2> QED
    BY <2>1, <2>3
<1> QED
  BY <1>4

\* An info that fits still fits when it has been looked up.
LEMMA LookedUp ==
    ASSUME NEW fd \in Fd, FdTypeOK, fdObj[fd] # 0,
           InfoFits(fdInfos[fd], ObjOf(fd), fdMode[fd])
    PROVE  /\ get_fd_info_checked(fd) \in InfoRec
           /\ get_fd_info_checked(fd) # FD_TYPE_UNKNOWN
           /\ InfoFits(get_fd_info_checked(fd), ObjOf(fd), fdMode[fd])
<1>1. /\ ObjOf(fd) \in ObjRec /\ fdMode[fd] \in {"binary", "text"} /\ fdInfos[fd] \in InfoRec
      /\ fdObj[fd] \in 1 .. Len(opened)
  BY FdAssumption DEF FdTypeOK, ObjOf, Fd
<1>2. CASE fdInfos[fd] = FD_TYPE_UNKNOWN
  <2>1. get_fd_info_checked(fd) = guess_fd_info(fd)
    BY <1>2 DEF get_fd_info_checked
  <2>2. ObjOf(fd).append = FALSE /\ ObjOf(fd).kind \in Kinds
    BY <1>1, <1>2 DEF InfoFits, FD_TYPE_UNKNOWN, FdInfo, ObjRec, Kinds
  <2>3. /\ guess_fd_info(fd) \in InfoRec /\ guess_fd_info(fd).type # "unknown"
        /\ "APPEND" \notin guess_fd_info(fd).flags
        /\ guess_fd_info(fd).type = CASE ObjOf(fd).kind = "file" -> "normal"
                           [] ObjOf(fd).kind = "console" -> "console"
                           [] OTHER -> "pipe"
        /\ ObjOf(fd).kind \in {"file", "pipe"} =>
                (("TEXT" \in guess_fd_info(fd).flags) = (fdMode[fd] = "text"))
    <3>1. CASE ObjOf(fd).kind = "console"
      <4>1. guess_fd_info(fd) = FdInfo("console", {"TEXT", "ISATTY"})
        BY <3>1 DEF guess_fd_info, is_cygpty_pipe
      <4> QED
        BY <3>1, <4>1 DEF FdInfo, InfoRec
    <3>2. CASE ObjOf(fd).kind = "pty"
      <4>1. guess_fd_info(fd) = FdInfo("pipe", {"ISATTY"})
        BY <3>2 DEF guess_fd_info, is_cygpty_pipe
      <4> QED
        BY <3>2, <4>1 DEF FdInfo, InfoRec
    <3>3. CASE ObjOf(fd).kind = "pipe"
      <4>1. guess_fd_info(fd) = FdInfo("pipe", IF fdMode[fd] = "text" THEN {"TEXT"} ELSE {})
        BY <3>3 DEF guess_fd_info, is_cygpty_pipe
      <4> QED
        BY <3>3, <4>1 DEF FdInfo, InfoRec
    <3>4. CASE ObjOf(fd).kind = "file"
      <4>1. guess_fd_info(fd) = FdInfo("normal", IF fdMode[fd] = "text" THEN {"TEXT"} ELSE {})
        BY <3>4 DEF guess_fd_info, is_cygpty_pipe
      <4> QED
        BY <3>4, <4>1 DEF FdInfo, InfoRec
    <3> QED
      BY <2>2, <3>1, <3>2, <3>3, <3>4 DEF Kinds
  <2>4. (("APPEND" \in guess_fd_info(fd).flags) = ObjOf(fd).append) /\ ~ObjOf(fd).append
    <3>1. "APPEND" \notin guess_fd_info(fd).flags
      BY <2>3
    <3>2. ("APPEND" \in guess_fd_info(fd).flags) = FALSE
      BY <3>1
    <3> QED
      BY <2>2, <3>2, Zenon
  <2>5. guess_fd_info(fd) # FD_TYPE_UNKNOWN
    BY <2>3 DEF FD_TYPE_UNKNOWN, FdInfo
  <2> QED
    BY <2>1, <2>3, <2>4, <2>5 DEF InfoFits
<1>3. CASE fdInfos[fd] # FD_TYPE_UNKNOWN
  BY <1>1, <1>3 DEF get_fd_info_checked
<1> QED
  BY <1>2, <1>3

\* What the property says follows.
LEMMA InfoRight == ASSUME FdInv PROVE InfoTellsFile
<1> SUFFICES ASSUME NEW fd \in Fd, fdObj[fd] # 0, closing # fd
             PROVE  LET info == get_fd_info_checked(fd)
                    IN  /\ info.type = CASE ObjOf(fd).kind = "file" -> "normal"
                                         [] ObjOf(fd).kind = "console" -> "console"
                                         [] OTHER -> "pipe"
                        /\ ("APPEND" \in info.flags) = ObjOf(fd).append
                        /\ ObjOf(fd).kind = "file" =>
                                (("TEXT" \in info.flags) = (fdMode[fd] = "text"))
  BY DEF InfoTellsFile
<1>1. InfoFits(fdInfos[fd], ObjOf(fd), fdMode[fd])
  BY DEF FdInv, FdTableInv
<1>2. /\ get_fd_info_checked(fd) # FD_TYPE_UNKNOWN
      /\ InfoFits(get_fd_info_checked(fd), ObjOf(fd), fdMode[fd])
  BY <1>1, LookedUp DEF FdInv
<1> QED
  BY <1>2 DEF InfoFits

LEMMA InitFdInv == FdInit => FdInv
<1> SUFFICES ASSUME FdInit PROVE FdInv
  OBVIOUS
<1>1. PICK kind \in {"console", "pty"} : opened = <<Object(kind, "tty", {}, FALSE)>>
  BY DEF FdInit
<1>2. Object(kind, "tty", {}, FALSE) \in ObjRec
  BY DEF Object, ObjRec, Kinds
<1>3. FdTypeOK
  <2>1. files["old"] \in Seq(Char) /\ files["tty"] \in Seq(Char) /\ DOMAIN files = {"old", "tty"}
    <3>1. "a" \in Char
      BY DEF Char
    <3>3. <<"a">> \in Seq(Char) /\ <<>> \in Seq(Char)
      BY <3>1
    <3>2. files["old"] = <<"a">> /\ files["tty"] = <<>> /\ DOMAIN files = {"old", "tty"}
      BY DEF FdInit
    <3> QED
      BY <3>3, <3>2
  <2>2. opened \in Seq(ObjRec) /\ Len(opened) = 1 /\ opened[1].name = "tty"
    BY <1>1, <1>2 DEF Object
  <2>3. fdInfos \in [Fd -> InfoRec]
    BY DEF FdInit, FD_TYPE_UNKNOWN, FdInfo, InfoRec
  <2>4. /\ fdObj \in [Fd -> Nat] /\ \A fd \in Fd : fdObj[fd] <= 1
        /\ fdMode \in [Fd -> {"binary", "text"}] /\ closing = -1
    BY DEF FdInit
  <2> QED
    BY <2>1, <2>2, <2>3, <2>4 DEF FdTypeOK
<1>4. FdTableInv
  <2> SUFFICES ASSUME NEW fd \in Fd
               PROVE  IF fdObj[fd] = 0 THEN fdInfos[fd] = FD_TYPE_UNKNOWN
                      ELSE InfoFits(fdInfos[fd], ObjOf(fd), fdMode[fd])
    BY DEF FdTableInv
  <2>1. fdInfos[fd] = FD_TYPE_UNKNOWN /\ (fdObj[fd] # 0 => fdObj[fd] = 1)
    BY DEF FdInit
  <2>2. opened[1].append = FALSE
    BY <1>1 DEF Object
  <2> QED
    BY <2>1, <2>2 DEF InfoFits, ObjOf
<1> QED
  BY <1>3, <1>4 DEF FdInit, FdInv, ClosingInv

-----------------------------------------------------------------------------
(***************************************************************************)
(* The calls keep it                                                       *)
(***************************************************************************)

\* A call that gives new entries to the numbers in New, or moves positions.
LEMMA TablesChange ==
    ASSUME FdInv, closing = -1, closing' = -1, NEW New \in SUBSET Fd,
           opened' \in Seq(ObjRec), Len(opened) <= Len(opened'),
           \A i \in 1 .. Len(opened) : /\ opened'[i].kind = opened[i].kind
                                       /\ opened'[i].append = opened[i].append,
           \A i \in 1 .. Len(opened') : opened'[i].name \in DOMAIN files',
           \A n \in DOMAIN files' : files'[n] \in Seq(Char),
           fdObj' \in [Fd -> Nat], fdMode' \in [Fd -> {"binary", "text"}],
           fdInfos' \in [Fd -> InfoRec],
           \A fd \in Fd \ New : /\ fdObj'[fd] = fdObj[fd] /\ fdMode'[fd] = fdMode[fd]
                                /\ fdInfos'[fd] = fdInfos[fd],
           \A fd \in New : /\ fdObj'[fd] \in 1 .. Len(opened')
                           /\ InfoFits(fdInfos'[fd], opened'[fdObj'[fd]], fdMode'[fd])
    PROVE  FdInv'
<1>1. Len(opened) \in Nat /\ Len(opened') \in Nat
  BY DEF FdInv, FdTypeOK
<1>2. ASSUME NEW fd \in Fd PROVE fdObj'[fd] <= Len(opened')
  <2>1. CASE fd \in New
    BY <1>1, <2>1
  <2>2. CASE fd \notin New
    <3>1. fdObj'[fd] = fdObj[fd] /\ fdObj[fd] \in Nat /\ fdObj[fd] <= Len(opened)
      BY <2>2 DEF FdInv, FdTypeOK
    <3> QED
      BY <1>1, <3>1
  <2> QED
    BY <2>1, <2>2
<1>3. FdTypeOK'
  BY <1>2 DEF FdTypeOK
<1>4. ASSUME NEW fd \in Fd
      PROVE  IF fdObj'[fd] = 0 THEN fdInfos'[fd] = FD_TYPE_UNKNOWN
             ELSE InfoFits(fdInfos'[fd], opened'[fdObj'[fd]], fdMode'[fd])
  <2>1. CASE fd \in New
    <3>1. fdObj'[fd] # 0
      BY <1>1, <2>1
    <3> QED
      BY <2>1, <3>1
  <2>2. CASE fd \notin New
    <3>1. /\ fdObj'[fd] = fdObj[fd] /\ fdMode'[fd] = fdMode[fd] /\ fdInfos'[fd] = fdInfos[fd]
      BY <2>2
    <3>2. closing # fd /\ fdObj[fd] \in Nat /\ fdObj[fd] <= Len(opened)
      <4>1. closing # fd
        BY FdAssumption DEF Fd
      <4> QED
        BY <4>1 DEF FdInv, FdTypeOK
    <3>3. CASE fdObj[fd] = 0
      BY <3>1, <3>2, <3>3 DEF FdInv, FdTableInv
    <3>4. CASE fdObj[fd] # 0
      <4>1. fdObj[fd] \in 1 .. Len(opened)
        BY <1>1, <3>2, <3>4
      <4>2. InfoFits(fdInfos[fd], opened[fdObj[fd]], fdMode[fd])
        BY <3>2, <3>4 DEF FdInv, FdTableInv, ObjOf
      <4>3. /\ opened'[fdObj[fd]].kind = opened[fdObj[fd]].kind
            /\ opened'[fdObj[fd]].append = opened[fdObj[fd]].append
        BY <4>1
      <4>4. InfoFits(fdInfos[fd], opened'[fdObj[fd]], fdMode[fd])
        BY <4>2, <4>3 DEF InfoFits
      <4> QED
        BY <3>1, <3>4, <4>4
    <3> QED
      BY <3>3, <3>4
  <2> QED
    BY <2>1, <2>2
<1>5. FdTableInv'
  BY <1>4 DEF FdTableInv, ObjOf
<1> QED
  BY <1>3, <1>5 DEF FdInv, ClosingInv

\* A single thread calls only when its last mm_close() is over.
LEMMA NotClosing == ASSUME MayCall, FdThreads = 1 PROVE closing = -1
  BY DEF MayCall

\* New file objects in new descriptors.
LEMMA WrapStep ==
    ASSUME FdInv, closing = -1, closing' = -1, NEW objs, NEW infos, NEW new,
           WrapHandles(objs, infos),
           \/ new = <<LowestFd>> /\ Len(objs) = 1 /\ FreeFds # {}
           \/ /\ new = <<LowestFd, CHOOSE fd \in FreeFds \ {LowestFd} :
                                    \A g \in FreeFds \ {LowestFd} : fd <= g>>
              /\ Len(objs) = 2 /\ FreeFds # {} /\ FreeFds \ {LowestFd} # {},
           objs \in Seq(ObjRec), infos \in Seq(InfoRec), Len(infos) = Len(objs),
           \A i \in 1 .. Len(objs) : /\ objs[i].name \in DOMAIN files'
                                     /\ InfoFits(infos[i], objs[i], "binary"),
           DOMAIN files \subseteq DOMAIN files',
           \A n \in DOMAIN files' : files'[n] \in Seq(Char)
    PROVE  FdInv'
<1> DEFINE at(fd) == CHOOSE i \in 1 .. Len(objs) : new[i] = fd
           New == Range(new)
<1>1. /\ Len(opened) \in Nat /\ Len(objs) \in Nat /\ FreeFds \subseteq Fd
      /\ opened \in Seq(ObjRec)
  BY DEF FdInv, FdTypeOK, FreeFds
<1>2. LowestFd \in FreeFds
  BY <1>1, LowestOf DEF LowestFd
<1>3. New \subseteq FreeFds /\ DOMAIN new = 1 .. Len(objs)
  <2>1. CASE new = <<LowestFd>> /\ Len(objs) = 1
    BY <1>2, <2>1 DEF Range
  <2>2. CASE /\ new = <<LowestFd, CHOOSE fd \in FreeFds \ {LowestFd} :
                                    \A g \in FreeFds \ {LowestFd} : fd <= g>>
             /\ Len(objs) = 2 /\ FreeFds \ {LowestFd} # {}
    <3> DEFINE b == CHOOSE fd \in FreeFds \ {LowestFd} : \A g \in FreeFds \ {LowestFd} : fd <= g
    <3>1. b \in FreeFds \ {LowestFd}
      <4>1. FreeFds \ {LowestFd} \in SUBSET Fd
        BY <1>1
      <4> QED
        BY <2>2, <4>1, LowestOf
    <3>2. new = <<LowestFd, b>>
      BY <2>2
    <3> HIDE DEF b
    <3>3. Len(objs) = 2
      BY <2>2
    <3>4. DOMAIN new = {1, 2} /\ new[1] = LowestFd /\ new[2] = b
      BY <3>2
    <3>5. 1 .. Len(objs) = {1, 2}
      BY <3>3
    <3> QED
      BY <1>2, <3>1, <3>4, <3>5 DEF Range
  <2> QED
    BY <2>1, <2>2
<1>4. ASSUME NEW fd \in New PROVE at(fd) \in 1 .. Len(objs) /\ new[at(fd)] = fd
  <2>1. \E i \in 1 .. Len(objs) : new[i] = fd
    BY <1>3 DEF Range
  <2> QED
    BY <2>1
<1>5. /\ opened' = opened \o objs
      /\ fdObj' = [fd \in Fd |-> IF fd \in New THEN Len(opened) + at(fd) ELSE fdObj[fd]]
      /\ fdMode' = [fd \in Fd |-> IF fd \in New THEN "binary" ELSE fdMode[fd]]
      /\ fdInfos' = [fd \in Fd |-> IF fd \in New THEN infos[at(fd)] ELSE fdInfos[fd]]
  <2>1. new = IF Len(objs) = 1 THEN <<LowestFd>>
              ELSE <<LowestFd, CHOOSE fd \in FreeFds \ {LowestFd} :
                                   \A g \in FreeFds \ {LowestFd} : fd <= g>>
    <3> DEFINE b == CHOOSE fd \in FreeFds \ {LowestFd} : \A g \in FreeFds \ {LowestFd} : fd <= g
    <3>1. \/ new = <<LowestFd>> /\ Len(objs) = 1
          \/ new = <<LowestFd, b>> /\ Len(objs) = 2
      BY Zenon
    <3> HIDE DEF b
    <3>2. new = IF Len(objs) = 1 THEN <<LowestFd>> ELSE <<LowestFd, b>>
      BY <3>1
    <3> QED
      BY <3>2 DEF b
  <2> QED
    BY <2>1 DEF WrapHandles
<1> HIDE DEF at, New
<1>6. New \in SUBSET Fd
  BY <1>1, <1>3
<1>7. /\ opened' \in Seq(ObjRec) /\ Len(opened') = Len(opened) + Len(objs)
      /\ \A i \in 1 .. Len(opened) : opened'[i] = opened[i]
      /\ \A i \in 1 .. Len(objs) : opened'[Len(opened) + i] = objs[i]
  BY <1>1, <1>5, ConcatProperties
<1>8. ASSUME NEW i \in 1 .. Len(opened') PROVE opened'[i].name \in DOMAIN files'
  <2>1. CASE i <= Len(opened)
    <3>1. i \in 1 .. Len(opened)
      BY <1>1, <2>1
    <3> QED
      BY <1>7, <3>1 DEF FdInv, FdTypeOK
  <2>2. CASE ~(i <= Len(opened))
    <3>1. i - Len(opened) \in 1 .. Len(objs) /\ Len(opened) + (i - Len(opened)) = i
      BY <1>1, <1>7, <2>2
    <3> DEFINE j == i - Len(opened)
    <3>2. j \in 1 .. Len(objs) /\ opened'[i] = objs[j]
      BY <1>7, <3>1
    <3> HIDE DEF j
    <3> QED
      BY <3>2
  <2> QED
    BY <2>1, <2>2
<1>9. /\ fdObj' \in [Fd -> Nat] /\ fdMode' \in [Fd -> {"binary", "text"}]
      /\ fdInfos' \in [Fd -> InfoRec]
  <2>1. \A fd \in New : Len(opened) + at(fd) \in Nat /\ infos[at(fd)] \in InfoRec
    BY <1>1, <1>4
  <2> QED
    BY <1>5, <2>1 DEF FdInv, FdTypeOK
<1>10. ASSUME NEW fd \in New
       PROVE  /\ fdObj'[fd] \in 1 .. Len(opened')
              /\ InfoFits(fdInfos'[fd], opened'[fdObj'[fd]], fdMode'[fd])
  <2>1. fdObj'[fd] = Len(opened) + at(fd) /\ fdMode'[fd] = "binary" /\ fdInfos'[fd] = infos[at(fd)]
    BY <1>5, <1>6
  <2>2. at(fd) \in 1 .. Len(objs)
    BY <1>4
  <2>3. fdObj'[fd] \in 1 .. Len(opened') /\ opened'[fdObj'[fd]] = objs[at(fd)]
    BY <1>1, <1>7, <2>1, <2>2
  <2> QED
    BY <2>1, <2>2, <2>3
<1>11. Len(opened) <= Len(opened')
  BY <1>1, <1>7
<1>12. \A fd \in Fd \ New : /\ fdObj'[fd] = fdObj[fd] /\ fdMode'[fd] = fdMode[fd]
                            /\ fdInfos'[fd] = fdInfos[fd]
  BY <1>5
<1> QED
  BY <1>6, <1>7, <1>8, <1>9, <1>10, <1>11, <1>12, TablesChange

\* A call that fails before it has changed a table, and may have created a file.
LEMMA TablesKept ==
    ASSUME FdInv, closing = -1, UNCHANGED <<opened, fdObj, fdMode, fdInfos, closing>>,
           DOMAIN files \subseteq DOMAIN files',
           \A n \in DOMAIN files' : files'[n] \in Seq(Char)
    PROVE  FdInv'
<1>1. FdTypeOK'
  BY DEF FdInv, FdTypeOK
<1>2. FdTableInv'
  BY DEF FdInv, FdTableInv, ObjOf
<1> QED
  BY <1>1, <1>2 DEF FdInv, ClosingInv

LEMMA OpenStep ==
    ASSUME FdInv, FdThreads = 1, NEW name \in FileNames, NEW oflag, mm_open(name, oflag)
    PROVE  FdInv'
<1> DEFINE access == set_access_mode(oflag)
           d == set_creation_mode(oflag)
           append == "APPEND" \in oflag
           obj == Object("file", name, access, append)
           info == FdInfo("normal", IF append THEN {"APPEND"} ELSE {})
<1>1. closing = -1 /\ closing' = -1 /\ UNCHANGED closing
  BY NotClosing DEF mm_open
<1>2. CASE Unopened /\ UNCHANGED files
  BY <1>1, <1>2, TablesKept DEF Unopened, FdInv, FdTypeOK
<1>3. CASE ~(Unopened /\ UNCHANGED files)
  <2>1. files' \in CreateFile(name, access, d)
    BY <1>3 DEF mm_open
  <2>2. /\ d \in {"OPEN_EXISTING", "TRUNCATE_EXISTING", "CREATE_NEW", "OPEN_ALWAYS",
                  "CREATE_ALWAYS"}
    BY Dispositions
  <2> HIDE DEF d, access
  <2>3. /\ DOMAIN files' = DOMAIN files \cup {name}
        /\ \A n \in DOMAIN files' : files'[n] \in Seq(Char)
    BY <2>1, <2>2, CreatedFiles DEF FdInv, Created
  <2>4. CASE Unopened
    BY <1>1, <2>3, <2>4, TablesKept DEF Unopened
  <2>5. CASE ~Unopened
    <3>1. FreeFds # {} /\ WrapHandles(<<obj>>, <<info>>)
      BY <1>3, <2>5 DEF mm_open, access
    <3>2. access \in SUBSET {"read", "write"}
      BY DEF access, set_access_mode
    <3>3. obj \in ObjRec /\ obj.name = name /\ info \in InfoRec /\ obj.kind = "file"
      <4>1. append \in BOOLEAN
        OBVIOUS
      <4> HIDE DEF append
      <4> QED
        BY <3>2, <4>1 DEF Object, ObjRec, Kinds, FdInfo, InfoRec
    <3>4. InfoFits(info, obj, "binary")
      <4>1. obj.append = append /\ info.type = "normal" /\ append \in BOOLEAN
        BY DEF Object, FdInfo
      <4>2. ("APPEND" \in info.flags) <=> append
        BY DEF FdInfo
      <4>3. "TEXT" \notin info.flags
        BY DEF FdInfo
      <4>4. ("APPEND" \in info.flags) = obj.append
        <5>1. ("APPEND" \in info.flags) = append
          BY <4>2
        <5> HIDE DEF info, obj, append
        <5> QED
          BY <4>1, <5>1, Zenon
      <4>5. ("TEXT" \in info.flags) = ("binary" = "text")
        BY <4>3
      <4> HIDE DEF info, obj, append
      <4> QED
        BY <3>3, <4>1, <4>4, <4>5 DEF InfoFits
    <3> HIDE DEF info, obj
    <3> DEFINE objs == <<obj>>
               infos == <<info>>
               new == <<LowestFd>>
    <3>5. /\ objs \in Seq(ObjRec) /\ infos \in Seq(InfoRec) /\ Len(objs) = 1 /\ Len(infos) = 1
          /\ objs[1] = obj /\ infos[1] = info
      BY <3>3
    <3>6. \A i \in 1 .. Len(objs) : /\ objs[i].name \in DOMAIN files'
                                    /\ InfoFits(infos[i], objs[i], "binary")
      <4>1. 1 .. Len(objs) = {1}
        BY <3>5
      <4> QED
        BY <2>3, <3>3, <3>4, <3>5, <4>1
    <3>7. new = <<LowestFd>> /\ WrapHandles(objs, infos)
      BY <3>1
    <3>8. DOMAIN files \subseteq DOMAIN files'
      BY <2>3
    <3> HIDE DEF objs, infos, new
    <3> QED
      BY <1>1, <2>3, <3>1, <3>5, <3>6, <3>7, <3>8, WrapStep
  <2> QED
    BY <2>4, <2>5
<1> QED
  BY <1>2, <1>3

LEMMA PipeStep ==
    ASSUME FdInv, FdThreads = 1, ~PipeExhausts, mm_pipe
    PROVE  FdInv'
<1> DEFINE info == FdInfo("pipe", {})
           rd == Object("pipe", "pipe", {"read"}, FALSE)
           wr == Object("pipe", "pipe", {"write"}, FALSE)
<1>1. closing = -1 /\ closing' = -1 /\ UNCHANGED closing
  BY NotClosing DEF mm_pipe
<1>2. IsFiniteSet(FreeFds) /\ Cardinality(FreeFds) \in Nat /\ FreeFds \subseteq Fd
  <2>1. IsFiniteSet(Fd)
    BY FdAssumption, FS_Interval DEF Fd
  <2>2. FreeFds \subseteq Fd
    BY DEF FreeFds
  <2> QED
    BY <2>1, <2>2, FS_Subset, FS_CardinalityType
<1>3. Cardinality(FreeFds) # 1
  BY DEF mm_pipe
<1>4. CASE Cardinality(FreeFds) < 2
  <2>1. FreeFds = {}
    BY <1>2, <1>3, <1>4, FS_EmptySet
  <2>2. /\ fdInfos' = [fd \in Fd |-> IF fd \in FreeFds THEN info ELSE fdInfos[fd]]
        /\ UNCHANGED <<files, opened, fdObj, fdMode>>
    BY <1>4 DEF mm_pipe
  <2>3. fdInfos' = fdInfos
    BY <2>1, <2>2 DEF FdInv, FdTypeOK
  <2> QED
    BY <1>1, <2>2, <2>3, TablesKept DEF FdInv, FdTypeOK
<1>5. CASE ~(Cardinality(FreeFds) < 2)
  <2>1. /\ files' = [n \in DOMAIN files \cup {"pipe"} |-> IF n = "pipe" THEN <<>> ELSE files[n]]
        /\ WrapHandles(<<rd, wr>>, <<info, info>>)
    BY <1>5 DEF mm_pipe
  <2>2. FreeFds # {}
    BY <1>2, <1>5, FS_EmptySet
  <2>3. FreeFds \ {LowestFd} # {}
    <3>1. LowestFd \in FreeFds
      BY <1>2, <2>2, LowestOf DEF LowestFd
    <3>2. Cardinality(FreeFds \ {LowestFd}) = Cardinality(FreeFds) - 1
      BY <1>2, <3>1, FS_RemoveElement
    <3>3. Cardinality(FreeFds \ {LowestFd}) # 0
      BY <1>2, <1>5, <3>2
    <3> QED
      BY <3>3, FS_EmptySet
  <2>4. /\ rd \in ObjRec /\ wr \in ObjRec /\ info \in InfoRec
        /\ rd.name = "pipe" /\ wr.name = "pipe"
    BY DEF Object, ObjRec, Kinds, FdInfo, InfoRec
  <2>5. InfoFits(info, rd, "binary") /\ InfoFits(info, wr, "binary")
    <3>1. /\ rd.kind = "pipe" /\ wr.kind = "pipe" /\ rd.append = FALSE /\ wr.append = FALSE
          /\ info.type = "pipe" /\ "APPEND" \notin info.flags /\ "TEXT" \notin info.flags
      BY DEF Object, FdInfo
    <3>2. ("APPEND" \in info.flags) = FALSE
      BY <3>1
    <3> HIDE DEF rd, wr, info
    <3>3. (("APPEND" \in info.flags) = rd.append) /\ (("APPEND" \in info.flags) = wr.append)
      BY <3>1, <3>2, Zenon
    <3>4. ~rd.append /\ ~wr.append
      BY <3>1
    <3> QED
      BY <3>1, <3>3, <3>4 DEF InfoFits
  <2>6. /\ DOMAIN files \subseteq DOMAIN files' /\ "pipe" \in DOMAIN files'
        /\ \A n \in DOMAIN files' : files'[n] \in Seq(Char)
    <3>1. <<>> \in Seq(Char)
      OBVIOUS
    <3> QED
      BY <2>1, <3>1 DEF FdInv, FdTypeOK
  <2> HIDE DEF rd, wr, info
  <2> DEFINE objs == <<rd, wr>>
             infos == <<info, info>>
             new == <<LowestFd, CHOOSE fd \in FreeFds \ {LowestFd} :
                                    \A g \in FreeFds \ {LowestFd} : fd <= g>>
  <2>7. /\ objs \in Seq(ObjRec) /\ infos \in Seq(InfoRec) /\ Len(objs) = 2 /\ Len(infos) = 2
        /\ objs[1] = rd /\ objs[2] = wr /\ infos[1] = info /\ infos[2] = info
    BY <2>4
  <2>8. \A i \in 1 .. Len(objs) : /\ objs[i].name \in DOMAIN files'
                                  /\ InfoFits(infos[i], objs[i], "binary")
    <3>1. 1 .. Len(objs) = {1, 2}
      BY <2>7
    <3> QED
      BY <2>4, <2>5, <2>6, <2>7, <3>1
  <2>9. /\ new = <<LowestFd, CHOOSE fd \in FreeFds \ {LowestFd} :
                                    \A g \in FreeFds \ {LowestFd} : fd <= g>>
        /\ WrapHandles(objs, infos)
    BY <2>1
  <2> HIDE DEF objs, infos, new
  <2> QED
    BY <1>1, <2>2, <2>3, <2>6, <2>7, <2>8, <2>9, WrapStep
<1> QED
  BY <1>4, <1>5

LEMMA CrtOpenStep ==
    ASSUME FdInv, FdThreads = 1, NEW name \in FileNames, NEW mode \in {"binary", "text"},
           CrtOpen(name, mode)
    PROVE  FdInv'
<1> DEFINE obj == Object("file", name, {"read", "write"}, FALSE)
<1>1. /\ closing = -1 /\ closing' = -1 /\ FreeFds # {} /\ name \in DOMAIN files
      /\ opened' = Append(opened, obj)
      /\ fdObj' = [fdObj EXCEPT ![LowestFd] = Len(opened) + 1]
      /\ fdMode' = [fdMode EXCEPT ![LowestFd] = mode]
      /\ files' = files /\ fdInfos' = fdInfos
  <2>1. (mode = "append") = FALSE /\ (IF mode = "text" THEN "text" ELSE "binary") = mode
    OBVIOUS
  <2> QED
    BY <2>1, NotClosing, Zenon DEF CrtOpen
<1>2. LowestFd \in FreeFds
  BY <1>1, LowestOf DEF LowestFd, FreeFds
<1>3. /\ opened \in Seq(ObjRec) /\ fdObj \in [Fd -> Nat] /\ fdInfos \in [Fd -> InfoRec]
      /\ fdMode \in [Fd -> {"binary", "text"}] /\ Len(opened) \in Nat
      /\ \A i \in 1 .. Len(opened) : opened[i].name \in DOMAIN files
      /\ \A n \in DOMAIN files : files[n] \in Seq(Char)
  BY DEF FdInv, FdTypeOK
<1>4. /\ LowestFd \in Fd /\ LowestFd # -1 /\ fdObj[LowestFd] = 0
      /\ fdInfos[LowestFd] = FD_TYPE_UNKNOWN
  <2>1. LowestFd \in Fd /\ fdObj[LowestFd] = 0
    BY <1>2 DEF FreeFds
  <2>2. LowestFd # -1
    BY <2>1, FdAssumption DEF Fd
  <2> QED
    BY <1>1, <2>1, <2>2 DEF FdInv, FdTableInv
<1>5. obj \in ObjRec /\ obj.append = FALSE /\ obj.name = name
  BY DEF Object, ObjRec, Kinds
<1> HIDE DEF obj
<1>6. /\ opened' \in Seq(ObjRec) /\ Len(opened') = Len(opened) + 1
      /\ \A i \in 1 .. Len(opened) : opened'[i] = opened[i]
      /\ opened'[Len(opened) + 1] = obj
  BY <1>1, <1>3, <1>5, AppendProperties
<1>7. \A i \in 1 .. Len(opened') : opened'[i].name \in DOMAIN files'
  <2> SUFFICES ASSUME NEW i \in 1 .. Len(opened') PROVE opened'[i].name \in DOMAIN files'
    OBVIOUS
  <2>1. i \in 1 .. Len(opened) \/ i = Len(opened) + 1
    BY <1>3, <1>6
  <2> QED
    BY <1>1, <1>3, <1>5, <1>6, <2>1
<1>8. InfoFits(fdInfos'[LowestFd], obj, mode)
  BY <1>1, <1>4, <1>5 DEF InfoFits
<1> DEFINE New == {LowestFd}
<1>9. /\ fdObj' \in [Fd -> Nat] /\ fdMode' \in [Fd -> {"binary", "text"}]
      /\ fdInfos' \in [Fd -> InfoRec] /\ New \in SUBSET Fd
      /\ \A n \in DOMAIN files' : files'[n] \in Seq(Char)
  BY <1>1, <1>3, <1>4
<1>10. \A fd \in Fd \ New : /\ fdObj'[fd] = fdObj[fd] /\ fdMode'[fd] = fdMode[fd]
                            /\ fdInfos'[fd] = fdInfos[fd]
  BY <1>1, <1>3
<1>11. \A fd \in New : /\ fdObj'[fd] \in 1 .. Len(opened')
                       /\ InfoFits(fdInfos'[fd], opened'[fdObj'[fd]], fdMode'[fd])
  <2>1. fdObj'[LowestFd] = Len(opened) + 1 /\ fdMode'[LowestFd] = mode
    BY <1>1, <1>3, <1>4
  <2>2. fdObj'[LowestFd] \in 1 .. Len(opened')
    BY <1>3, <1>6, <2>1
  <2> QED
    BY <1>6, <1>8, <2>1, <2>2
<1>12. Len(opened) <= Len(opened')
  BY <1>3, <1>6
<1> HIDE DEF New
<1> QED
  BY <1>1, <1>6, <1>7, <1>9, <1>10, <1>11, <1>12, TablesChange

\* The number to becomes a duplicate of the number fd.
LEMMA Duplicated ==
    ASSUME FdInv, closing = -1, UNCHANGED <<files, opened, closing>>,
           NEW fd \in Fd, fdObj[fd] # 0, NEW to,
           fdObj' = [fdObj EXCEPT ![to] = fdObj[fd]],
           fdMode' = [fdMode EXCEPT ![to] = fdMode[fd]],
           fdInfos' = [fdInfos EXCEPT ![to] = fdInfos[fd]]
    PROVE  FdInv'
<1> DEFINE New == {to} \cap Fd
<1>1. /\ opened \in Seq(ObjRec) /\ fdObj \in [Fd -> Nat] /\ fdInfos \in [Fd -> InfoRec]
      /\ fdMode \in [Fd -> {"binary", "text"}] /\ Len(opened) \in Nat
      /\ \A i \in 1 .. Len(opened) : opened[i].name \in DOMAIN files
      /\ \A n \in DOMAIN files : files[n] \in Seq(Char)
      /\ fdObj[fd] <= Len(opened)
  BY DEF FdInv, FdTypeOK
<1>2. fdObj[fd] \in 1 .. Len(opened) /\ InfoFits(fdInfos[fd], opened[fdObj[fd]], fdMode[fd])
  <2>1. closing # fd
    BY FdAssumption DEF Fd
  <2> QED
    BY <1>1, <2>1 DEF FdInv, FdTableInv, ObjOf
<1>3. /\ fdObj' \in [Fd -> Nat] /\ fdMode' \in [Fd -> {"binary", "text"}]
      /\ fdInfos' \in [Fd -> InfoRec] /\ New \in SUBSET Fd
  BY <1>1
<1>4. \A g \in Fd \ New : /\ fdObj'[g] = fdObj[g] /\ fdMode'[g] = fdMode[g]
                          /\ fdInfos'[g] = fdInfos[g]
  BY <1>1
<1>5. \A g \in New : /\ fdObj'[g] \in 1 .. Len(opened')
                     /\ InfoFits(fdInfos'[g], opened'[fdObj'[g]], fdMode'[g])
  <2> SUFFICES ASSUME NEW g \in New
               PROVE  /\ fdObj'[g] \in 1 .. Len(opened')
                      /\ InfoFits(fdInfos'[g], opened'[fdObj'[g]], fdMode'[g])
    OBVIOUS
  <2>1. fdObj'[g] = fdObj[fd] /\ fdMode'[g] = fdMode[fd] /\ fdInfos'[g] = fdInfos[fd]
    BY <1>1
  <2> QED
    BY <1>2, <2>1
<1>6. /\ \A i \in 1 .. Len(opened') : opened'[i].name \in DOMAIN files'
      /\ \A n \in DOMAIN files' : files'[n] \in Seq(Char)
      /\ opened' \in Seq(ObjRec) /\ Len(opened) <= Len(opened') /\ closing' = -1
  BY <1>1
<1> HIDE DEF New
<1> QED
  BY <1>3, <1>4, <1>5, <1>6, TablesChange

LEMMA DupSteps ==
    ASSUME FdInv, FdThreads = 1, NEW fd \in Fd, mm_dup(fd) \/ mm_dup2(fd, 1)
    PROVE  FdInv'
<1>1. CASE mm_dup2(fd, 1)
  BY <1>1, NotClosing, Duplicated DEF mm_dup2
<1>2. CASE mm_dup(fd)
  <2>1. closing = -1 /\ UNCHANGED <<files, closing>> /\ fdObj[fd] # 0
    BY <1>2, NotClosing DEF mm_dup
  <2>2. CASE FreeFds = {}
    BY <1>2, <2>1, <2>2, TablesKept DEF mm_dup, Unopened, FdInv, FdTypeOK
  <2>3. CASE FreeFds # {}
    BY <1>2, <2>1, <2>3, Duplicated DEF mm_dup
  <2> QED
    BY <2>2, <2>3
<1> QED
  BY <1>1, <1>2

LEMMA CloseSteps ==
    ASSUME FdInv, FdThreads = 1, (\E fd \in Fd : mm_close(fd)) \/ ForgetInfo
    PROVE  FdInv'
<1>0. /\ fdObj \in [Fd -> Nat] /\ fdInfos \in [Fd -> InfoRec] /\ closing \in Fd \cup {-1}
  BY DEF FdInv, FdTypeOK
<1>1. ASSUME NEW fd \in Fd, mm_close(fd) PROVE FdInv'
  <2>1. /\ closing = -1 /\ fdObj' = [fdObj EXCEPT ![fd] = 0] /\ closing' = fd
        /\ UNCHANGED <<files, opened, fdMode, fdInfos>> /\ fdCall'.op = "close"
    BY <1>1 DEF mm_close, Called
  <2>2. \A g \in Fd : fdObj'[g] = IF g = fd THEN 0 ELSE fdObj[g]
    BY <1>0, <2>1
  <2>3. FdTypeOK'
    <3>1. Len(opened) \in Nat
      BY DEF FdInv, FdTypeOK
    <3>2. fdObj' \in [Fd -> Nat]
      BY <1>0, <2>1
    <3>3. \A g \in Fd : fdObj'[g] <= Len(opened)
      BY <2>2, <3>1 DEF FdInv, FdTypeOK
    <3> QED
      BY <2>1, <3>2, <3>3 DEF FdInv, FdTypeOK
  <2>4. FdTableInv'
    <3>1. \A g \in Fd : g # -1
      BY FdAssumption DEF Fd
    <3> QED
      BY <2>1, <2>2, <3>1 DEF FdInv, FdTableInv, ObjOf
  <2> QED
    BY <2>1, <2>2, <2>3, <2>4 DEF FdInv, ClosingInv
<1>2. ASSUME ForgetInfo PROVE FdInv'
  <2>1. /\ closing \in Fd /\ fdInfos' = [fdInfos EXCEPT ![closing] = FD_TYPE_UNKNOWN]
        /\ closing' = -1 /\ UNCHANGED <<files, opened, fdObj, fdMode, fdCall>>
    BY <1>0, <1>2 DEF ForgetInfo
  <2>2. FD_TYPE_UNKNOWN \in InfoRec
    BY DEF FD_TYPE_UNKNOWN, FdInfo, InfoRec
  <2>3. \A g \in Fd : fdInfos'[g] = IF g = closing THEN FD_TYPE_UNKNOWN ELSE fdInfos[g]
    BY <1>0, <2>1
  <2>4. FdTypeOK'
    <3>1. fdInfos' \in [Fd -> InfoRec]
      BY <1>0, <2>1, <2>2
    <3> QED
      BY <2>1, <3>1 DEF FdInv, FdTypeOK
  <2>5. fdObj[closing] = 0
    BY <1>2 DEF FdInv, ClosingInv, ForgetInfo
  <2>6. FdTableInv'
    BY <2>1, <2>3, <2>5 DEF FdInv, FdTableInv, ObjOf
  <2> QED
    BY <2>1, <2>4, <2>6 DEF FdInv, ClosingInv
<1> QED
  BY <1>1, <1>2

\* A call that looks a descriptor up and moves the position of its object.
LEMMA LooksUp ==
    ASSUME FdInv, closing = -1, UNCHANGED <<fdObj, fdMode, closing>>,
           NEW fd \in Fd, fdObj[fd] # 0, fdInfos' = Remembered(fd),
           \/ opened' = opened
           \/ \E pos \in Nat : opened' = [opened EXCEPT ![fdObj[fd]].pos = pos],
           DOMAIN files' = DOMAIN files, \A n \in DOMAIN files : files'[n] \in Seq(Char)
    PROVE  FdInv'
<1>1. /\ opened \in Seq(ObjRec) /\ fdObj \in [Fd -> Nat] /\ fdInfos \in [Fd -> InfoRec]
      /\ fdMode \in [Fd -> {"binary", "text"}] /\ Len(opened) \in Nat
      /\ \A i \in 1 .. Len(opened) : opened[i].name \in DOMAIN files
      /\ fdObj[fd] <= Len(opened)
  BY DEF FdInv, FdTypeOK
<1>2. fdObj[fd] \in 1 .. Len(opened) /\ InfoFits(fdInfos[fd], ObjOf(fd), fdMode[fd])
  <2>1. closing # fd
    BY FdAssumption DEF Fd
  <2> QED
    BY <1>1, <2>1 DEF FdInv, FdTableInv
<1>3. /\ get_fd_info_checked(fd) \in InfoRec
      /\ InfoFits(get_fd_info_checked(fd), ObjOf(fd), fdMode[fd])
  BY <1>2, LookedUp DEF FdInv
<1>4. /\ fdInfos' \in [Fd -> InfoRec] /\ fdInfos'[fd] = get_fd_info_checked(fd)
      /\ \A g \in Fd \ {fd} : fdInfos'[g] = fdInfos[g]
  BY <1>1, <1>3 DEF Remembered
<1> DEFINE Same == /\ opened' \in Seq(ObjRec) /\ Len(opened') = Len(opened)
                   /\ \A i \in 1 .. Len(opened) : /\ opened'[i].kind = opened[i].kind
                                                   /\ opened'[i].append = opened[i].append
                                                   /\ opened'[i].name = opened[i].name
<1>5. Same
  <2>1. CASE opened' = opened
    BY <1>1, <2>1
  <2>2. ASSUME NEW pos \in Nat, opened' = [opened EXCEPT ![fdObj[fd]].pos = pos]
        PROVE  Same
    <3> DEFINE k == fdObj[fd]
    <3>1. DOMAIN opened = 1 .. Len(opened) /\ \A i \in 1 .. Len(opened) : opened[i] \in ObjRec
      BY <1>1
    <3>2. /\ DOMAIN opened' = 1 .. Len(opened)
          /\ opened' = [i \in 1 .. Len(opened) |->
                            IF i = k THEN [opened[k] EXCEPT !.pos = pos] ELSE opened[i]]
      BY <1>2, <2>2, <3>1
    <3>3. /\ [opened[k] EXCEPT !.pos = pos] \in ObjRec
          /\ [opened[k] EXCEPT !.pos = pos].kind = opened[k].kind
          /\ [opened[k] EXCEPT !.pos = pos].append = opened[k].append
          /\ [opened[k] EXCEPT !.pos = pos].name = opened[k].name
      <4>1. opened[k] \in ObjRec
        BY <1>2, <3>1
      <4> QED
        BY <4>1 DEF ObjRec
    <3>4. \A i \in 1 .. Len(opened) : opened'[i] = IF i = k THEN [opened[k] EXCEPT !.pos = pos]
                                                   ELSE opened[i]
      BY <3>2
    <3>5. \A i \in 1 .. Len(opened) : opened'[i] \in ObjRec
      BY <3>1, <3>3, <3>4
    <3> DEFINE e(i) == opened'[i]
    <3>6. opened' = [i \in 1 .. Len(opened) |-> e(i)] /\ \A i \in 1 .. Len(opened) : e(i) \in ObjRec
      BY <3>2, <3>5
    <3>7. opened' \in Seq(ObjRec) /\ Len(opened') = Len(opened)
      <4> HIDE DEF e
      <4> QED
        BY <1>1, <3>6
    <3> QED
      BY <3>3, <3>4, <3>7
  <2> QED
    BY <2>1, <2>2
<1>6. InfoFits(fdInfos'[fd], opened'[fdObj'[fd]], fdMode'[fd])
  <2>1. opened'[fdObj[fd]].kind = ObjOf(fd).kind /\ opened'[fdObj[fd]].append = ObjOf(fd).append
    BY <1>2, <1>5 DEF ObjOf
  <2> QED
    BY <1>3, <1>4, <2>1 DEF InfoFits
<1>7. \A g \in {fd} : /\ fdObj'[g] \in 1 .. Len(opened')
                      /\ InfoFits(fdInfos'[g], opened'[fdObj'[g]], fdMode'[g])
  BY <1>2, <1>5, <1>6
<1>8. \A i \in 1 .. Len(opened') : opened'[i].name \in DOMAIN files'
  BY <1>1, <1>5
<1>9. /\ \A n \in DOMAIN files' : files'[n] \in Seq(Char)
      /\ Len(opened) <= Len(opened') /\ closing' = -1 /\ {fd} \in SUBSET Fd
      /\ fdObj' \in [Fd -> Nat] /\ fdMode' \in [Fd -> {"binary", "text"}]
      /\ \A g \in Fd \ {fd} : /\ fdObj'[g] = fdObj[g] /\ fdMode'[g] = fdMode[g]
                             /\ fdInfos'[g] = fdInfos[g]
  BY <1>1, <1>4, <1>5
<1> QED
  BY <1>4, <1>5, <1>7, <1>8, <1>9, TablesChange

\* What is in a file after a write.
LEMMA OverwriteType ==
    ASSUME NEW content \in Seq(Char), NEW pos \in Nat, NEW data \in Seq(Char)
    PROVE  /\ Overwrite(content, pos, data) \in Seq(Char)
           /\ pos = Len(content) => IsPrefix(content, Overwrite(content, pos, data))
<1> DEFINE n == IF pos + Len(data) > Len(content) THEN pos + Len(data) ELSE Len(content)
           put == pos + 1 .. pos + Len(data)
           val(i) == CASE i \in put -> data[i - pos]
                       [] i <= Len(content) /\ i \notin put -> content[i]
                       [] OTHER -> "0"
<1>1. n \in Nat /\ Len(content) <= n /\ Len(content) \in Nat /\ Len(data) \in Nat
  OBVIOUS
<1>2. ASSUME NEW i \in 1 .. n
      PROVE  /\ val(i) \in Char
             /\ i <= Len(content) /\ i \notin put => val(i) = content[i]
  <2>1. CASE i \in put
    <3>1. i - pos \in 1 .. Len(data)
      BY <1>1, <2>1
    <3>2. data[i - pos] \in Char
      BY <3>1
    <3>3. val(i) = data[i - pos]
      BY <2>1
    <3> QED
      BY <2>1, <3>2, <3>3
  <2>2. CASE i \notin put /\ i <= Len(content)
    <3>1. i \in 1 .. Len(content)
      BY <1>1, <2>2
    <3>2. content[i] \in Char
      BY <3>1
    <3>3. val(i) = content[i]
      BY <2>2
    <3> QED
      BY <3>2, <3>3
  <2>3. CASE i \notin put /\ ~(i <= Len(content))
    <3>1. val(i) = "0" /\ "0" \in Char
      BY <2>3 DEF Char
    <3> QED
      BY <2>3, <3>1
  <2> QED
    BY <2>1, <2>2, <2>3
<1>3. Overwrite(content, pos, data) = [i \in 1 .. n |-> val(i)]
  BY DEF Overwrite
<1> DEFINE w == Overwrite(content, pos, data)
<1>4. w \in Seq(Char) /\ Len(w) = n /\ \A i \in 1 .. n : w[i] = val(i)
  <2> HIDE DEF n, val
  <2>1. \A i \in 1 .. n : val(i) \in Char
    BY <1>2
  <2> QED
    BY <1>1, <1>3, <2>1
<1>5. ASSUME pos = Len(content) PROVE IsPrefix(content, w)
  <2>1. \A i \in 1 .. Len(content) : i \in 1 .. n /\ i \notin put
    BY <1>1, <1>5
  <2> HIDE DEF w, val, put, n
  <2>2. \A i \in 1 .. Len(content) : w[i] = content[i]
    BY <1>1, <1>2, <1>4, <2>1
  <2>3. Len(content) <= Len(w)
    BY <1>1, <1>4
  <2>4. SubSeq(content, 1, Len(content)) = SubSeq(w, 1, Len(content))
    BY <1>1, <1>4, <2>2, <2>3
  <2> QED
    BY <2>3, <2>4 DEF IsPrefix
<1> QED
  BY <1>4, <1>5

\* The object behind an open descriptor, and its contents.
LEMMA FdBehind ==
    ASSUME FdInv, NEW fd \in Fd, fdObj[fd] # 0
    PROVE  /\ fdObj[fd] \in 1 .. Len(opened) /\ ObjOf(fd) \in ObjRec /\ ObjOf(fd).pos \in Nat
           /\ ObjOf(fd).name \in DOMAIN files /\ files[ObjOf(fd).name] \in Seq(Char)
<1>1. fdObj[fd] \in 1 .. Len(opened)
  BY DEF FdInv, FdTypeOK
<1>2. ObjOf(fd) \in ObjRec /\ ObjOf(fd).name \in DOMAIN files
  BY <1>1 DEF FdInv, FdTypeOK, ObjOf
<1> QED
  BY <1>1, <1>2 DEF FdInv, FdTypeOK, ObjRec

\* What mm_write() does, when it is not refused.
LEMMA WriteEffect ==
    ASSUME FdInv, FdThreads = 1, NEW fd \in Fd, NEW buf \in Buffers, mm_write(fd, buf)
    PROVE  /\ closing = -1 /\ closing' = -1 /\ fdObj[fd] # 0
           /\ UNCHANGED <<fdObj, fdMode>> /\ fdInfos' = Remembered(fd)
           /\ \/ UNCHANGED <<files, opened>>
              \/ \E pos \in Nat, data \in Seq(Char) :
                    /\ files' = [files EXCEPT ![ObjOf(fd).name] =
                                    Overwrite(files[ObjOf(fd).name], pos, data)]
                    /\ opened' = [opened EXCEPT ![fdObj[fd]].pos = pos + Len(data)]
                    /\ "APPEND" \in get_fd_info_checked(fd).flags =>
                            pos = Len(files[ObjOf(fd).name])
<1> DEFINE info == get_fd_info_checked(fd)
           old == files[ObjOf(fd).name]
           data == hnd_write(info, buf)
           pos == IF "APPEND" \in info.flags \/ ObjOf(fd).kind = "pipe" THEN Len(old)
                  ELSE ObjOf(fd).pos
<1>1. /\ closing = -1 /\ closing' = -1 /\ fdObj[fd] # 0
      /\ UNCHANGED <<fdObj, fdMode>> /\ fdInfos' = Remembered(fd)
  BY NotClosing DEF mm_write
<1>2. old \in Seq(Char) /\ ObjOf(fd).pos \in Nat
  BY <1>1, FdBehind
<1>3. pos \in Nat
  BY <1>2
<1>4. data \in Seq(Char)
  <2>1. buf \in Seq(Char)
    <3>1. buf \in Seq(Range(buf)) /\ Range(buf) \subseteq Char
      BY FdAssumption DEF Char
    <3> QED
      BY <3>1
  <2> QED
    BY <2>1, ExpandedType DEF hnd_write
<1>5. CASE "APPEND" \in info.flags /\ pos = 0
  BY <1>1, <1>5 DEF mm_write
<1>6. CASE ~("APPEND" \in info.flags /\ pos = 0)
  <2>1. /\ files' = [files EXCEPT ![ObjOf(fd).name] = Overwrite(old, pos, data)]
        /\ opened' = [opened EXCEPT ![fdObj[fd]].pos = pos + Len(data)]
    BY <1>6 DEF mm_write
  <2>2. "APPEND" \in info.flags => pos = Len(old)
    OBVIOUS
  <2> HIDE DEF pos, data
  <2> QED
    BY <1>1, <1>3, <1>4, <2>1, <2>2
<1> QED
  BY <1>5, <1>6

LEMMA FdWriteStep ==
    ASSUME FdInv, FdThreads = 1, NEW fd \in Fd, NEW buf \in Buffers, mm_write(fd, buf)
    PROVE  FdInv'
<1>1. /\ closing = -1 /\ closing' = -1 /\ fdObj[fd] # 0
      /\ UNCHANGED <<fdObj, fdMode>> /\ fdInfos' = Remembered(fd)
  BY WriteEffect
<1>2. CASE UNCHANGED <<files, opened>>
  BY <1>1, <1>2, LooksUp DEF FdInv, FdTypeOK
<1>3. ASSUME NEW pos \in Nat, NEW data \in Seq(Char),
             files' = [files EXCEPT ![ObjOf(fd).name] =
                            Overwrite(files[ObjOf(fd).name], pos, data)],
             opened' = [opened EXCEPT ![fdObj[fd]].pos = pos + Len(data)]
      PROVE  FdInv'
  <2>1. files[ObjOf(fd).name] \in Seq(Char) /\ ObjOf(fd).name \in DOMAIN files
    BY <1>1, FdBehind
  <2> DEFINE w == Overwrite(files[ObjOf(fd).name], pos, data)
  <2>2. w \in Seq(Char)
    BY <2>1, OverwriteType
  <2>3. files' = [files EXCEPT ![ObjOf(fd).name] = w]
    BY <1>3
  <2> HIDE DEF w
  <2>4. DOMAIN files' = DOMAIN files /\ \A n \in DOMAIN files : files'[n] \in Seq(Char)
    BY <2>2, <2>3 DEF FdInv, FdTypeOK
  <2>5. pos + Len(data) \in Nat
    OBVIOUS
  <2>6. \E p \in Nat : opened' = [opened EXCEPT ![fdObj[fd]].pos = p]
    BY <1>3, <2>5
  <2> QED
    BY <1>1, <2>4, <2>6, LooksUp
<1> QED
  BY <1>2, <1>3, WriteEffect

\* What mm_read() takes from a file.
LEMMA ReadIsPart ==
    ASSUME FdInv, NEW fd \in Fd, fdObj[fd] # 0, NEW nbyte \in Nat,
           NEW pos, pos = IF ObjOf(fd).kind = "pipe" THEN 0 ELSE ObjOf(fd).pos
    PROVE  hnd_read_binary(files[ObjOf(fd).name], pos, nbyte) \in Seq(Char)
<1> DEFINE content == files[ObjOf(fd).name]
           last == IF pos + nbyte < Len(content) THEN pos + nbyte ELSE Len(content)
<1>1. content \in Seq(Char) /\ pos \in Nat
  BY FdBehind
<1>2. last \in Int /\ pos + 1 \in Int /\ \A i \in pos + 1 .. last : i \in 1 .. Len(content)
  BY <1>1
<1>3. hnd_read_binary(content, pos, nbyte) = SubSeq(content, pos + 1, last)
  BY DEF hnd_read_binary
<1> HIDE DEF content
<1>4. \A i \in pos + 1 .. last : content[i] \in Char
  BY <1>1, <1>2
<1> HIDE DEF last
<1>5. SubSeq(content, pos + 1, last) \in Seq(Char)
  BY <1>2, <1>4, SubSeqProperties
<1> QED
  BY <1>3, <1>5 DEF content

LEMMA FdReadStep ==
    ASSUME FdInv, FdThreads = 1, NEW fd \in Fd, NEW nbyte \in Nat, mm_read(fd, nbyte)
    PROVE  FdInv'
<1> DEFINE obj == ObjOf(fd)
           content == files[obj.name]
           pos == IF obj.kind = "pipe" THEN 0 ELSE obj.pos
           raw == hnd_read_binary(content, pos, nbyte)
<1>1. /\ closing = -1 /\ closing' = -1 /\ fdObj[fd] # 0
      /\ UNCHANGED <<fdObj, fdMode, closing>> /\ fdInfos' = Remembered(fd)
  BY NotClosing DEF mm_read
<1>2. content \in Seq(Char) /\ obj.pos \in Nat /\ obj.name \in DOMAIN files
  BY <1>1, FdBehind
<1>3. pos \in Nat
  BY <1>2
<1>4. /\ files' = IF obj.kind = "pipe"
                  THEN [files EXCEPT !["pipe"] = SubSeq(@, Len(raw) + 1, Len(@))] ELSE files
      /\ opened' = [opened EXCEPT ![fdObj[fd]].pos = pos + Len(raw)]
  BY DEF mm_read
<1>5. raw \in Seq(Char)
  BY <1>1, ReadIsPart
<1> HIDE DEF raw, pos
<1>6. pos + Len(raw) \in Nat
  BY <1>3, <1>5
<1>7. \E p \in Nat : opened' = [opened EXCEPT ![fdObj[fd]].pos = p]
  BY <1>4, <1>6
<1>8. DOMAIN files' = DOMAIN files /\ \A n \in DOMAIN files : files'[n] \in Seq(Char)
  <2>1. CASE obj.kind # "pipe"
    BY <1>4, <2>1 DEF FdInv, FdTypeOK
  <2>2. CASE obj.kind = "pipe"
    <3> DEFINE c == files["pipe"]
               rest == SubSeq(c, Len(raw) + 1, Len(c))
    <3>1. files' = [files EXCEPT !["pipe"] = rest]
      BY <1>4, <2>2
    <3>2. CASE "pipe" \in DOMAIN files
      <4>1. c \in Seq(Char)
        BY <3>2 DEF FdInv, FdTypeOK
      <4>2. \A i \in Len(raw) + 1 .. Len(c) : c[i] \in Char
        BY <1>5, <4>1
      <4>3. rest \in Seq(Char)
        <5>1. Len(raw) + 1 \in Int /\ Len(c) \in Int
          BY <1>5, <4>1
        <5> HIDE DEF c
        <5> QED
          BY <4>2, <5>1, SubSeqProperties
      <4> HIDE DEF rest
      <4> QED
        BY <3>1, <4>3 DEF FdInv, FdTypeOK
    <3>3. CASE "pipe" \notin DOMAIN files
      <4> HIDE DEF rest
      <4> QED
        BY <3>1, <3>3 DEF FdInv, FdTypeOK
    <3> QED
      BY <3>2, <3>3
  <2> QED
    BY <2>1, <2>2
<1> QED
  BY <1>1, <1>7, <1>8, LooksUp

LEMMA IsattyStep ==
    ASSUME FdInv, FdThreads = 1, NEW fd \in Fd, mm_isatty(fd) PROVE FdInv'
  BY NotClosing, LooksUp DEF mm_isatty, FdInv, FdTypeOK

LEMMA FdStep ==
    ASSUME FdThreads = 1, ~PipeExhausts, "append" \notin CrtModes, FdInv, [FdNext]_fdVars PROVE FdInv'
<1>1. CASE UNCHANGED fdVars
  <2>1. FdTypeOK'
    BY <1>1 DEF FdInv, FdTypeOK, fdVars
  <2>2. FdTableInv' /\ ClosingInv'
    BY <1>1 DEF FdInv, FdTableInv, ClosingInv, ObjOf, fdVars
  <2> QED
    BY <2>1, <2>2 DEF FdInv
<1>2. ASSUME NEW fd \in Fd, NEW n \in {1, 3}, mm_read(fd, n) PROVE FdInv'
  <2>1. n \in Nat
    OBVIOUS
  <2> QED
    BY <1>2, <2>1, FdReadStep
<1>3. CrtModes \subseteq {"binary", "text"}
  BY FdAssumption
<1> QED
  BY <1>1, <1>2, <1>3, OpenStep, CrtOpenStep, PipeStep, DupSteps, CloseSteps, FdWriteStep, IsattyStep
     DEF FdNext

-----------------------------------------------------------------------------
(***************************************************************************)
(* What the library remembers of descriptors on Windows is right: for any  *)
(* number of descriptors, any files and any sequence of calls, the info of *)
(* an open descriptor tells its kind, whether it appends and whether it    *)
(* translates. It takes a process in which no call comes between the two   *)
(* steps of mm_close(), no mm_pipe() that finds a single number free, and  *)
(* nobody who opens files with _O_APPEND by the runtime: TLC shows that    *)
(* the info can be wrong without any of these.                             *)
(***************************************************************************)
THEOREM InfosRight ==
    ASSUME FdThreads = 1, ~PipeExhausts, "append" \notin CrtModes PROVE FdSpec => []InfoTellsFile
<1>1. FdInit => FdInv
  BY InitFdInv
<1>2. FdInv /\ [FdNext]_fdVars => FdInv'
  BY FdStep
<1>3. FdInv => InfoTellsFile
  BY InfoRight
<1> QED
  BY <1>1, <1>2, <1>3, PTL DEF FdSpec

-----------------------------------------------------------------------------
\* What an open does to the files.
LEMMA OpenKeeps ==
    ASSUME FdInv, FdThreads = 1, NEW name \in FileNames, NEW oflag, mm_open(name, oflag)
    PROVE  KeepsContents
<1> DEFINE access == set_access_mode(oflag)
           d == set_creation_mode(oflag)
           obj == Object("file", name, access, "APPEND" \in oflag)
<1>1. fdCall'.op = "open" /\ fdCall'.args = oflag
  BY DEF mm_open, Called
<1>2. CASE UNCHANGED files /\ fdCall'.rv = -1
  BY <1>1, <1>2 DEF KeepsContents
<1>3. CASE ~(UNCHANGED files /\ fdCall'.rv = -1)
  <2>1. /\ files' \in CreateFile(name, access, d)
        /\ fdCall'.rv # -1 => /\ FreeFds # {}
                              /\ opened' = opened \o <<obj>>
    BY <1>3 DEF mm_open, Called, WrapHandles
  <2>2. /\ d \in {"OPEN_EXISTING", "TRUNCATE_EXISTING", "CREATE_NEW", "OPEN_ALWAYS",
                  "CREATE_ALWAYS"}
        /\ d \in {"CREATE_NEW", "OPEN_ALWAYS", "CREATE_ALWAYS"} => "CREAT" \in oflag
        /\ d \in {"TRUNCATE_EXISTING", "CREATE_ALWAYS"} =>
                 "TRUNC" \in oflag /\ ~({"CREAT", "EXCL"} \subseteq oflag)
        /\ "TRUNC" \in oflag => d \notin {"OPEN_EXISTING", "OPEN_ALWAYS"}
    BY Dispositions
  <2> HIDE DEF d, access
  <2>3. /\ DOMAIN files' = DOMAIN files \cup {name}
        /\ \A n \in DOMAIN files : n # name => files'[n] = files[n]
        /\ name \notin DOMAIN files => d \in {"CREATE_NEW", "OPEN_ALWAYS", "CREATE_ALWAYS"}
        /\ name \in DOMAIN files => d # "CREATE_NEW"
        /\ IF name \in DOMAIN files /\ d \in {"OPEN_EXISTING", "OPEN_ALWAYS"}
           THEN files' = files ELSE files'[name] = <<>>
    <3>1. FdTypeOK /\ files' \in CreateFile(name, access, d)
      BY <2>1 DEF FdInv
    <3>2. d \in {"OPEN_EXISTING", "TRUNCATE_EXISTING", "CREATE_NEW", "OPEN_ALWAYS",
                "CREATE_ALWAYS"}
      BY <2>2
    <3>3. Created(files', name, d)
      BY <3>1, <3>2, CreatedFiles
    <3> QED
      BY <3>3 DEF Created
  <2>4. DOMAIN files' # DOMAIN files => "CREAT" \in oflag
    BY <2>2, <2>3
  <2>5. ASSUME NEW n \in DOMAIN files, files'[n] # files[n]
        PROVE  "TRUNC" \in oflag /\ ~({"CREAT", "EXCL"} \subseteq oflag)
    <3>1. n = name /\ name \in DOMAIN files
      BY <2>3, <2>5
    <3>2. d \in {"TRUNCATE_EXISTING", "CREATE_ALWAYS"}
      BY <2>2, <2>3, <2>5, <3>1
    <3> QED
      BY <2>2, <3>2
  <2>6. ASSUME fdCall'.rv # -1, "TRUNC" \in oflag
        PROVE  files'[opened'[Len(opened')].name] = <<>>
    <3>1. opened \in Seq(ObjRec)
      BY DEF FdInv, FdTypeOK
    <3>2. obj.name = name
      BY DEF Object
    <3> HIDE DEF obj
    <3>3. opened' = Append(opened, obj)
      BY <2>1, <2>6, <3>1
    <3>4. opened'[Len(opened')] = obj
      BY <3>1, <3>3
    <3> QED
      BY <2>2, <2>3, <2>6, <3>2, <3>4
  <2> QED
    BY <1>1, <2>4, <2>5, <2>6 DEF KeepsContents
<1> QED
  BY <1>2, <1>3

\* What a write does to them: what the info says decides where it goes, so the
\* info must be right.
LEMMA WriteKeeps ==
    ASSUME FdInv, FdThreads = 1, NEW fd \in Fd, NEW buf \in Buffers, mm_write(fd, buf)
    PROVE  KeepsContents
<1>1. fdCall'.op # "open"
  BY DEF mm_write, Called
<1>2. closing = -1 /\ fdObj[fd] # 0 /\ closing # fd
  <2>1. closing = -1 /\ fdObj[fd] # 0
    BY WriteEffect
  <2> QED
    BY <2>1, FdAssumption DEF Fd
<1>3. /\ fdObj[fd] \in 1 .. Len(opened) /\ ObjOf(fd).name \in DOMAIN files
      /\ files[ObjOf(fd).name] \in Seq(Char) /\ opened \in Seq(ObjRec)
  BY <1>2, FdBehind DEF FdInv, FdTypeOK
<1>4. ("APPEND" \in get_fd_info_checked(fd).flags) = ObjOf(fd).append
  BY <1>2, InfoRight DEF InfoTellsFile
<1>5. ASSUME NEW i \in 1 .. Len(opened), opened[i].append, opened'[i] # opened[i]
      PROVE  IsPrefix(files[opened[i].name], files'[opened[i].name])
  <2>1. ~UNCHANGED <<files, opened>>
    BY <1>5
  <2>2. PICK pos \in Nat, data \in Seq(Char) :
            /\ files' = [files EXCEPT ![ObjOf(fd).name] =
                            Overwrite(files[ObjOf(fd).name], pos, data)]
            /\ opened' = [opened EXCEPT ![fdObj[fd]].pos = pos + Len(data)]
            /\ "APPEND" \in get_fd_info_checked(fd).flags =>
                    pos = Len(files[ObjOf(fd).name])
    BY <2>1, WriteEffect
  <2>3. i = fdObj[fd]
    <3>1. DOMAIN opened = 1 .. Len(opened)
      BY <1>3
    <3> QED
      BY <1>3, <1>5, <2>2, <3>1
  <2>4. opened[i] = ObjOf(fd)
    BY <2>3 DEF ObjOf
  <2>5. "APPEND" \in get_fd_info_checked(fd).flags
    BY <1>4, <1>5, <2>4
  <2>6. IsPrefix(files[ObjOf(fd).name], Overwrite(files[ObjOf(fd).name], pos, data))
    BY <1>3, <2>2, <2>5, OverwriteType
  <2>7. files'[ObjOf(fd).name] = Overwrite(files[ObjOf(fd).name], pos, data)
    BY <1>3, <2>2
  <2> QED
    BY <2>4, <2>6, <2>7
<1> QED
  BY <1>1, <1>5 DEF KeepsContents

LEMMA OthersKeep ==
    ASSUME FdInv, FdNext
    PROVE  \/ KeepsContents
           \/ \E name \in FileNames, oflag \in OpenFlags : mm_open(name, oflag)
           \/ \E fd \in Fd, buf \in Buffers : mm_write(fd, buf)
<1> SUFFICES ASSUME ~(\E name \in FileNames, oflag \in OpenFlags : mm_open(name, oflag)),
                    ~(\E fd \in Fd, buf \in Buffers : mm_write(fd, buf))
             PROVE  fdCall'.op \notin {"open", "write"}
  BY DEF KeepsContents
<1>1. ASSUME NEW name, NEW mode, CrtOpen(name, mode) PROVE fdCall'.op \notin {"open", "write"}
  BY <1>1 DEF CrtOpen, Called
<1>2. ASSUME mm_pipe PROVE fdCall'.op \notin {"open", "write"}
  BY <1>2 DEF mm_pipe, Called
<1>3. ASSUME NEW fd, mm_dup(fd) \/ mm_dup2(fd, 1) PROVE fdCall'.op \notin {"open", "write"}
  BY <1>3 DEF mm_dup, mm_dup2, Called
<1>4. ASSUME NEW fd, mm_close(fd) \/ mm_isatty(fd) PROVE fdCall'.op \notin {"open", "write"}
  BY <1>4 DEF mm_close, mm_isatty, Called
<1>5. ASSUME NEW fd, NEW n, mm_read(fd, n) PROVE fdCall'.op \notin {"open", "write"}
  BY <1>5 DEF mm_read
<1>6. ASSUME ForgetInfo PROVE fdCall'.op \notin {"open", "write"}
  BY <1>6 DEF ForgetInfo, FdInv, ClosingInv
<1> QED
  BY <1>1, <1>2, <1>3, <1>4, <1>5, <1>6 DEF FdNext

(***************************************************************************)
(* No call destroys contents that nobody asked to destroy, for any number  *)
(* of descriptors, any flags and any contents: mm_open() creates only with *)
(* O_CREAT, empties only with O_TRUNC and leaves what exists alone under   *)
(* O_CREAT and O_EXCL; mm_write() through a descriptor opened with         *)
(* O_APPEND only extends the file. It rests on the infos being right, so   *)
(* under the same conditions.                                              *)
(***************************************************************************)
THEOREM NoContentsLost ==
    ASSUME FdThreads = 1, ~PipeExhausts, "append" \notin CrtModes PROVE FdSpec => ContentsKept
<1>1. FdInit => FdInv
  BY InitFdInv
<1>2. FdInv /\ [FdNext]_fdVars => FdInv'
  BY FdStep
<1>3. FdInv /\ [FdNext]_fdVars => [KeepsContents]_fdVars
  BY OthersKeep, OpenKeeps, WriteKeeps
<1> QED
  BY <1>1, <1>2, <1>3, PTL DEF FdSpec, ContentsKept

-----------------------------------------------------------------------------
(***************************************************************************)
(* What a call reports: line ends                                          *)
(***************************************************************************)

\* The pairs of CR and LF.
CrLf(s) == {i \in 2 .. Len(s) : s[i - 1] = CR /\ s[i] = LF}

LEMMA CrLfFinite ==
    ASSUME NEW s, Len(s) \in Nat PROVE IsFiniteSet(CrLf(s)) /\ Cardinality(CrLf(s)) \in Nat
<1>1. IsFiniteSet(2 .. Len(s))
  BY FS_Interval
<1>2. CrLf(s) \subseteq 2 .. Len(s)
  BY DEF CrLf
<1> QED
  BY <1>1, <1>2, FS_Subset, FS_CardinalityType

\* A character that is no LF adds no pair, and CRLF adds one.
LEMMA PairsOfJoined ==
    ASSUME NEW S, NEW s \in Seq(S), NEW c \in S, c # LF
    PROVE  CrLf(s \o <<c>>) = CrLf(s)
<1> DEFINE n == Len(s)
           u == s \o <<c>>
<1>1. n \in Nat
  OBVIOUS
<1>2. n \in Nat /\ Len(u) = n + 1 /\ (\A i \in 1 .. n : u[i] = s[i]) /\ u[n + 1] = c
  <2>1. Len(u) = n + 1
    OBVIOUS
  <2>2. \A i \in 1 .. n : u[i] = s[i]
    OBVIOUS
  <2>3. u[n + 1] = c
    OBVIOUS
  <2> HIDE DEF u, n
  <2> QED
    BY <1>1, <2>1, <2>2, <2>3
<1> HIDE DEF u
<1>3. ASSUME NEW i \in CrLf(u) PROVE i \in CrLf(s)
  <2>1. i \in 2 .. n + 1 /\ u[i - 1] = CR /\ u[i] = LF
    BY <1>2 DEF CrLf
  <2>2. i # n + 1
    BY <1>2, <2>1
  <2>3. i \in 2 .. n /\ i \in 1 .. n /\ i - 1 \in 1 .. n
    BY <1>2, <2>1, <2>2
  <2> QED
    BY <1>2, <2>1, <2>3 DEF CrLf
<1>4. ASSUME NEW i \in CrLf(s) PROVE i \in CrLf(u)
  <2>1. i \in 2 .. n /\ s[i - 1] = CR /\ s[i] = LF
    BY DEF CrLf
  <2>2. i \in 2 .. n + 1 /\ i \in 1 .. n /\ i - 1 \in 1 .. n
    BY <1>2, <2>1
  <2> QED
    BY <1>2, <2>1, <2>2 DEF CrLf
<1>5. CrLf(u) = CrLf(s)
  BY <1>3, <1>4
<1> QED
  BY <1>5 DEF u

LEMMA PairsOfLine ==
    ASSUME NEW S, CR \in S, LF \in S, NEW s \in Seq(S)
    PROVE  /\ CrLf(s \o <<CR, LF>>) = CrLf(s) \cup {Len(s) + 2}
           /\ Len(s) + 2 \notin CrLf(s)
<1> DEFINE n == Len(s)
           u == s \o <<CR, LF>>
<1>1. n \in Nat
  OBVIOUS
<1>2. /\ n \in Nat /\ Len(u) = n + 2 /\ (\A i \in 1 .. n : u[i] = s[i])
      /\ u[n + 1] = CR /\ u[n + 2] = LF
  <2>1. Len(u) = n + 2
    OBVIOUS
  <2>2. \A i \in 1 .. n : u[i] = s[i]
    OBVIOUS
  <2>3. u[n + 1] = CR
    OBVIOUS
  <2>4. u[n + 2] = LF
    OBVIOUS
  <2> HIDE DEF u, n
  <2> QED
    BY <1>1, <2>1, <2>2, <2>3, <2>4
<1> HIDE DEF u
<1>3. ASSUME NEW i \in CrLf(u) PROVE i \in CrLf(s) \cup {n + 2}
  <2> SUFFICES ASSUME i # n + 2 PROVE i \in CrLf(s)
    OBVIOUS
  <2>1. i \in 2 .. n + 2 /\ u[i - 1] = CR /\ u[i] = LF
    BY <1>2 DEF CrLf
  <2>2. i # n + 1
    BY <1>2, <2>1 DEF CR, LF
  <2>3. i \in 2 .. n /\ i \in 1 .. n /\ i - 1 \in 1 .. n
    BY <1>2, <2>1, <2>2
  <2> QED
    BY <1>2, <2>1, <2>3 DEF CrLf
<1>4. ASSUME NEW i \in CrLf(s) PROVE i \in CrLf(u)
  <2>1. i \in 2 .. n /\ s[i - 1] = CR /\ s[i] = LF
    BY DEF CrLf
  <2>2. i \in 2 .. n + 2 /\ i \in 1 .. n /\ i - 1 \in 1 .. n
    BY <1>2, <2>1
  <2> QED
    BY <1>2, <2>1, <2>2 DEF CrLf
<1>5. n + 2 \in CrLf(u)
  <2>1. n + 2 \in 2 .. n + 2 /\ (n + 2) - 1 = n + 1
    BY <1>2
  <2> QED
    BY <1>2, <2>1 DEF CrLf
<1>6. n + 2 \notin CrLf(s)
  BY <1>2 DEF CrLf
<1>7. CrLf(u) = CrLf(s) \cup {n + 2}
  BY <1>3, <1>4, <1>5
<1> QED
  BY <1>6, <1>7 DEF u

\* What is written in text mode counts as what the caller has given.
LEMMA WriteCounts ==
    ASSUME NEW S, CR \in S, LF \in S, NEW buf \in Seq(S)
    PROVE  hnd_write_text_count(Expanded(buf)) = Len(buf)
<1> DEFINE n == Len(buf)
           piece(i) == IF buf[i] = LF THEN <<CR, LF>> ELSE <<buf[i]>>
           seqs == [i \in 1 .. n |-> piece(i)]
<1>1. n \in Nat /\ \A i \in 1 .. n : piece(i) \in Seq(S)
  <2>1. ASSUME NEW i \in 1 .. n PROVE piece(i) \in Seq(S)
    <3>1. buf[i] \in S
      OBVIOUS
    <3>2. <<CR, LF>> \in Seq(S) /\ <<buf[i]>> \in Seq(S)
      BY <3>1
    <3> QED
      BY <3>2
  <2> QED
    BY <2>1
<1>2. Expanded(buf) = FlattenSeq(seqs)
  BY DEF Expanded
<1> HIDE DEF piece, n
<1>3. seqs \in Seq(Seq(S)) /\ Len(seqs) = n /\ \A i \in 1 .. n : seqs[i] = piece(i)
  BY <1>1
<1> HIDE DEF seqs
<1>4. PICK g : FlatRun(g, S, seqs) /\ FlattenSeq(seqs) = g[Len(seqs)]
  BY <1>3, FlattenedBy
<1>5. /\ g \in [0 .. n -> Seq(S)] /\ g[0] = <<>>
      /\ \A k \in 1 .. n : g[k] = g[k - 1] \o piece(k)
  BY <1>3, <1>4 DEF FlatRun
<1> DEFINE T == {k \in Nat : k <= n => Len(g[k]) - Cardinality(CrLf(g[k])) = k}
<1>6. 0 \in T
  <2>1. Len(g[0]) = 0 /\ CrLf(g[0]) = {}
    BY <1>5 DEF CrLf
  <2>2. Cardinality(CrLf(g[0])) = 0
    BY <2>1, FS_EmptySet
  <2> HIDE DEF CrLf
  <2>3. Len(g[0]) - Cardinality(CrLf(g[0])) = 0
    BY <2>1, <2>2
  <2> QED
    BY <2>3
<1>7. ASSUME NEW k \in Nat, k \in T PROVE k + 1 \in T
  <2> SUFFICES ASSUME k + 1 <= n PROVE Len(g[k + 1]) - Cardinality(CrLf(g[k + 1])) = k + 1
    OBVIOUS
  <2>1. k + 1 \in 1 .. n /\ (k + 1) - 1 = k /\ k \in 0 .. n /\ k <= n
    BY <1>1
  <2>2. g[k] \in Seq(S) /\ g[k + 1] = g[k] \o piece(k + 1) /\ Len(g[k]) - Cardinality(CrLf(g[k])) = k
    BY <1>5, <1>7, <2>1
  <2>0. PICK s \in Seq(S) : s = g[k]
    BY <2>2
  <2>3. buf[k + 1] \in S
    BY <2>1 DEF n
  <2>4. Len(s) \in Nat /\ IsFiniteSet(CrLf(s)) /\ Cardinality(CrLf(s)) \in Nat
    BY CrLfFinite
  <2>7. PICK l \in Nat, c \in Nat : l = Len(s) /\ c = Cardinality(CrLf(s))
    BY <2>4
  <2>8. l - c = k
    BY <2>0, <2>2, <2>7
  <2>5. CASE buf[k + 1] = LF
    <3>1. g[k + 1] = s \o <<CR, LF>>
      BY <2>0, <2>2, <2>5 DEF piece
    <3>2. CrLf(s \o <<CR, LF>>) = CrLf(s) \cup {Len(s) + 2} /\ Len(s) + 2 \notin CrLf(s)
      BY PairsOfLine
    <3>3. Cardinality(CrLf(s) \cup {Len(s) + 2}) = Cardinality(CrLf(s)) + 1
      BY <2>4, <3>2, FS_AddElement
    <3>4. Len(s \o <<CR, LF>>) = Len(s) + 2
      OBVIOUS
    <3>5. Len(g[k + 1]) = l + 2 /\ Cardinality(CrLf(g[k + 1])) = c + 1
      BY <2>7, <3>1, <3>2, <3>3, <3>4
    <3>6. (l + 2) - (c + 1) = k + 1
      BY <2>8
    <3> QED
      BY <3>5, <3>6
  <2>6. CASE buf[k + 1] # LF
    <3>1. g[k + 1] = s \o <<buf[k + 1]>>
      BY <2>0, <2>2, <2>6 DEF piece
    <3>2. CrLf(s \o <<buf[k + 1]>>) = CrLf(s)
      BY <2>3, <2>6, PairsOfJoined
    <3>3. Len(s \o <<buf[k + 1]>>) = Len(s) + 1
      BY <2>3
    <3>4. Len(g[k + 1]) = l + 1 /\ Cardinality(CrLf(g[k + 1])) = c
      BY <2>7, <3>1, <3>2, <3>3
    <3>5. (l + 1) - c = k + 1
      BY <2>8
    <3> QED
      BY <3>4, <3>5
  <2> QED
    BY <2>5, <2>6
<1>8. n \in T
  <2> HIDE DEF T
  <2> QED
    BY <1>1, <1>6, <1>7, SetInduction
<1>9. Len(g[n]) - Cardinality(CrLf(g[n])) = n
  BY <1>1, <1>8
<1>10. Expanded(buf) = g[n]
  BY <1>2, <1>3, <1>4
<1> QED
  BY <1>9, <1>10 DEF hnd_write_text_count, CrLf, n

\* What the loop has written is the concatenation of the pieces before.
LEMMA DstIs ==
    ASSUME NEW S, NEW raw \in Seq(S), raw # <<>>, NEW seqs \in Seq(Seq(S)), NEW g,
           FlatRun(g, S, seqs), Len(raw) - 1 <= Len(seqs),
           \A i \in 1 .. Len(raw) - 1 :
                seqs[i] = IF raw[i] = CR /\ raw[i + 1] = LF THEN <<>> ELSE <<raw[i]>>
    PROVE  conv_crlf_to_lf(raw) = IF raw[Len(raw)] = CR THEN g[Len(raw) - 1]
                                  ELSE Append(g[Len(raw) - 1], raw[Len(raw)])
<1> DEFINE n == Len(raw)
           m == Len(seqs)
           Def(f, i) == IF i = 1 THEN <<>>
                        ELSE IF raw[i - 1] = CR /\ raw[i] = LF THEN f[i - 1]
                             ELSE Append(f[i - 1], raw[i - 1])
           IsIt(f) == f = [i \in 1 .. n |-> Def(f, i)]
           dst == CHOOSE f : IsIt(f)
           d == [i \in 1 .. n |-> g[i - 1]]
<1>1. /\ n \in Nat \ {0} /\ m \in Nat /\ n - 1 <= m /\ \A i \in 1 .. n : raw[i] \in S
      /\ g \in [0 .. m -> Seq(S)] /\ g[0] = <<>>
      /\ \A k \in 1 .. m : g[k] = g[k - 1] \o seqs[k]
  <2>1. n \in Nat \ {0} /\ m \in Nat /\ n - 1 <= m /\ \A i \in 1 .. n : raw[i] \in S
    OBVIOUS
  <2> QED
    BY <2>1, Zenon DEF FlatRun
<1>2. conv_crlf_to_lf(raw) = IF raw[n] = CR THEN dst[n] ELSE Append(dst[n], raw[n])
  BY DEF conv_crlf_to_lf
<1> HIDE DEF n, m
<1>3. ASSUME NEW k \in 1 .. n - 1
      PROVE  g[k] = IF raw[k] = CR /\ raw[k + 1] = LF THEN g[k - 1] ELSE Append(g[k - 1], raw[k])
  <2>1. k \in 1 .. m /\ k - 1 \in 0 .. m /\ k \in 1 .. n
    BY <1>1
  <2>2. PICK s \in Seq(S) : s = g[k - 1]
    BY <1>1, <2>1
  <2>3. seqs[k] = IF raw[k] = CR /\ raw[k + 1] = LF THEN <<>> ELSE <<raw[k]>>
    BY DEF n
  <2>4. g[k] = s \o seqs[k]
    BY <1>1, <2>1, <2>2
  <2>5. s \o <<>> = s
    BY ConcatEmptySeq
  <2>6. s \o <<raw[k]>> = Append(s, raw[k])
    BY <1>1, <2>1, AppendIsConcat
  <2> QED
    BY <2>2, <2>3, <2>4, <2>5, <2>6
<1>4. IsIt(d)
  <2>1. ASSUME NEW i \in 1 .. n PROVE d[i] = Def(d, i)
    <3>1. CASE i = 1
      BY <1>1, <3>1
    <3>2. CASE i # 1
      <4> DEFINE k == i - 1
      <4>1. k \in 1 .. n - 1 /\ k = i - 1 /\ k + 1 = i /\ k \in 1 .. n
        BY <1>1, <3>2
      <4> HIDE DEF k
      <4>2. d[i] = g[k] /\ d[k] = g[k - 1]
        BY <4>1
      <4> HIDE DEF d
      <4>3. Def(d, i) = IF raw[k] = CR /\ raw[k + 1] = LF THEN d[k] ELSE Append(d[k], raw[k])
        BY <3>2, <4>1
      <4> HIDE DEF Def
      <4> QED
        BY <1>3, <4>1, <4>2, <4>3
    <3> QED
      BY <3>1, <3>2
  <2>2. d = [i \in 1 .. n |-> d[i]]
    OBVIOUS
  <2> HIDE DEF d, Def
  <2> QED
    BY <2>1, <2>2
<1>5. dst = [i \in 1 .. n |-> Def(dst, i)]
  <2> HIDE DEF d
  <2>1. IsIt(CHOOSE f : IsIt(f))
    <3> HIDE DEF IsIt
    <3> QED
      BY <1>4
  <2> QED
    BY <2>1
<1> HIDE DEF dst
<1> DEFINE T == {k \in Nat : k < n => dst[k + 1] = g[k]}
<1>6. 0 \in T
  <2>1. 1 \in 1 .. n
    BY <1>1
  <2>2. dst[1] = <<>>
    BY <1>5, <2>1
  <2> QED
    BY <1>1, <2>2
<1>7. ASSUME NEW k \in Nat, k \in T PROVE k + 1 \in T
  <2> SUFFICES ASSUME k + 1 < n PROVE dst[(k + 1) + 1] = g[k + 1]
    OBVIOUS
  <2>1. PICK j \in 1 .. n - 1 : j = k + 1 /\ j + 1 \in 1 .. n /\ j - 1 = k /\ k < n
    BY <1>1
  <2>2. dst[j] = g[j - 1]
    BY <1>7, <2>1
  <2>3. j + 1 # 1 /\ (j + 1) - 1 = j
    BY <2>1
  <2>4. dst[j + 1] = IF raw[j] = CR /\ raw[j + 1] = LF THEN dst[j] ELSE Append(dst[j], raw[j])
    BY <1>5, <2>1, <2>3
  <2>5. dst[j + 1] = g[j]
    BY <1>3, <2>2, <2>4
  <2> QED
    BY <2>1, <2>5
<1>8. n - 1 \in T
  <2>1. n - 1 \in Nat
    BY <1>1
  <2> HIDE DEF T
  <2> QED
    BY <2>1, <1>6, <1>7, SetInduction
<1>9. dst[n] = g[n - 1]
  <2>1. n - 1 < n /\ (n - 1) + 1 = n
    BY <1>1
  <2> QED
    BY <1>8, <2>1
<1> QED
  BY <1>2, <1>9 DEF n

\* A read in text mode gives what was read with each CRLF as LF.
LEMMA ReadConverts ==
    ASSUME NEW S, NEW raw \in Seq(S), raw # <<>>
    PROVE  conv_crlf_to_lf(raw) = WithLf(IF Last(raw) = CR THEN Front(raw) ELSE raw)
<1> DEFINE n == Len(raw)
           q == IF Last(raw) = CR THEN Front(raw) ELSE raw
           m == Len(q)
           piece(i) == IF q[i] = CR /\ i < m /\ q[i + 1] = LF THEN <<>> ELSE <<q[i]>>
           seqs == [i \in 1 .. m |-> piece(i)]
<1>1. n \in Nat \ {0} /\ Last(raw) = raw[n] /\ \A i \in 1 .. n : raw[i] \in S
  BY DEF Last
<1>2. /\ q \in Seq(S) /\ m = (IF raw[n] = CR THEN n - 1 ELSE n) /\ m \in Nat
      /\ \A i \in 1 .. m : q[i] = raw[i]
  <2>1. CASE raw[n] = CR
    <3>1. q = SubSeq(raw, 1, n - 1)
      BY <1>1, <2>1 DEF Front
    <3>2. 1 \in Int /\ n - 1 \in Int /\ \A i \in 1 .. n - 1 : raw[i] \in S
      BY <1>1
    <3> HIDE DEF q, n
    <3>3. /\ q \in Seq(S) /\ Len(q) = (IF 1 <= n - 1 THEN (n - 1) - 1 + 1 ELSE 0)
          /\ \A i \in 1 .. (n - 1) - 1 + 1 : q[i] = raw[1 + i - 1]
      BY <3>1, <3>2, SubSeqProperties
    <3>4. Len(q) = n - 1
      BY <1>1, <3>3
    <3>5. ASSUME NEW i \in 1 .. n - 1 PROVE q[i] = raw[i]
      <4>1. i \in 1 .. (n - 1) - 1 + 1 /\ 1 + i - 1 = i
        BY <1>1
      <4> QED
        BY <3>3, <4>1
    <3> QED
      BY <1>1, <2>1, <3>3, <3>4, <3>5
  <2>2. CASE raw[n] # CR
    BY <1>1, <2>2
  <2> QED
    BY <2>1, <2>2
<1>3. WithLf(q) = FlattenSeq(seqs)
  BY DEF WithLf
<1> HIDE DEF q, m, n
<1>4. /\ seqs \in Seq(Seq(S)) /\ Len(seqs) = m
      /\ \A i \in 1 .. m : seqs[i] = piece(i)
  <2>1. ASSUME NEW i \in 1 .. m PROVE piece(i) \in Seq(S)
    <3>1. q[i] \in S
      BY <1>2 DEF m
    <3>2. <<>> \in Seq(S) /\ <<q[i]>> \in Seq(S)
      BY <3>1
    <3> QED
      BY <3>2
  <2>2. m \in Nat
    BY <1>2
  <2> HIDE DEF piece
  <2> QED
    BY <2>1, <2>2
<1> HIDE DEF seqs
<1>5. ASSUME NEW i \in 1 .. n - 1
      PROVE  seqs[i] = IF raw[i] = CR /\ raw[i + 1] = LF THEN <<>> ELSE <<raw[i]>>
  <2>1. i \in 1 .. m /\ q[i] = raw[i]
    BY <1>1, <1>2
  <2>2. CASE i < m
    <3>1. i + 1 \in 1 .. m
      BY <1>2, <2>1, <2>2
    <3>2. q[i + 1] = raw[i + 1]
      BY <1>2, <3>1
    <3> QED
      BY <1>4, <2>1, <2>2, <3>2
  <2>3. CASE ~(i < m)
    <3>1. i + 1 = n /\ raw[n] = CR
      BY <1>1, <1>2, <2>1, <2>3
    <3>2. raw[i + 1] # LF
      BY <3>1 DEF CR, LF
    <3> QED
      BY <1>4, <2>1, <2>3, <3>2
  <2> QED
    BY <2>2, <2>3
<1>6. PICK g : FlatRun(g, S, seqs) /\ FlattenSeq(seqs) = g[m]
  BY <1>4, FlattenedBy
<1>7. n - 1 <= m
  BY <1>1, <1>2
<1>8. conv_crlf_to_lf(raw) = IF raw[n] = CR THEN g[n - 1] ELSE Append(g[n - 1], raw[n])
  BY <1>4, <1>5, <1>6, <1>7, DstIs DEF n
<1>9. raw[n] # CR => g[m] = Append(g[n - 1], raw[n])
  <2> SUFFICES ASSUME raw[n] # CR PROVE g[n] = Append(g[n - 1], raw[n]) /\ m = n
    OBVIOUS
  <2>1. m = n /\ n \in 1 .. m /\ n - 1 \in 0 .. m /\ ~(n < m)
    BY <1>1, <1>2
  <2>2. seqs[n] = <<raw[n]>>
    BY <1>2, <1>4, <2>1
  <2>3. PICK s \in Seq(S) : s = g[n - 1]
    BY <1>4, <1>6, <2>1 DEF FlatRun
  <2>4. g[n] = s \o <<raw[n]>>
    BY <1>4, <1>6, <2>1, <2>2, <2>3 DEF FlatRun
  <2>5. s \o <<raw[n]>> = Append(s, raw[n])
    BY <1>1, <2>1, AppendIsConcat
  <2> QED
    BY <2>1, <2>3, <2>4, <2>5
<1>10. conv_crlf_to_lf(raw) = g[m]
  BY <1>2, <1>8, <1>9
<1> QED
  BY <1>3, <1>6, <1>10 DEF q

LEMMA NothingToConvert == WithLf(<<>>) = <<>>
<1> DEFINE piece(i) == IF <<>>[i] = CR /\ i < Len(<<>>) /\ <<>>[i + 1] = LF THEN <<>> ELSE <<<<>>[i]>>
           seqs == [i \in 1 .. Len(<<>>) |-> piece(i)]
<1>1. WithLf(<<>>) = FlattenSeq(seqs)
  BY DEF WithLf
<1>2. seqs \in Seq(Seq(Char)) /\ Len(seqs) = 0
  OBVIOUS
<1> HIDE DEF seqs
<1>3. PICK g : FlatRun(g, Char, seqs) /\ FlattenSeq(seqs) = g[0]
  BY <1>2, FlattenedBy
<1> QED
  BY <1>1, <1>3 DEF FlatRun

\* What can be read or written is a file or a pipe.
AccessInv ==
    \A i \in 1 .. Len(opened) : opened[i].access # {} => opened[i].kind \in {"file", "pipe"}

LEMMA AccessKept ==
    ASSUME FdInv, AccessInv, [FdNext]_fdVars PROVE AccessInv'
<1>0. opened \in Seq(ObjRec) /\ Len(opened) \in Nat
  BY DEF FdInv, FdTypeOK
<1>1. ASSUME UNCHANGED opened PROVE AccessInv'
  BY <1>1 DEF AccessInv
<1>2. ASSUME NEW o \in Seq(ObjRec), opened' = opened \o o,
             \A i \in 1 .. Len(o) : o[i].kind \in {"file", "pipe"}
      PROVE  AccessInv'
  <2>1. /\ Len(opened') = Len(opened) + Len(o)
        /\ \A i \in 1 .. Len(opened) + Len(o) :
                opened'[i] = IF i <= Len(opened) THEN opened[i] ELSE o[i - Len(opened)]
    BY <1>0, <1>2, ConcatProperties
  <2>2. ASSUME NEW i \in 1 .. Len(opened) + Len(o), opened'[i].access # {}
        PROVE  opened'[i].kind \in {"file", "pipe"}
    <3>1. CASE i <= Len(opened)
      <4>1. i \in 1 .. Len(opened) /\ opened'[i] = opened[i]
        BY <1>0, <2>1, <3>1
      <4> QED
        BY <2>2, <4>1 DEF AccessInv
    <3>2. CASE ~(i <= Len(opened))
      <4>1. i - Len(opened) \in 1 .. Len(o) /\ opened'[i] = o[i - Len(opened)]
        BY <1>0, <2>1, <3>2
      <4> QED
        BY <1>2, <4>1
    <3> QED
      BY <3>1, <3>2
  <2> QED
    BY <2>1, <2>2 DEF AccessInv
<1>3. ASSUME NEW k, NEW p, opened' = [opened EXCEPT ![k].pos = p] PROVE AccessInv'
  <2>1. Len(opened') = Len(opened)
    BY <1>0, <1>3
  <2>2. ASSUME NEW i \in 1 .. Len(opened)
        PROVE  opened'[i].access = opened[i].access /\ opened'[i].kind = opened[i].kind
    <3>1. opened[i] \in ObjRec
      BY <1>0
    <3> QED
      BY <1>0, <1>3, <3>1 DEF ObjRec
  <2> QED
    BY <2>1, <2>2 DEF AccessInv
<1>4. ASSUME NEW name \in FileNames, NEW oflag, mm_open(name, oflag) PROVE AccessInv'
  <2> DEFINE o == <<Object("file", name, set_access_mode(oflag), "APPEND" \in oflag)>>
  <2>1. UNCHANGED opened \/ opened' = opened \o o
    BY <1>4 DEF mm_open, WrapHandles, Unopened
  <2>2. o \in Seq(ObjRec) /\ \A i \in 1 .. Len(o) : o[i].kind \in {"file", "pipe"}
    <3>1. set_access_mode(oflag) \in SUBSET {"read", "write"}
      BY DEF set_access_mode
    <3>2. ("APPEND" \in oflag) \in BOOLEAN
      OBVIOUS
    <3>3. Object("file", name, set_access_mode(oflag), "APPEND" \in oflag) \in ObjRec
      BY <3>1, <3>2 DEF Object, ObjRec, Kinds
    <3> QED
      BY <3>3 DEF Object
  <2> HIDE DEF o
  <2> QED
    BY <1>1, <1>2, <2>1, <2>2
<1>5. ASSUME NEW name \in FileNames, NEW mode, CrtOpen(name, mode) PROVE AccessInv'
  <2> DEFINE ob == Object("file", name, {"read", "write"}, mode = "append")
             o == <<ob>>
  <2>1. ob \in ObjRec /\ ob.kind = "file"
    BY DEF Object, ObjRec, Kinds
  <2>2. opened' = Append(opened, ob)
    BY <1>5 DEF CrtOpen
  <2> HIDE DEF ob
  <2>3. opened' = opened \o o
    BY <1>0, <2>1, <2>2, AppendIsConcat
  <2>4. o \in Seq(ObjRec) /\ \A i \in 1 .. Len(o) : o[i].kind \in {"file", "pipe"}
    BY <2>1
  <2> HIDE DEF o
  <2> QED
    BY <1>2, <2>3, <2>4
<1>6. ASSUME mm_pipe PROVE AccessInv'
  <2> DEFINE r == Object("pipe", "pipe", {"read"}, FALSE)
             w == Object("pipe", "pipe", {"write"}, FALSE)
             o == <<r, w>>
  <2>1. UNCHANGED opened \/ opened' = opened \o o
    BY <1>6 DEF mm_pipe, WrapHandles
  <2>2. r \in ObjRec /\ w \in ObjRec /\ r.kind = "pipe" /\ w.kind = "pipe"
    BY DEF Object, ObjRec, Kinds
  <2> HIDE DEF r, w
  <2>3. o \in Seq(ObjRec) /\ \A i \in 1 .. Len(o) : o[i].kind \in {"file", "pipe"}
    BY <2>2
  <2> HIDE DEF o
  <2> QED
    BY <1>1, <1>2, <2>1, <2>3
<1>7. ASSUME NEW fd, mm_dup(fd) \/ mm_dup2(fd, 1) \/ mm_close(fd) \/ mm_isatty(fd)
      PROVE  AccessInv'
  BY <1>1, <1>7 DEF mm_dup, mm_dup2, mm_close, mm_isatty, Unopened
<1>8. ASSUME NEW fd, NEW buf, mm_write(fd, buf) PROVE AccessInv'
  <2>1. \/ UNCHANGED opened
        \/ \E k, p : opened' = [opened EXCEPT ![k].pos = p]
    BY <1>8 DEF mm_write
  <2> QED
    BY <1>1, <1>3, <2>1
<1>9. ASSUME NEW fd, NEW n, mm_read(fd, n) PROVE AccessInv'
  <2>1. \E k, p : opened' = [opened EXCEPT ![k].pos = p]
    BY <1>9 DEF mm_read
  <2> QED
    BY <1>3, <2>1
<1>10. ASSUME ForgetInfo \/ UNCHANGED fdVars PROVE AccessInv'
  BY <1>1, <1>10 DEF ForgetInfo, fdVars
<1> QED
  BY <1>4, <1>5, <1>6, <1>7, <1>8, <1>9, <1>10 DEF FdNext

\* What mm_write() reports.
LEMMA WriteReports ==
    ASSUME FdInv, NEW fd \in Fd, NEW buf \in Buffers, mm_write(fd, buf) PROVE CountsTellCaller'
<1> DEFINE info == get_fd_info_checked(fd)
           data == hnd_write(info, buf)
           count == IF "TEXT" \in info.flags THEN hnd_write_text_count(data) ELSE Len(data)
           old == files[ObjOf(fd).name]
<1>1. \/ fdCall'.op = "write" /\ fdCall'.args = buf /\ fdCall'.rv = count
      \/ fdCall'.op = "write_refused" /\ fdCall'.args = old /\ Len(old) = 0
  BY DEF mm_write, Called
<1>2. buf \in Seq(Char) /\ CR \in Char /\ LF \in Char
  <2>1. buf \in Seq(Range(buf)) /\ Range(buf) \subseteq Char
    BY FdAssumption DEF Char
  <2>2. CR \in Char /\ LF \in Char
    BY DEF Char
  <2> QED
    BY <2>1, <2>2
<1>3. hnd_write_text_count(Expanded(buf)) = Len(buf)
  BY <1>2, WriteCounts
<1>4. count = Len(buf)
  BY <1>3 DEF hnd_write
<1>5. old \in Seq(Char)
  <2>1. fdObj[fd] # 0
    BY DEF mm_write
  <2> QED
    BY <2>1, FdBehind
<1> HIDE DEF count, old
<1>6. Len(old) = 0 => old = <<>>
  BY <1>5
<1> QED
  BY <1>1, <1>4, <1>6 DEF CountsTellCaller

\* What mm_read() returns.
LEMMA ReadReports ==
    ASSUME FdInv, AccessInv, FdThreads = 1, NEW fd \in Fd, NEW nbyte \in Nat, mm_read(fd, nbyte)
    PROVE  CountsTellCaller'
<1> DEFINE obj == ObjOf(fd)
           pos == IF obj.kind = "pipe" THEN 0 ELSE obj.pos
           raw == hnd_read_binary(files[obj.name], pos, nbyte)
           info == get_fd_info_checked(fd)
<1>1. closing = -1 /\ fdObj[fd] # 0 /\ "read" \in obj.access
  BY NotClosing DEF mm_read
<1>2. fdCall' = [op |-> "read", args |-> <<raw, fdMode[fd]>>, rv |-> hnd_read(info, raw),
                 n |-> fdCall.n + 1]
  BY DEF mm_read
<1>3. raw \in Seq(Char)
  BY <1>1, ReadIsPart
<1>4. obj.kind \in {"file", "pipe"}
  BY <1>1, FdBehind DEF AccessInv, ObjOf
<1>5. InfoFits(info, obj, fdMode[fd]) /\ info # FD_TYPE_UNKNOWN
  <2>1. closing # fd
    BY <1>1, FdAssumption DEF Fd
  <2>2. InfoFits(fdInfos[fd], ObjOf(fd), fdMode[fd])
    BY <1>1, <2>1 DEF FdInv, FdTableInv
  <2> QED
    BY <1>1, <2>2, LookedUp DEF FdInv
<1>6. ("TEXT" \in info.flags) = (fdMode[fd] = "text") /\ fdMode[fd] \in {"binary", "text"}
  BY <1>4, <1>5 DEF InfoFits, FdInv, FdTypeOK
<1> HIDE DEF raw, info, obj
<1>7. ~(fdMode[fd] = "text" /\ raw # <<>> /\ Last(raw) = CR) =>
            hnd_read(info, raw) = IF fdMode[fd] = "text" THEN WithLf(raw) ELSE raw
  <2>1. CASE fdMode[fd] = "binary" \/ raw = <<>>
    <3>1. ~(raw # <<>> /\ "TEXT" \in info.flags)
      BY <1>6, <2>1
    <3>2. WithLf(<<>>) = <<>>
      BY NothingToConvert
    <3> QED
      BY <1>6, <2>1, <3>1, <3>2 DEF hnd_read
  <2>2. CASE ~(fdMode[fd] = "binary" \/ raw = <<>>)
    <3>1. raw # <<>> /\ "TEXT" \in info.flags /\ fdMode[fd] = "text"
      BY <1>6, <2>2
    <3>2. conv_crlf_to_lf(raw) = WithLf(IF Last(raw) = CR THEN Front(raw) ELSE raw)
      BY <1>3, <3>1, ReadConverts
    <3> QED
      BY <2>2, <3>1, <3>2 DEF hnd_read
  <2> QED
    BY <2>1, <2>2
<1>8. /\ fdCall'.op = "read" /\ fdCall'.args[1] = raw /\ fdCall'.args[2] = fdMode[fd]
      /\ fdCall'.rv = hnd_read(info, raw)
  BY <1>2
<1> QED
  BY <1>7, <1>8 DEF CountsTellCaller

LEMMA CountsStep ==
    ASSUME FdThreads = 1, FdInv, AccessInv, CountsTellCaller, [FdNext]_fdVars
    PROVE  CountsTellCaller'
<1>0. ASSUME fdCall'.op \notin {"read", "write", "write_refused"} PROVE CountsTellCaller'
  BY <1>0 DEF CountsTellCaller
<1>1. ASSUME NEW name, NEW oflag, mm_open(name, oflag) PROVE fdCall'.op \notin {"read", "write", "write_refused"}
  BY <1>1 DEF mm_open, Called
<1>2. ASSUME NEW name, NEW mode, CrtOpen(name, mode) PROVE fdCall'.op \notin {"read", "write", "write_refused"}
  BY <1>2 DEF CrtOpen, Called
<1>3. ASSUME mm_pipe PROVE fdCall'.op \notin {"read", "write", "write_refused"}
  BY <1>3 DEF mm_pipe, Called
<1>4. ASSUME NEW fd, mm_dup(fd) \/ mm_dup2(fd, 1) PROVE fdCall'.op \notin {"read", "write", "write_refused"}
  BY <1>4 DEF mm_dup, mm_dup2, Called
<1>5. ASSUME NEW fd, mm_close(fd) \/ mm_isatty(fd) PROVE fdCall'.op \notin {"read", "write", "write_refused"}
  BY <1>5 DEF mm_close, mm_isatty, Called
<1>6. ASSUME NEW fd \in Fd, NEW n \in {1, 3}, mm_read(fd, n) PROVE CountsTellCaller'
  <2>1. n \in Nat
    OBVIOUS
  <2> QED
    BY <1>6, <2>1, ReadReports
<1>7. ASSUME ForgetInfo \/ UNCHANGED fdVars PROVE CountsTellCaller'
  <2>1. fdCall' = fdCall
    BY <1>7 DEF ForgetInfo, fdVars
  <2> QED
    BY <2>1 DEF CountsTellCaller
<1> QED
  BY <1>0, <1>1, <1>2, <1>3, <1>4, <1>5, <1>6, <1>7, WriteReports DEF FdNext

(***************************************************************************)
(* A call tells its caller how much was done: for any number of files, any *)
(* contents and buffers, mm_read() returns what it consumed, in text mode  *)
(* with each CRLF as LF when a CR is not the last of it, and mm_write()    *)
(* counts the bytes of the caller although each LF was written as CRLF and *)
(* fails only where it appends to an empty file. It rests on the infos     *)
(* being right, so under the same conditions.                              *)
(***************************************************************************)
THEOREM CountsRight ==
    ASSUME FdThreads = 1, ~PipeExhausts, "append" \notin CrtModes PROVE FdSpec => []CountsTellCaller
<1> DEFINE Inv == FdInv /\ AccessInv /\ CountsTellCaller
<1>1. FdInit => Inv
  <2> SUFFICES ASSUME FdInit PROVE AccessInv /\ CountsTellCaller
    BY InitFdInv
  <2>1. PICK kind : opened = <<Object(kind, "tty", {}, FALSE)>>
    BY DEF FdInit
  <2>2. AccessInv
    BY <2>1 DEF AccessInv, Object
  <2>3. CountsTellCaller
    BY DEF FdInit, CountsTellCaller
  <2> QED
    BY <2>2, <2>3
<1>2. Inv /\ [FdNext]_fdVars => Inv'
  BY FdStep, AccessKept, CountsStep
<1>3. Inv => CountsTellCaller
  OBVIOUS
<1> QED
  BY <1>1, <1>2, <1>3, PTL DEF FdSpec

-----------------------------------------------------------------------------
(***************************************************************************)
(* mm_rename() and mm_unlink(): the inductive invariant                    *)
(***************************************************************************)
NamesSpec == NamesInit /\ [][NamesNext]_nameVars

Renaming == {"rename", "opennew", "retry"}
Trashing == {"volume", "scrub"}
NmLabels == {"idle", "done", "dispose"} \cup Renaming \cup Trashing

\* What a link can be called.
NameOK(l, v) == v \in {Gone, Trash(l)} \/ IsPathName(v)

NmTypeOK ==
    /\ linkName = [l \in Link |-> linkName[l]] /\ \A l \in Link : NameOK(l, linkName[l])
    /\ pending \subseteq Link /\ held \subseteq Link
    /\ nmAt \in [Caller -> NmLabels]
    /\ nmCall \in [Caller -> NameCalls]
    /\ nmOld \in [Caller -> Link \cup {NoLink}] /\ nmNew \in [Caller -> Link \cup {NoLink}]
    /\ nmResult \in [Caller -> {-1, 0, 1}]

\* A call has handles while it is under way.
NmPhase ==
    \A c \in Caller :
        /\ nmAt[c] \in {"idle", "done"} => nmOld[c] = NoLink /\ nmNew[c] = NoLink
        /\ nmAt[c] \notin {"idle", "done"} => nmOld[c] \in Link
        /\ nmAt[c] = "retry" => nmNew[c] \in Link
        /\ nmAt[c] \in Trashing /\ nmCall[c].op = "rename" => nmNew[c] \in Link
        /\ nmAt[c] \in Trashing /\ nmCall[c].op = "unlink" => nmNew[c] = NoLink
        /\ nmAt[c] \notin Trashing \cup {"retry"} => nmNew[c] = NoLink
        /\ nmAt[c] \in Renaming => nmCall[c].op = "rename"
        /\ nmAt[c] = "dispose" => nmCall[c].op = "unlink"

\* Names are not shared.
NmUnique == \A k, l \in Link : (k # l /\ linkName[k] # Gone) => linkName[k] # linkName[l]

\* What is open has a name, and a deletion waits only for handles to be closed.
NmOpen ==
    \A l \in Link : /\ l \in OpenLinks => linkName[l] # Gone
                    /\ l \in pending => linkName[l] = Gone \/ l \in OpenLinks

\* What is in the trash, deleted or about to be was asked for, and so is what a
\* call moves there.
NmAsked ==
    /\ \A l \in Link : l \in pending \/ linkName[l] \in {Gone, Trash(l)} => l \in asked
    /\ \A c \in Caller : nmAt[c] \in Trashing \cup {"dispose"} => Target(c) \in asked

\* What is in the trash is to be deleted, or was replaced.
Replacing == \E c \in Caller : nmCall[c].op = "rename" /\ nmAt[c] \in {"retry", "done"}
Disposing(l) == \E c \in Caller : nmAt[c] = "dispose" /\ nmOld[c] = l
NmTrash == \A l \in Link : InTrash(l) => l \in pending \/ Disposing(l) \/ Replacing

NamesInv == NmTypeOK /\ NmPhase /\ NmUnique /\ NmOpen /\ NmAsked /\ NmTrash

-----------------------------------------------------------------------------
\* Names of paths, of the trash and of nothing are told apart.
LEMMA NamesDiffer ==
    ASSUME NEW l
    PROVE  Gone # Trash(l) /\ ~IsPathName(Gone) /\ ~IsPathName(Trash(l))
  BY DEF Gone, Trash, IsPathName

LEMMA InitNamesInv == NamesInit => NamesInv
<1> SUFFICES ASSUME NamesInit PROVE NamesInv
  OBVIOUS
<1>1. (CHOOSE x \in NameCalls : TRUE) \in NameCalls
  BY NamesAssumption
<1>2. \A l \in Link : linkName[l] = StartName[l] /\ IsPathName(linkName[l])
  BY NamesAssumption DEF NamesInit
<1>3. NmTypeOK
  BY <1>1, <1>2 DEF NamesInit, NmTypeOK, NameOK, NmLabels
<1>4. NmPhase
  BY DEF NamesInit, NmPhase, Renaming, Trashing
<1>5. NmUnique
  BY <1>2, NamesAssumption DEF NmUnique
<1>6. NmOpen
  BY <1>2, NamesDiffer DEF NamesInit, NmOpen
<1>7. NmAsked /\ NmTrash
  BY <1>2, NamesDiffer DEF NamesInit, NmAsked, NmTrash, InTrash, Trashing
<1> QED
  BY <1>3, <1>4, <1>5, <1>6, <1>7 DEF NamesInv

\* What the property says follows.
LEMMA LinksRight == ASSUME NamesInv PROVE LinksAccounted
<1>1. \A l \in Link : linkName[l] \in {Gone, Trash(l)} => l \in asked
  BY DEF NamesInv, NmAsked
<1>2. ASSUME \A c \in Caller : Unlinks(c), NEW l \in Link \ held, InTrash(l) PROVE FALSE
  <2>1. \A c \in Caller : nmCall[c].op = "unlink" /\ nmAt[c] = "done"
    BY <1>2 DEF Unlinks
  <2>2. ~Disposing(l) /\ ~Replacing
    BY <2>1 DEF Disposing, Replacing
  <2>3. l \in pending
    BY <1>2, <2>2 DEF NamesInv, NmTrash
  <2>4. l \in OpenLinks
    BY <1>2, <2>3, NamesDiffer DEF NamesInv, NmOpen, InTrash
  <2>5. \A c \in Caller : nmOld[c] # l /\ nmNew[c] # l
    BY <2>1, NamesAssumption DEF NamesInv, NmPhase
  <2> QED
    BY <1>2, <2>4, <2>5 DEF OpenLinks
<1> QED
  BY <1>1, <1>2 DEF NamesInv, NmUnique, LinksAccounted

-----------------------------------------------------------------------------
(***************************************************************************)
(* The steps keep it                                                       *)
(***************************************************************************)

\* A call returns with the names and the pending deletions it has made.
LEMMA ReturnStep ==
    ASSUME NamesInv, NEW c \in Caller, nmAt[c] \notin {"idle", "done"},
           NEW rv \in {-1, 0, 1}, NEW names, NEW pend,
           NmReturn(c, rv, names, pend), UNCHANGED <<held, nmCall, asked>>,
           \A l \in Link : l \in pend \/ names[l] \in {Gone, Trash(l)} => l \in asked,
           \A l \in Link :
                /\ NameOK(l, names[l])
                /\ names[l] # linkName[l] =>
                        \/ names[l] = Gone /\ l \notin OpenLinks
                        \/ names[l] # Gone /\ l \in {nmOld[c], nmNew[c]},
           \A k, l \in Link : (k # l /\ names[k] # Gone) => names[k] # names[l],
           pending \subseteq pend, pend \subseteq Link, pend \ pending \subseteq OpenLinks,
           \/ nmCall[c].op = "rename"
           \/ \A l \in Link : names[l] = Trash(l) =>
                l \in pend \/ Replacing \/ \E d \in Caller \ {c} : nmAt[d] = "dispose" /\ nmOld[d] = l
    PROVE  NamesInv'
<1> DEFINE mine == {nmOld[c], nmNew[c]}
           others == held \cup UNION {{nmOld[d], nmNew[d]} : d \in Caller \ {c}}
<1>1. /\ linkName' = [l \in Link |-> IF l \in (mine \cap pend) \ others THEN Gone ELSE names[l]]
      /\ pending' = pend
      /\ nmOld' = [nmOld EXCEPT ![c] = NoLink] /\ nmNew' = [nmNew EXCEPT ![c] = NoLink]
      /\ nmResult' = [nmResult EXCEPT ![c] = rv] /\ nmAt' = [nmAt EXCEPT ![c] = "done"]
  BY DEF NmReturn, NmGoto
<1>2. NmTypeOK
  BY DEF NamesInv
<1>3. /\ nmOld'[c] = NoLink /\ nmNew'[c] = NoLink /\ nmAt'[c] = "done"
      /\ \A d \in Caller \ {c} : nmOld'[d] = nmOld[d] /\ nmNew'[d] = nmNew[d] /\ nmAt'[d] = nmAt[d]
  BY <1>1, <1>2 DEF NmTypeOK
<1>4. \A l \in Link : linkName'[l] = IF l \in (mine \cap pend) \ others THEN Gone ELSE names[l]
  BY <1>1
<1>5. \A l \in Link : l \in OpenLinks <=> l \in mine \/ l \in others
  BY DEF OpenLinks
<1>6. \A l \in Link : (l \in OpenLinks)' <=> l \in others
  <2> SUFFICES ASSUME NEW l \in Link PROVE (l \in OpenLinks)' <=> l \in others
    OBVIOUS
  <2>1. l # NoLink
    BY NamesAssumption
  <2>2. (l \in OpenLinks)' <=> l \in held \/ \E d \in Caller : l = nmOld'[d] \/ l = nmNew'[d]
    BY DEF OpenLinks
  <2>3. l \in others <=> l \in held \/ \E d \in Caller \ {c} : l = nmOld[d] \/ l = nmNew[d]
    OBVIOUS
  <2> HIDE DEF others
  <2> QED
    BY <1>3, <2>1, <2>2, <2>3
<1> HIDE DEF mine, others
<1>7. NmTypeOK'
  <2>1. \A l \in Link : NameOK(l, linkName'[l])
    <3> SUFFICES ASSUME NEW l \in Link PROVE NameOK(l, linkName'[l])
      OBVIOUS
    <3>1. linkName'[l] = Gone \/ linkName'[l] = names[l]
      BY <1>4
    <3> QED
      BY <3>1 DEF NameOK
  <2>2. linkName' = [l \in Link |-> linkName'[l]]
    BY <1>1
  <2>3. /\ nmOld' \in [Caller -> Link \cup {NoLink}] /\ nmNew' \in [Caller -> Link \cup {NoLink}]
        /\ nmResult' \in [Caller -> {-1, 0, 1}]
    BY <1>1, <1>2 DEF NmTypeOK
  <2>4. nmAt' \in [Caller -> NmLabels]
    BY <1>1, <1>2 DEF NmTypeOK, NmLabels
  <2>5. pending' \subseteq Link /\ held' \subseteq Link /\ nmCall' \in [Caller -> NameCalls]
    BY <1>1, <1>2 DEF NmTypeOK
  <2> QED
    BY <2>1, <2>2, <2>3, <2>4, <2>5 DEF NmTypeOK
<1>8. NmPhase'
  BY <1>3 DEF NamesInv, NmPhase, Renaming, Trashing
<1>9. NmUnique'
  <2> SUFFICES ASSUME NEW k \in Link, NEW l \in Link, k # l, linkName'[k] # Gone
               PROVE  linkName'[k] # linkName'[l]
    BY DEF NmUnique, Gone
  <2> QED
    BY <1>4
<1>10. NmOpen'
  <2> SUFFICES ASSUME NEW l \in Link
               PROVE  /\ l \in others => linkName'[l] # Gone
                      /\ l \in pend => linkName'[l] = Gone \/ l \in others
    BY <1>1, <1>6 DEF NmOpen, Gone
  <2>1. ASSUME l \in others PROVE linkName'[l] # Gone
    <3>1. l \in OpenLinks /\ linkName[l] # Gone /\ linkName'[l] = names[l]
      BY <1>4, <1>5, <2>1 DEF NamesInv, NmOpen
    <3> QED
      BY <3>1
  <2>2. ASSUME l \in pend, l \notin others PROVE linkName'[l] = Gone
    <3>1. CASE l \in mine
      BY <1>4, <2>2, <3>1
    <3>2. CASE l \notin mine
      <4>1. l \notin OpenLinks /\ l \in pending
        BY <1>5, <2>2, <3>2
      <4>2. linkName[l] = Gone
        BY <4>1 DEF NamesInv, NmOpen
      <4>3. names[l] = Gone
        BY <3>2, <4>2 DEF mine
      <4> QED
        BY <1>4, <4>3
    <3> QED
      BY <3>1, <3>2
  <2> QED
    BY <2>1, <2>2
<1>11. nmCall[c].op \in {"rename", "unlink"}
  BY <1>2, NamesAssumption DEF NmTypeOK
<1>12. NmAsked'
  <2>1. \A l \in Link : l \in pending' \/ linkName'[l] \in {Gone, Trash(l)} => l \in asked'
    BY <1>1, <1>4
  <2>2. \A d \in Caller : nmAt'[d] \in Trashing \cup {"dispose"} => Target(d)' \in asked'
    BY <1>3 DEF NamesInv, NmAsked, Target, Trashing
  <2> QED
    BY <2>1, <2>2 DEF NmAsked, Gone, Trash
<1>13. NmTrash'
  <2>1. CASE nmCall[c].op = "rename"
    BY <1>3, <2>1 DEF NmTrash, Replacing
  <2>2. CASE nmCall[c].op # "rename"
    <3> SUFFICES ASSUME NEW l \in Link, linkName'[l] = Trash(l)
                 PROVE  l \in pend \/ Disposing(l)' \/ Replacing'
      BY <1>1 DEF NmTrash, InTrash, Trash
    <3>1. names[l] = Trash(l)
      BY <1>4, NamesDiffer
    <3>2. Replacing => Replacing'
      BY <1>3, <2>2 DEF Replacing
    <3>3. (\E d \in Caller \ {c} : nmAt[d] = "dispose" /\ nmOld[d] = l) => Disposing(l)'
      BY <1>3 DEF Disposing
    <3> QED
      BY <2>2, <3>1, <3>2, <3>3
  <2> QED
    BY <2>1, <2>2
<1> QED
  BY <1>7, <1>8, <1>9, <1>10, <1>12, <1>13 DEF NamesInv

\* A call returns and leaves the names as they are.
LEMMA PlainReturn ==
    ASSUME NamesInv, NEW c \in Caller, nmAt[c] \in Renaming \cup Trashing,
           NmReturn(c, -1, linkName, pending), UNCHANGED <<held, nmCall, asked>>
    PROVE  NamesInv'
<1> DEFINE names == linkName
           pend == pending
<1>1. nmAt[c] \notin {"idle", "done", "dispose"} /\ -1 \in {-1, 0, 1}
  BY DEF Renaming, Trashing
<1>2. \A l \in Link : NameOK(l, names[l]) /\ names[l] = linkName[l]
  BY DEF NamesInv, NmTypeOK
<1>3. \A k, l \in Link : (k # l /\ names[k] # Gone) => names[k] # names[l]
  BY DEF NamesInv, NmUnique
<1>4. pending \subseteq pend /\ pend \subseteq Link /\ pend \ pending \subseteq OpenLinks
  BY DEF NamesInv, NmTypeOK
<1>5. NmReturn(c, -1, names, pend)
  OBVIOUS
<1>6. \A k \in Link : names[k] = Trash(k) =>
          k \in pend \/ Replacing \/ \E d \in Caller \ {c} : nmAt[d] = "dispose" /\ nmOld[d] = k
  BY <1>1 DEF NamesInv, NmTrash, InTrash, Disposing
<1>7. \A l \in Link : l \in pend \/ names[l] \in {Gone, Trash(l)} => l \in asked
  BY DEF NamesInv, NmAsked
<1> HIDE DEF names, pend
<1> QED
  BY <1>1, <1>2, <1>3, <1>4, <1>5, <1>6, <1>7, ReturnStep

\* A rename succeeds: the name was free, or its own.
LEMMA RenamedStep ==
    ASSUME NamesInv, NEW c \in Caller, nmAt[c] \in Renaming, CanRename(nmOld[c], nmCall[c].to),
           NmReturn(c, 0, [linkName EXCEPT ![nmOld[c]] = nmCall[c].to], pending),
           UNCHANGED <<held, nmCall, asked>>
    PROVE  NamesInv'
<1> DEFINE to == nmCall[c].to
           old == nmOld[c]
           names == [linkName EXCEPT ![old] = to]
<1>1. /\ nmAt[c] \notin {"idle", "done"} /\ nmCall[c].op = "rename" /\ 0 \in {-1, 0, 1}
      /\ old \in Link /\ IsPathName(to)
  BY NamesAssumption DEF NamesInv, NmPhase, NmTypeOK, Renaming
<1>2. \A l \in Link : names[l] = IF l = old THEN to ELSE linkName[l]
  BY DEF NamesInv, NmTypeOK
<1>3. \A l \in Link \ {old} : linkName[l] # to
  BY DEF CanRename, Named
<1>4. to # Gone
  BY <1>1, NamesDiffer
<1>5. NmReturn(c, 0, names, pending)
  OBVIOUS
<1> HIDE DEF names
<1>6. \A l \in Link : /\ NameOK(l, names[l])
                      /\ names[l] # linkName[l] => names[l] # Gone /\ l \in {nmOld[c], nmNew[c]}
  BY <1>1, <1>2, <1>4 DEF NamesInv, NmTypeOK, NameOK
<1>7. \A k, l \in Link : (k # l /\ names[k] # Gone) => names[k] # names[l]
  BY <1>2, <1>3 DEF NamesInv, NmUnique
<1>8. pending \subseteq Link /\ pending \ pending \subseteq OpenLinks
  BY DEF NamesInv, NmTypeOK
<1>9. \A l \in Link : l \in pending \/ names[l] \in {Gone, Trash(l)} => l \in asked
  BY <1>1, <1>2, NamesDiffer DEF NamesInv, NmAsked
<1> QED
  BY <1>1, <1>5, <1>6, <1>7, <1>8, <1>9, ReturnStep

\* A call moves on, with a handle more, or fails at once.
LEMMA OpenedStep ==
    ASSUME NamesInv, NEW c \in Caller, UNCHANGED <<linkName, pending, held>>,
           NmTypeOK', NmPhase',
           \A d \in Caller \ {c} : /\ nmAt'[d] = nmAt[d] /\ nmCall'[d] = nmCall[d]
                                   /\ nmOld'[d] = nmOld[d] /\ nmNew'[d] = nmNew[d],
           nmAt[c] \in {"idle", "rename", "opennew", "volume"}, asked \subseteq asked',
           nmAt'[c] \in Trashing \cup {"dispose"} => Target(c)' \in asked',
           \A l \in Link : l \in {nmOld[c], nmNew[c]} => l \in {nmOld'[c], nmNew'[c]},
           \A l \in Link : l \in {nmOld'[c], nmNew'[c]} => linkName[l] # Gone
    PROVE  NamesInv'
<1>1. \A l \in Link : (l \in OpenLinks) => (l \in OpenLinks)'
  BY DEF OpenLinks
<1>2. \A l \in Link : (l \in OpenLinks)' => l \in OpenLinks \/ l \in {nmOld'[c], nmNew'[c]}
  BY DEF OpenLinks
<1>3. NmUnique'
  BY DEF NamesInv, NmUnique, Gone
<1>4. NmOpen'
  <2> SUFFICES ASSUME NEW l \in Link
               PROVE  /\ (l \in OpenLinks)' => linkName[l] # Gone
                      /\ l \in pending => linkName[l] = Gone \/ (l \in OpenLinks)'
    BY DEF NmOpen, Gone
  <2> QED
    BY <1>1, <1>2 DEF NamesInv, NmOpen
<1>5. \A d \in Caller \ {c} : Target(d)' = Target(d)
  BY DEF Target
<1>8. Replacing => Replacing'
  <2> SUFFICES ASSUME Replacing PROVE Replacing'
    OBVIOUS
  <2>1. PICK d \in Caller : nmCall[d].op = "rename" /\ nmAt[d] \in {"retry", "done"}
    BY DEF Replacing
  <2>2. d # c
    BY <2>1
  <2> QED
    BY <2>1, <2>2 DEF Replacing
<1>9. \A l \in Link : Disposing(l) => Disposing(l)'
  <2> SUFFICES ASSUME NEW l \in Link, NEW d \in Caller, nmAt[d] = "dispose", nmOld[d] = l
               PROVE  \E e \in Caller : nmAt'[e] = "dispose" /\ nmOld'[e] = l
    BY DEF Disposing
  <2>1. d # c
    OBVIOUS
  <2> QED
    BY <2>1
<1>10. NmAsked'
  <2>1. \A l \in Link : l \in pending \/ linkName[l] \in {Gone, Trash(l)} => l \in asked'
    BY DEF NamesInv, NmAsked
  <2>2. \A d \in Caller : nmAt'[d] \in Trashing \cup {"dispose"} => Target(d)' \in asked'
    BY <1>5 DEF NamesInv, NmAsked
  <2> QED
    BY <2>1, <2>2 DEF NmAsked, Gone, Trash
<1>11. NmTrash'
  <2> SUFFICES ASSUME NEW l \in Link, linkName[l] = Trash(l)
               PROVE  l \in pending \/ Disposing(l)' \/ Replacing'
    BY DEF NmTrash, InTrash, Trash
  <2> QED
    BY <1>8, <1>9 DEF NamesInv, NmTrash, InTrash
<1> QED
  BY <1>3, <1>4, <1>10, <1>11 DEF NamesInv

LEMMA OpenOldStep == ASSUME NamesInv, NEW c \in Caller, OpenOld(c) PROVE NamesInv'
<1>1. PICK x \in NameCalls :
        LET links == Named(x.path) \ pending
        IN  /\ nmCall' = [nmCall EXCEPT ![c] = x]
            /\ IF links = {}
               THEN /\ nmResult' = [nmResult EXCEPT ![c] = -1]
                    /\ NmGoto(c, "done") /\ UNCHANGED <<nmOld, asked>>
               ELSE /\ \E l \in links :
                        /\ nmOld' = [nmOld EXCEPT ![c] = l]
                        /\ asked' = IF x.op = "unlink" THEN asked \cup {l} ELSE asked
                    /\ NmGoto(c, IF x.op = "rename" THEN "rename" ELSE "volume")
                    /\ UNCHANGED nmResult
  BY DEF OpenOld
<1>2. nmAt[c] = "idle" /\ UNCHANGED <<linkName, pending, held, nmNew, volumes>>
  BY DEF OpenOld, At
<1>3. NmTypeOK /\ nmOld[c] = NoLink /\ nmNew[c] = NoLink
  BY <1>2 DEF NamesInv, NmPhase
<1>4. x.op \in {"rename", "unlink"} /\ IsPathName(x.path)
  BY NamesAssumption
<1>5. CASE Named(x.path) \ pending = {}
  <2>1. /\ nmCall' = [nmCall EXCEPT ![c] = x] /\ nmOld' = nmOld /\ asked' = asked
        /\ nmAt' = [nmAt EXCEPT ![c] = "done"] /\ nmResult' = [nmResult EXCEPT ![c] = -1]
    BY <1>1, <1>5 DEF NmGoto
  <2>2. nmCall'[c] = x /\ nmAt'[c] = "done"
    BY <1>3, <2>1 DEF NmTypeOK
  <2>3. NmTypeOK'
    <3>1. nmAt' \in [Caller -> NmLabels]
      BY <1>3, <2>1 DEF NmTypeOK, NmLabels
    <3> QED
      BY <1>2, <1>3, <2>1, <3>1 DEF NmTypeOK
  <2>4. \A d \in Caller \ {c} : /\ nmAt'[d] = nmAt[d] /\ nmCall'[d] = nmCall[d]
                               /\ nmOld'[d] = nmOld[d] /\ nmNew'[d] = nmNew[d]
    BY <1>2, <1>3, <2>1 DEF NmTypeOK
  <2>5. NmPhase'
    BY <1>2, <1>3, <2>1, <2>2, <2>4 DEF NamesInv, NmPhase, Renaming, Trashing
  <2>6. NoLink \notin Link /\ nmAt'[c] \notin Trashing \cup {"dispose"} /\ asked \subseteq asked'
    BY <2>1, <2>2, NamesAssumption DEF Trashing
  <2>7. nmOld'[c] = NoLink /\ nmNew'[c] = NoLink
    BY <1>2, <1>3, <2>1
  <2> QED
    BY <1>2, <1>3, <2>3, <2>4, <2>5, <2>6, <2>7, OpenedStep
<1>6. CASE Named(x.path) \ pending # {}
  <2>1. PICK l \in Named(x.path) \ pending :
            /\ nmOld' = [nmOld EXCEPT ![c] = l]
            /\ asked' = IF x.op = "unlink" THEN asked \cup {l} ELSE asked
    BY <1>1, <1>6
  <2>2. /\ nmCall' = [nmCall EXCEPT ![c] = x] /\ nmResult' = nmResult
        /\ nmAt' = [nmAt EXCEPT ![c] = IF x.op = "rename" THEN "rename" ELSE "volume"]
    BY <1>1, <1>6 DEF NmGoto
  <2>3. l \in Link /\ linkName[l] # Gone
    BY <1>4, <2>1, NamesDiffer DEF Named
  <2>4. /\ nmCall'[c] = x /\ nmOld'[c] = l /\ nmNew'[c] = NoLink
        /\ nmAt'[c] = IF x.op = "rename" THEN "rename" ELSE "volume"
    BY <1>2, <1>3, <2>1, <2>2 DEF NmTypeOK
  <2>5. NmTypeOK'
    <3>1. nmAt' \in [Caller -> NmLabels]
      BY <1>3, <2>2 DEF NmTypeOK, NmLabels, Renaming, Trashing
    <3> QED
      BY <1>2, <1>3, <2>1, <2>2, <2>3, <3>1 DEF NmTypeOK
  <2>6. \A d \in Caller \ {c} : /\ nmAt'[d] = nmAt[d] /\ nmCall'[d] = nmCall[d]
                               /\ nmOld'[d] = nmOld[d] /\ nmNew'[d] = nmNew[d]
    BY <1>2, <1>3, <2>1, <2>2 DEF NmTypeOK
  <2>7. NmPhase'
    BY <1>2, <1>4, <2>3, <2>4, <2>6 DEF NamesInv, NmPhase, Renaming, Trashing
  <2>8. NoLink \notin Link /\ asked \subseteq asked'
    BY <2>1, NamesAssumption
  <2>9. nmAt'[c] \in Trashing \cup {"dispose"} => Target(c)' \in asked'
    BY <1>4, <2>1, <2>4 DEF Target, Trashing
  <2> QED
    BY <1>2, <1>3, <2>3, <2>4, <2>5, <2>6, <2>7, <2>8, <2>9, OpenedStep
<1> QED
  BY <1>5, <1>6

\* A rename that is refused goes on to open what is in the way.
LEMMA TryRenameStep == ASSUME NamesInv, NEW c \in Caller, TryRename(c) PROVE NamesInv'
<1>1. nmAt[c] = "rename" /\ nmAt[c] \in Renaming /\ UNCHANGED <<held, nmCall, asked>> /\ NmTypeOK
  BY DEF TryRename, At, Renaming, NamesInv
<1>2. CASE /\ CanRename(nmOld[c], nmCall[c].to)
           /\ NmReturn(c, 0, [linkName EXCEPT ![nmOld[c]] = nmCall[c].to], pending)
  BY <1>1, <1>2, RenamedStep
<1>3. CASE NmGoto(c, "opennew") /\ UNCHANGED <<linkName, pending, nmOld, nmNew, nmResult>>
  <2>1. nmAt' = [nmAt EXCEPT ![c] = "opennew"] /\ nmAt'[c] = "opennew"
    BY <1>1, <1>3 DEF NmGoto, NmTypeOK
  <2>2. NmTypeOK'
    <3>1. nmAt' \in [Caller -> NmLabels]
      BY <1>1, <2>1 DEF NmTypeOK, NmLabels, Renaming
    <3> QED
      BY <1>1, <1>3, <3>1 DEF NmTypeOK
  <2>3. \A d \in Caller \ {c} : /\ nmAt'[d] = nmAt[d] /\ nmCall'[d] = nmCall[d]
                               /\ nmOld'[d] = nmOld[d] /\ nmNew'[d] = nmNew[d]
    BY <1>1, <1>3, <2>1 DEF NmTypeOK
  <2>4. NmPhase'
    BY <1>1, <1>3, <2>1, <2>3 DEF NamesInv, NmPhase, Renaming, Trashing
  <2>5. nmAt'[c] \notin Trashing \cup {"dispose"} /\ asked \subseteq asked'
    BY <1>1, <2>1 DEF Trashing
  <2>6. \A l \in Link : l \in {nmOld'[c], nmNew'[c]} => linkName[l] # Gone
    BY <1>3 DEF NamesInv, NmOpen, OpenLinks
  <2> QED
    BY <1>1, <1>3, <2>2, <2>3, <2>4, <2>5, <2>6, OpenedStep
<1> QED
  BY <1>2, <1>3 DEF TryRename

LEMMA OpenNewStep == ASSUME NamesInv, NEW c \in Caller, OpenNew(c) PROVE NamesInv'
<1>1. nmAt[c] = "opennew" /\ nmAt[c] \in Renaming /\ UNCHANGED <<held, nmCall>> /\ NmTypeOK
      /\ nmCall[c].op = "rename"
  BY DEF NmPhase, OpenNew, At, Renaming, NamesInv
<1>2. CASE Named(nmCall[c].to) \ pending = {}
  <2>1. NmReturn(c, -1, linkName, pending) /\ asked' = asked
    BY <1>2 DEF OpenNew
  <2> QED
    BY <1>1, <2>1, PlainReturn
<1>3. CASE Named(nmCall[c].to) \ pending # {}
  <2>1. PICK l \in Named(nmCall[c].to) \ pending :
            nmNew' = [nmNew EXCEPT ![c] = l] /\ asked' = asked \cup {l}
    BY <1>3 DEF OpenNew
  <2>2. /\ nmAt' = [nmAt EXCEPT ![c] = "volume"] /\ nmAt'[c] = "volume"
        /\ UNCHANGED <<linkName, pending, nmOld, nmResult>>
    BY <1>1, <1>3 DEF OpenNew, NmGoto, NmTypeOK
  <2>3. l \in Link /\ linkName[l] # Gone /\ nmNew'[c] = l
    <3>1. IsPathName(nmCall[c].to)
      BY <1>1, NamesAssumption DEF NmTypeOK
    <3>2. linkName[l] = nmCall[c].to /\ l \in Link
      BY <2>1 DEF Named
    <3> QED
      BY <1>1, <2>1, <3>1, <3>2, NamesDiffer DEF NmTypeOK
  <2>4. NmTypeOK'
    <3>1. nmAt' \in [Caller -> NmLabels]
      BY <1>1, <2>2 DEF NmTypeOK, NmLabels, Trashing
    <3> QED
      BY <1>1, <2>1, <2>2, <2>3, <3>1 DEF NmTypeOK
  <2>5. \A d \in Caller \ {c} : /\ nmAt'[d] = nmAt[d] /\ nmCall'[d] = nmCall[d]
                               /\ nmOld'[d] = nmOld[d] /\ nmNew'[d] = nmNew[d]
    BY <1>1, <2>1, <2>2 DEF NmTypeOK
  <2>6. NmPhase'
    BY <1>1, <2>2, <2>3, <2>5 DEF NamesInv, NmPhase, Renaming, Trashing
  <2>7. asked \subseteq asked' /\ Target(c)' \in asked'
    BY <1>1, <2>1, <2>3 DEF Target
  <2>8. \A k \in Link : k \in {nmOld'[c], nmNew'[c]} => linkName[k] # Gone
    BY <2>2, <2>3 DEF NamesInv, NmOpen, OpenLinks
  <2>9. nmNew[c] = NoLink /\ NoLink \notin Link
    BY <1>1, NamesAssumption DEF NamesInv, NmPhase, Trashing
  <2> QED
    BY <1>1, <2>2, <2>4, <2>5, <2>6, <2>7, <2>8, <2>9, OpenedStep
<1> QED
  BY <1>2, <1>3

\* The trash of the volume is found, or there is none.
LEMMA FindTrashStep == ASSUME NamesInv, NEW c \in Caller, FindTrash(c) PROVE NamesInv'
<1>1. nmAt[c] = "volume" /\ nmAt[c] \in Trashing /\ UNCHANGED <<held, nmCall, asked>> /\ NmTypeOK
  BY DEF FindTrash, At, Trashing, NamesInv
<1>2. CASE NmReturn(c, -1, linkName, pending)
  BY <1>1, <1>2, PlainReturn
<1>3. CASE NmGoto(c, "scrub") /\ UNCHANGED <<linkName, pending, nmOld, nmNew, nmResult>>
  <2>1. nmAt' = [nmAt EXCEPT ![c] = "scrub"] /\ nmAt'[c] = "scrub"
    BY <1>1, <1>3 DEF NmGoto, NmTypeOK
  <2>2. NmTypeOK'
    <3>1. nmAt' \in [Caller -> NmLabels]
      BY <1>1, <2>1 DEF NmTypeOK, NmLabels, Trashing
    <3> QED
      BY <1>1, <1>3, <3>1 DEF NmTypeOK
  <2>3. \A d \in Caller \ {c} : /\ nmAt'[d] = nmAt[d] /\ nmCall'[d] = nmCall[d]
                               /\ nmOld'[d] = nmOld[d] /\ nmNew'[d] = nmNew[d]
    BY <1>1, <1>3, <2>1 DEF NmTypeOK
  <2>4. NmPhase'
    BY <1>1, <1>3, <2>1, <2>3 DEF NamesInv, NmPhase, Renaming, Trashing
  <2>5. Target(c)' \in asked' /\ asked \subseteq asked'
    BY <1>1, <1>3 DEF NamesInv, NmAsked, Target
  <2>6. \A l \in Link : l \in {nmOld'[c], nmNew'[c]} => linkName[l] # Gone
    BY <1>3 DEF NamesInv, NmOpen, OpenLinks
  <2> QED
    BY <1>1, <1>3, <2>2, <2>3, <2>4, <2>5, <2>6, OpenedStep
<1> QED
  BY <1>2, <1>3 DEF FindTrash

\* A file of the trash is deleted, at once or when it is closed.
LEMMA ScrubStep == ASSUME NamesInv, NEW c \in Caller, ScrubOne(c) PROVE NamesInv'
<1>1. PICK l \in Link : /\ InTrash(l) /\ l \notin pending
                       /\ IF l \in OpenLinks
                          THEN pending' = pending \cup {l} /\ UNCHANGED linkName
                          ELSE linkName' = [linkName EXCEPT ![l] = Gone] /\ UNCHANGED pending
  BY DEF ScrubOne
<1>2. UNCHANGED <<held, nmAt, nmCall, nmOld, nmNew, nmResult, asked>> /\ NmTypeOK
  BY DEF ScrubOne, NamesInv
<1>3. /\ \A k \in Link : linkName'[k] = IF k = l /\ l \notin OpenLinks THEN Gone ELSE linkName[k]
      /\ \A k \in Link : k \in pending' <=> k \in pending \/ (k = l /\ l \in OpenLinks)
      /\ pending' \subseteq Link /\ linkName' = [k \in Link |-> linkName'[k]]
  BY <1>1, <1>2 DEF NmTypeOK
<1>4. OpenLinks' = OpenLinks /\ l \in asked
  BY <1>1, <1>2 DEF OpenLinks, NamesInv, NmAsked, InTrash
<1>5. NmTypeOK'
  <2>1. \A k \in Link : NameOK(k, linkName'[k])
    BY <1>2, <1>3 DEF NmTypeOK, NameOK
  <2> QED
    BY <1>2, <1>3, <2>1 DEF NmTypeOK
<1>6. NmPhase'
  BY <1>2 DEF NamesInv, NmPhase
<1>7. NmUnique'
  <2> SUFFICES ASSUME NEW k \in Link, NEW j \in Link, k # j, linkName'[k] # Gone
               PROVE  linkName'[k] # linkName'[j]
    BY DEF NmUnique, Gone
  <2> QED
    BY <1>3 DEF NamesInv, NmUnique
<1>8. NmOpen'
  <2> SUFFICES ASSUME NEW k \in Link
               PROVE  /\ k \in OpenLinks => linkName'[k] # Gone
                      /\ k \in pending' => linkName'[k] = Gone \/ k \in OpenLinks
    BY <1>4 DEF NmOpen, Gone
  <2> QED
    BY <1>3 DEF NamesInv, NmOpen
<1>9. NmAsked'
  <2>1. \A k \in Link : k \in pending' \/ linkName'[k] \in {Gone, Trash(k)} => k \in asked
    BY <1>3, <1>4 DEF NamesInv, NmAsked
  <2>2. \A d \in Caller : nmAt[d] \in Trashing \cup {"dispose"} => Target(d)' \in asked
    BY <1>2 DEF NamesInv, NmAsked, Target
  <2> QED
    BY <1>2, <2>1, <2>2 DEF NmAsked, Gone, Trash
<1>10. NmTrash'
  <2> SUFFICES ASSUME NEW k \in Link, linkName'[k] = Trash(k)
               PROVE  k \in pending' \/ Disposing(k)' \/ Replacing'
    BY DEF NmTrash, InTrash, Trash
  <2>1. linkName[k] = Trash(k)
    BY <1>3, NamesDiffer
  <2>2. (Disposing(k)' <=> Disposing(k)) /\ (Replacing' <=> Replacing)
    BY <1>2 DEF Disposing, Replacing
  <2> QED
    BY <1>3, <2>1, <2>2 DEF NamesInv, NmTrash, InTrash
<1> QED
  BY <1>5, <1>6, <1>7, <1>8, <1>9, <1>10 DEF NamesInv

\* The link is renamed to its name in the trash, if that is free.
LEMMA ToTrashStep == ASSUME NamesInv, NEW c \in Caller, RenameToTrash(c) PROVE NamesInv'
<1>1. nmAt[c] = "scrub" /\ nmAt[c] \in Trashing /\ UNCHANGED <<held, nmCall, asked>> /\ NmTypeOK
  BY DEF RenameToTrash, At, Trashing, NamesInv
<1>2. CASE NmReturn(c, -1, linkName, pending)
  BY <1>1, <1>2, PlainReturn
<1> SUFFICES ASSUME ~NmReturn(c, -1, linkName, pending) PROVE NamesInv'
  BY <1>2
<1>3. PICK l : l = Target(c)
  OBVIOUS
<1>4. nmCall[c].op \in {"rename", "unlink"}
  BY <1>1, NamesAssumption DEF NmTypeOK
<1>5. /\ l \in Link /\ l \in asked /\ l \in {nmOld[c], nmNew[c]}
      /\ nmCall[c].op = "unlink" => l = nmOld[c]
  BY <1>1, <1>3, <1>4 DEF NamesInv, NmPhase, NmAsked, Target, Trashing
<1>6. /\ Named(Trash(l)) \subseteq {l} /\ l \notin pending
      /\ linkName' = [linkName EXCEPT ![l] = Trash(l)]
      /\ nmAt' = [nmAt EXCEPT ![c] = IF nmCall[c].op = "rename" THEN "retry" ELSE "dispose"]
      /\ UNCHANGED <<pending, nmOld, nmNew, nmResult>>
  BY <1>3 DEF RenameToTrash, NmGoto
<1>7. /\ \A k \in Link : linkName'[k] = IF k = l THEN Trash(l) ELSE linkName[k]
      /\ linkName' = [k \in Link |-> linkName'[k]]
      /\ \A k \in Link \ {l} : linkName[k] # Trash(l)
  BY <1>1, <1>5, <1>6 DEF NmTypeOK, Named
<1>8. /\ nmAt'[c] = IF nmCall[c].op = "rename" THEN "retry" ELSE "dispose"
      /\ \A d \in Caller \ {c} : nmAt'[d] = nmAt[d]
      /\ nmAt' \in [Caller -> NmLabels]
  BY <1>1, <1>6 DEF NmTypeOK, NmLabels, Renaming
<1>9. OpenLinks' = OpenLinks /\ l \in OpenLinks
  BY <1>1, <1>5, <1>6 DEF OpenLinks
<1>10. NmTypeOK'
  <2>1. \A k \in Link : NameOK(k, linkName'[k])
    BY <1>1, <1>7 DEF NmTypeOK, NameOK
  <2> QED
    BY <1>1, <1>6, <1>7, <1>8, <2>1 DEF NmTypeOK
<1>11. NmPhase'
  BY <1>1, <1>4, <1>6, <1>8 DEF NamesInv, NmPhase, Renaming, Trashing
<1>12. NmUnique'
  <2> SUFFICES ASSUME NEW k \in Link, NEW j \in Link, k # j, linkName'[k] # Gone
               PROVE  linkName'[k] # linkName'[j]
    BY DEF NmUnique, Gone
  <2> QED
    BY <1>7 DEF NamesInv, NmUnique
<1>13. NmOpen'
  <2> SUFFICES ASSUME NEW k \in Link
               PROVE  /\ k \in OpenLinks => linkName'[k] # Gone
                      /\ k \in pending => linkName'[k] = Gone \/ k \in OpenLinks
    BY <1>6, <1>9 DEF NmOpen, Gone
  <2> QED
    BY <1>6, <1>7, <1>9, NamesDiffer DEF NamesInv, NmOpen
<1>14. NmAsked'
  <2>1. \A k \in Link : k \in pending' \/ linkName'[k] \in {Gone, Trash(k)} => k \in asked'
    BY <1>1, <1>5, <1>6, <1>7 DEF NamesInv, NmAsked
  <2>2. \A d \in Caller : nmAt'[d] \in Trashing \cup {"dispose"} => Target(d)' \in asked'
    BY <1>1, <1>6, <1>8 DEF NamesInv, NmAsked, Target, Trashing
  <2> QED
    BY <2>1, <2>2 DEF NmAsked, Gone, Trash
<1>15. NmTrash'
  <2>1. CASE nmCall[c].op = "rename"
    BY <1>1, <1>8, <2>1 DEF NmTrash, Replacing
  <2>2. CASE nmCall[c].op = "unlink"
    <3> SUFFICES ASSUME NEW k \in Link, linkName'[k] = Trash(k)
                 PROVE  k \in pending \/ Disposing(k)' \/ Replacing'
      BY <1>6 DEF NmTrash, InTrash, Trash
    <3>1. CASE k = l
      BY <1>5, <1>6, <1>8, <2>2, <3>1 DEF Disposing
    <3>2. CASE k # l
      <4>1. k \in pending \/ Disposing(k) \/ Replacing
        BY <1>7, <3>2 DEF NamesInv, NmTrash, InTrash
      <4>2. Disposing(k) => Disposing(k)'
        BY <1>1, <1>6, <1>8 DEF Disposing
      <4>3. Replacing => Replacing'
        BY <1>1, <1>8, <2>2 DEF Replacing
      <4> QED
        BY <4>1, <4>2, <4>3
    <3> QED
      BY <3>1, <3>2
  <2> QED
    BY <1>4, <2>1, <2>2
<1> QED
  BY <1>10, <1>11, <1>12, <1>13, <1>14, <1>15 DEF NamesInv

LEMMA RetryStep == ASSUME NamesInv, NEW c \in Caller, RetryRename(c) PROVE NamesInv'
<1>1. nmAt[c] \in Renaming /\ UNCHANGED <<held, nmCall, asked>>
  BY DEF RetryRename, At, Renaming
<1>2. CASE /\ CanRename(nmOld[c], nmCall[c].to)
           /\ NmReturn(c, 0, [linkName EXCEPT ![nmOld[c]] = nmCall[c].to], pending)
  BY <1>1, <1>2, RenamedStep
<1>3. CASE NmReturn(c, -1, linkName, pending)
  BY <1>1, <1>3, PlainReturn
<1> QED
  BY <1>2, <1>3 DEF RetryRename

LEMMA DisposeStep == ASSUME NamesInv, NEW c \in Caller, Dispose(c) PROVE NamesInv'
<1> DEFINE names == linkName
           pend == pending \cup {nmOld[c]}
<1>1. nmAt[c] = "dispose" /\ UNCHANGED <<held, nmCall, asked>> /\ NmReturn(c, 0, names, pend)
  BY DEF Dispose, At
<1>2. nmOld[c] \in Link /\ nmOld[c] \in OpenLinks /\ nmOld[c] \in asked
  BY <1>1 DEF NamesInv, NmPhase, OpenLinks, NmAsked, Target
<1>3. /\ nmAt[c] \notin {"idle", "done"} /\ 0 \in {-1, 0, 1}
      /\ \A k \in Link : NameOK(k, names[k]) /\ names[k] = linkName[k]
      /\ \A k, j \in Link : (k # j /\ names[k] # Gone) => names[k] # names[j]
      /\ pending \subseteq pend /\ pend \subseteq Link /\ pend \ pending \subseteq OpenLinks
  BY <1>1, <1>2 DEF NamesInv, NmTypeOK, NmUnique
<1>4. \A k \in Link : names[k] = Trash(k) =>
          k \in pend \/ Replacing \/ \E d \in Caller \ {c} : nmAt[d] = "dispose" /\ nmOld[d] = k
  <2> SUFFICES ASSUME NEW k \in Link, linkName[k] = Trash(k), k # nmOld[c]
               PROVE  k \in pending \/ Replacing
                      \/ \E d \in Caller \ {c} : nmAt[d] = "dispose" /\ nmOld[d] = k
    OBVIOUS
  <2>1. k \in pending \/ Disposing(k) \/ Replacing
    BY DEF NamesInv, NmTrash, InTrash
  <2> QED
    BY <2>1 DEF Disposing
<1>5. \A l \in Link : l \in pend \/ names[l] \in {Gone, Trash(l)} => l \in asked
  BY <1>2 DEF NamesInv, NmAsked
<1> HIDE DEF names, pend
<1> QED
  BY <1>1, <1>3, <1>4, <1>5, ReturnStep

\* The other program closes a file.
LEMMA ReleaseStep == ASSUME NamesInv, NEW l \in Link, Release(l) PROVE NamesInv'
<1> DEFINE last == l \in pending /\ \A c \in Caller : l \notin {nmOld[c], nmNew[c]}
<1>1. /\ l \in held /\ held' = held \ {l}
      /\ linkName' = IF last THEN [linkName EXCEPT ![l] = Gone] ELSE linkName
      /\ UNCHANGED <<pending, nmAt, nmCall, nmOld, nmNew, nmResult, asked>>
  BY DEF Release
<1>2. NmTypeOK
  BY DEF NamesInv
<1>3. \A k \in Link : linkName'[k] = IF last /\ k = l THEN Gone ELSE linkName[k]
  BY <1>1, <1>2 DEF NmTypeOK
<1>4. /\ \A k \in Link : (k \in OpenLinks)' => k \in OpenLinks
      /\ \A k \in Link \ {l} : (k \in OpenLinks)' <=> k \in OpenLinks
      /\ last => ~(l \in OpenLinks)'
      /\ l \in pending /\ ~last => (l \in OpenLinks)'
  BY <1>1 DEF OpenLinks
<1> HIDE DEF last
<1>5. NmTypeOK'
  <2>1. \A k \in Link : NameOK(k, linkName'[k])
    BY <1>2, <1>3 DEF NmTypeOK, NameOK
  <2>2. linkName' = [k \in Link |-> linkName'[k]]
    BY <1>1, <1>2 DEF NmTypeOK
  <2> QED
    BY <1>1, <1>2, <2>1, <2>2 DEF NmTypeOK
<1>6. NmPhase'
  BY <1>1 DEF NamesInv, NmPhase
<1>7. NmUnique'
  <2> SUFFICES ASSUME NEW k \in Link, NEW j \in Link, k # j, linkName'[k] # Gone
               PROVE  linkName'[k] # linkName'[j]
    BY DEF NmUnique, Gone
  <2> QED
    BY <1>3 DEF NamesInv, NmUnique
<1>8. NmOpen'
  <2> SUFFICES ASSUME NEW k \in Link
               PROVE  /\ (k \in OpenLinks)' => linkName'[k] # Gone
                      /\ k \in pending => linkName'[k] = Gone \/ (k \in OpenLinks)'
    BY <1>1 DEF NmOpen, Gone
  <2>1. CASE k = l
    BY <1>3, <1>4, <2>1 DEF NamesInv, NmOpen
  <2>2. CASE k # l
    BY <1>3, <1>4, <2>2 DEF NamesInv, NmOpen
  <2> QED
    BY <2>1, <2>2
<1>9. Replacing' <=> Replacing
  BY <1>1 DEF Replacing
<1>10. NmAsked'
  <2>1. last => l \in pending
    BY DEF last
  <2>2. \A k \in Link : k \in pending \/ linkName'[k] \in {Gone, Trash(k)} => k \in asked
    BY <1>3, <2>1 DEF NamesInv, NmAsked
  <2>3. \A d \in Caller : nmAt[d] \in Trashing \cup {"dispose"} => Target(d)' \in asked
    BY <1>1 DEF NamesInv, NmAsked, Target
  <2> QED
    BY <1>1, <2>2, <2>3 DEF NmAsked, Gone, Trash
<1>11. NmTrash'
  <2> SUFFICES ASSUME NEW k \in Link, linkName'[k] = Trash(k)
               PROVE  k \in pending \/ Disposing(k)' \/ Replacing'
    BY <1>1 DEF NmTrash, InTrash, Trash
  <2>1. linkName[k] = Trash(k)
    BY <1>3, NamesDiffer
  <2>2. Disposing(k)' <=> Disposing(k)
    BY <1>1 DEF Disposing
  <2> QED
    BY <1>9, <2>1, <2>2 DEF NamesInv, NmTrash, InTrash
<1> QED
  BY <1>5, <1>6, <1>7, <1>8, <1>10, <1>11 DEF NamesInv

LEMMA NamesStep == ASSUME NamesInv, [NamesNext]_nameVars PROVE NamesInv'
<1>1. CASE UNCHANGED nameVars
  <2>1. UNCHANGED <<linkName, pending, held, nmAt, nmCall, nmOld, nmNew, nmResult, asked>>
    BY <1>1 DEF nameVars
  <2>2. NmTypeOK'
    BY <2>1 DEF NamesInv, NmTypeOK
  <2>3. NmPhase' /\ NmUnique'
    BY <2>1 DEF NamesInv, NmPhase, NmUnique
  <2>4. NmOpen'
    BY <2>1 DEF NamesInv, NmOpen, OpenLinks
  <2>5. NmAsked'
    BY <2>1 DEF NamesInv, NmAsked, Target
  <2>6. NmTrash'
    BY <2>1 DEF NamesInv, NmTrash, InTrash, Disposing, Replacing
  <2> QED
    BY <2>2, <2>3, <2>4, <2>5, <2>6 DEF NamesInv
<1> QED
  BY <1>1, OpenOldStep, TryRenameStep, OpenNewStep, FindTrashStep, ScrubStep, ToTrashStep,
     RetryStep, DisposeStep, ReleaseStep DEF NamesNext

-----------------------------------------------------------------------------
(***************************************************************************)
(* mm_rename() and mm_unlink() lose no file, for any number of threads and *)
(* of links, hard links and several volumes included, whatever a rename is *)
(* refused for: two files never have one name, a file that is deleted or   *)
(* in the trash was opened by a call to be removed or replaced, and when   *)
(* every call has unlinked its file nothing that could be deleted is left  *)
(* in the trash.                                                           *)
(***************************************************************************)
THEOREM LinksKept == NamesSpec => []LinksAccounted
<1>1. NamesInit => NamesInv
  BY InitNamesInv
<1>2. NamesInv /\ [NamesNext]_nameVars => NamesInv'
  BY NamesStep
<1>3. NamesInv => LinksAccounted
  BY LinksRight
<1> QED
  BY <1>1, <1>2, <1>3, PTL DEF NamesSpec

-----------------------------------------------------------------------------
(***************************************************************************)
(* mm_basename() and mm_dirname()                                          *)
(***************************************************************************)
PathSpec == PathInit /\ [][PathNext]_pathVars

LEMMA GreatestIs ==
    ASSUME NEW n \in Nat, NEW S, S \subseteq 0 .. n, NEW d
    PROVE  /\ S = {} => Greatest(S, d) = d
           /\ S # {} => Greatest(S, d) \in S /\ \A j \in S : j <= Greatest(S, d)
<1>1. S = {} => Greatest(S, d) = d
  BY DEF Greatest
<1>2. ASSUME S # {} PROVE \E i \in S : \A j \in S : j <= i
  <2> SUFFICES ASSUME \A i \in S : \E j \in S : ~(j <= i) PROVE FALSE
    OBVIOUS
  <2> DEFINE T == {m \in Nat : \E j \in S : j >= m}
  <2>1. 0 \in T
    <3>1. PICK j : j \in S
      BY <1>2
    <3>2. j \in Nat /\ j >= 0
      BY <3>1
    <3> QED
      BY <3>1, <3>2
  <2>2. ASSUME NEW m \in Nat, m \in T PROVE m + 1 \in T
    <3>1. PICK i \in S : i >= m
      BY <2>2
    <3>2. PICK j \in S : ~(j <= i)
      OBVIOUS
    <3>3. i \in Nat /\ j \in Nat
      OBVIOUS
    <3>4. j >= m + 1
      BY <3>1, <3>2, <3>3
    <3> QED
      BY <3>4
  <2> HIDE DEF T
  <2>3. n + 1 \in T
    BY <2>1, <2>2, SetInduction
  <2> QED
    BY <2>3 DEF T
<1>3. ASSUME S # {} PROVE Greatest(S, d) \in S /\ \A j \in S : j <= Greatest(S, d)
  <2> DEFINE Q(i) == i \in S /\ \A j \in S : j <= i
  <2>1. \E i : Q(i)
    BY <1>2, <1>3
  <2>2. Greatest(S, d) = CHOOSE i : Q(i)
    BY <1>3 DEF Greatest
  <2> HIDE DEF Q
  <2>3. Q(Greatest(S, d))
    BY <2>1, <2>2
  <2> QED
    BY <2>3 DEF Q
<1> QED
  BY <1>1, <1>3

\* Where the last name of a path ends, and where it begins.
LEMMA LastIs ==
    ASSUME NEW C, NEW path \in Seq(C), path # <<>>
    PROVE  /\ Len(path) \in Nat /\ Len(path) > 0
           /\ get_last_nonsep_ptr(path) \in 1 .. Len(path)
           /\ get_last_nonsep_ptr(path) > 1 => path[get_last_nonsep_ptr(path)] \notin PathSeparators
           /\ \A i \in 1 .. Len(path) : i > get_last_nonsep_ptr(path) => path[i] \in PathSeparators
<1> DEFINE S == {i \in 2 .. Len(path) : ~is_path_separator(path[i])}
           last == get_last_nonsep_ptr(path)
<1>1. Len(path) \in Nat /\ Len(path) > 0
  OBVIOUS
<1>2. last = Greatest(S, 1)
  BY DEF get_last_nonsep_ptr
<1>3. S \subseteq 0 .. Len(path)
  BY <1>1
<1>4. \A i \in 1 .. Len(path) : i \in S <=> i # 1 /\ path[i] \notin PathSeparators
  BY <1>1 DEF is_path_separator
<1>5. \A i \in S : i \in 2 .. Len(path)
  OBVIOUS
<1> HIDE DEF S, last
<1>6. CASE S = {}
  <2>1. last = 1
    BY <1>1, <1>2, <1>3, <1>6, GreatestIs
  <2>2. \A i \in 1 .. Len(path) : i > last => path[i] \in PathSeparators
    BY <1>4, <1>6, <2>1
  <2> QED
    BY <1>1, <2>1, <2>2 DEF last
<1>7. CASE S # {}
  <2>1. last \in S /\ \A j \in S : j <= last
    BY <1>1, <1>2, <1>3, <1>7, GreatestIs
  <2>2. last \in 2 .. Len(path) /\ path[last] \notin PathSeparators
    <3>1. last \in 2 .. Len(path)
      BY <1>5, <2>1
    <3>2. last \in 1 .. Len(path)
      BY <1>1, <3>1
    <3> QED
      BY <1>4, <2>1, <3>1, <3>2
  <2>3. ASSUME NEW i \in 1 .. Len(path), i > last PROVE path[i] \in PathSeparators
    <3>1. i # 1 /\ ~(i <= last)
      BY <1>1, <2>2, <2>3
    <3> QED
      BY <1>4, <2>1, <3>1
  <2>4. last \in 1 .. Len(path)
    BY <1>1, <2>2
  <2> QED
    BY <1>1, <2>2, <2>3, <2>4 DEF last
<1> QED
  BY <1>6, <1>7

LEMMA BaseIs ==
    ASSUME NEW C, NEW path \in Seq(C), path # <<>>
    PROVE  /\ get_basename_ptr(path) \in 1 .. get_last_nonsep_ptr(path)
           /\ \A i \in 1 .. Len(path) :
                get_basename_ptr(path) <= i /\ i < get_last_nonsep_ptr(path) => path[i] \notin PathSeparators
           /\ get_basename_ptr(path) > 1 => path[get_basename_ptr(path) - 1] \in PathSeparators
<1> DEFINE last == get_last_nonsep_ptr(path)
           S == {i \in 1 .. last - 1 : is_path_separator(path[i])}
           g == Greatest(S, 0)
           base == get_basename_ptr(path)
           L == Len(path)
<1>1. L \in Nat /\ last \in 1 .. L
  BY LastIs
<1>2. base = g + 1
  BY DEF get_basename_ptr
<1> HIDE DEF last, base, L
<1>3. S \subseteq 0 .. L
  BY <1>1
<1>4. \A i \in 1 .. L : i \in S <=> i < last /\ path[i] \in PathSeparators
  BY <1>1 DEF is_path_separator
<1>5. \A i \in S : i \in 1 .. last - 1 /\ path[i] \in PathSeparators
  BY DEF is_path_separator
<1> HIDE DEF S, g
<1>6. /\ S = {} => g = 0
      /\ S # {} => g \in S /\ \A j \in S : j <= g
  BY <1>1, <1>3, GreatestIs DEF g
<1>7. CASE S = {}
  <2>1. base = 1
    BY <1>2, <1>6, <1>7
  <2>2. \A i \in 1 .. L : base <= i /\ i < last => path[i] \notin PathSeparators
    BY <1>4, <1>7
  <2>3. base \in 1 .. last /\ ~(base > 1)
    BY <1>1, <2>1
  <2> QED
    BY <2>2, <2>3 DEF last, base, L
<1>8. CASE S # {}
  <2>1. g \in 1 .. last - 1 /\ path[g] \in PathSeparators /\ \A j \in S : j <= g
    BY <1>5, <1>6, <1>8
  <2>2. base \in 1 .. last /\ base - 1 = g
    BY <1>1, <1>2, <2>1
  <2>3. ASSUME NEW i \in 1 .. L, base <= i, i < last PROVE path[i] \notin PathSeparators
    <3>1. ~(i <= g)
      BY <1>1, <1>2, <2>1, <2>3
    <3> QED
      BY <1>4, <2>1, <2>3, <3>1
  <2> QED
    BY <2>1, <2>2, <2>3 DEF last, base, L
<1> QED
  BY <1>7, <1>8

\* What makes a position the end of the name that begins at i.
EndsName(path, i, j) ==
    /\ j \in i .. Len(path)
    /\ \A k \in i .. j : path[k] \notin PathSeparators
    /\ j = Len(path) \/ path[j + 1] \in PathSeparators

LEMMA NameEnds ==
    ASSUME NEW C, NEW path \in Seq(C), NEW i \in 1 .. Len(path), NEW j, EndsName(path, i, j)
    PROVE  NameAt(path, i) = SubSeq(path, i, j)
<1> DEFINE e == CHOOSE x : EndsName(path, i, x)
<1>1. NameAt(path, i) = SubSeq(path, i, e)
  BY DEF NameAt, EndsName
<1>2. ASSUME NEW x, EndsName(path, i, x), NEW y, EndsName(path, i, y) PROVE ~(x < y)
  <2> SUFFICES ASSUME x < y PROVE FALSE
    OBVIOUS
  <2>1. x \in Int /\ y \in Int /\ i <= x /\ y <= Len(path) /\ Len(path) \in Nat
    BY <1>2 DEF EndsName
  <2>2. x + 1 \in i .. y /\ x # Len(path)
    BY <2>1
  <2> QED
    BY <1>2, <2>2 DEF EndsName
<1>3. EndsName(path, i, e)
  <2> HIDE DEF e
  <2> QED
    BY DEF e
<1> HIDE DEF e
<1>4. e \in Int /\ j \in Int
  BY <1>3 DEF EndsName
<1>5. e = j
  BY <1>2, <1>3, <1>4
<1> QED
  BY <1>1, <1>5

LEMMA NameHasEnd ==
    ASSUME NEW C, NEW path \in Seq(C), NEW i \in 1 .. Len(path), path[i] \notin PathSeparators
    PROVE  \E j : EndsName(path, i, j)
<1> DEFINE L == Len(path)
           S == {j \in i .. L : \A k \in i .. j : path[k] \notin PathSeparators}
           g == Greatest(S, 0)
<1>1. L \in Nat /\ S \subseteq 0 .. L
  OBVIOUS
<1>2. i \in S
  <2>1. i \in i .. L /\ \A k \in i .. i : k = i
    BY <1>1
  <2> QED
    BY <2>1
<1>3. g \in S /\ \A j \in S : j <= g
  <2> HIDE DEF S, g, L
  <2> QED
    BY <1>1, <1>2, GreatestIs DEF g
<1> HIDE DEF g
<1>4. g \in i .. L /\ \A k \in i .. g : path[k] \notin PathSeparators
  BY <1>3
<1>5. ASSUME g # L, path[g + 1] \notin PathSeparators PROVE FALSE
  <2>1. g + 1 \in i .. L /\ \A k \in i .. g + 1 : k \in i .. g \/ k = g + 1
    BY <1>1, <1>4, <1>5
  <2>2. g + 1 \in S
    BY <1>4, <1>5, <2>1
  <2>3. ~(g + 1 <= g)
    BY <1>1, <1>4
  <2> QED
    BY <1>3, <2>2, <2>3
<1>6. EndsName(path, i, g)
  BY <1>4, <1>5 DEF EndsName
<1> QED
  BY <1>6

\* The name that mm_basename() finds is the last one, and there is none only if
\* all characters are separators.
LEMMA LastNameIs ==
    ASSUME NEW C, NEW path \in Seq(C), path # <<>>, NEW base, base = get_basename_ptr(path),
           NEW last, last = get_last_nonsep_ptr(path)
    PROVE  /\ NameStarts(path) = {} => base = 1 /\ last = 1 /\ path[1] \in PathSeparators
           /\ NameStarts(path) # {} =>
                /\ base \in NameStarts(path) /\ Greatest(NameStarts(path), 0) = base
                /\ EndsName(path, base, last)
                /\ path[base] \notin PathSeparators
<1> DEFINE L == Len(path)
<1>1. /\ L \in Nat /\ L > 0 /\ last \in 1 .. L
      /\ last > 1 => path[last] \notin PathSeparators
      /\ \A i \in 1 .. L : i > last => path[i] \in PathSeparators
  BY LastIs
<1>2. /\ base \in 1 .. last
      /\ \A i \in 1 .. L : base <= i /\ i < last => path[i] \notin PathSeparators
      /\ base > 1 => path[base - 1] \in PathSeparators
  BY BaseIs
<1> HIDE DEF L
<1>3. base \in Nat /\ last \in Nat /\ base >= 1 /\ base <= last /\ last <= L
  BY <1>1, <1>2
<1>4. \A i : i \in NameStarts(path) <=>
        i \in 1 .. L /\ path[i] \notin PathSeparators /\ (i = 1 \/ path[i - 1] \in PathSeparators)
  BY DEF NameStarts, L
<1>5. CASE path[last] \in PathSeparators
  <2>1. last = 1 /\ base = 1
    BY <1>1, <1>3, <1>5
  <2>2. ASSUME NEW i \in 1 .. L PROVE path[i] \in PathSeparators
    <3>1. i = 1 \/ i > last
      BY <1>1, <2>1
    <3> QED
      BY <1>1, <1>5, <2>1, <3>1
  <2>3. NameStarts(path) = {}
    BY <1>4, <2>2
  <2> QED
    BY <1>5, <2>1, <2>3
<1>6. CASE path[last] \notin PathSeparators
  <2>1. ASSUME NEW i \in Nat, base <= i, i <= last PROVE path[i] \notin PathSeparators
    <3>1. i \in 1 .. L /\ (i < last \/ i = last)
      BY <1>1, <1>3, <2>1
    <3> QED
      BY <1>2, <1>6, <2>1, <3>1
  <2>2. path[base] \notin PathSeparators
    BY <1>3, <2>1
  <2>3. base \in NameStarts(path)
    <3>1. base \in 1 .. L /\ (base = 1 \/ base > 1)
      BY <1>1, <1>3
    <3> QED
      BY <1>2, <1>4, <2>2, <3>1
  <2>4. ASSUME NEW i \in NameStarts(path) PROVE i <= base
    <3> SUFFICES ASSUME ~(i <= base) PROVE FALSE
      OBVIOUS
    <3>1. i \in 1 .. L /\ path[i] \notin PathSeparators /\ i \in Nat
      BY <1>4, <2>4
    <3>2. i <= last
      BY <1>1, <1>3, <3>1
    <3>3. i - 1 \in Nat /\ base <= i - 1 /\ i - 1 <= last /\ i # 1
      BY <1>3, <3>1, <3>2
    <3>4. path[i - 1] \notin PathSeparators
      BY <2>1, <3>3
    <3> QED
      BY <1>4, <2>4, <3>3, <3>4
  <2>5. Greatest(NameStarts(path), 0) = base
    <3>1. NameStarts(path) \subseteq 0 .. L /\ NameStarts(path) # {}
      BY <1>1, <1>4, <2>3
    <3>2. PICK g : g = Greatest(NameStarts(path), 0)
      OBVIOUS
    <3>3. g \in NameStarts(path) /\ \A j \in NameStarts(path) : j <= g
      BY <1>1, <3>1, <3>2, GreatestIs
    <3>4. g <= base /\ base <= g /\ g \in Nat
      BY <1>4, <2>3, <2>4, <3>3
    <3> QED
      BY <1>3, <3>2, <3>4
  <2>6. EndsName(path, base, last)
    <3>1. last \in base .. Len(path)
      BY <1>1, <1>3 DEF L
    <3>2. \A k \in base .. last : path[k] \notin PathSeparators
      BY <1>3, <2>1
    <3>3. last = L \/ path[last + 1] \in PathSeparators
      <4> SUFFICES ASSUME last # L PROVE path[last + 1] \in PathSeparators
        OBVIOUS
      <4>1. last + 1 \in 1 .. L /\ last + 1 > last
        BY <1>1, <1>3
      <4> QED
        BY <1>1, <4>1
    <3> QED
      BY <3>1, <3>2, <3>3 DEF EndsName, L
  <2> QED
    BY <2>2, <2>3, <2>5, <2>6
<1> QED
  BY <1>5, <1>6

LEMMA PathPart ==
    ASSUME NEW C, NEW path \in Seq(C), NEW a \in 1 .. Len(path), NEW b \in a .. Len(path)
    PROVE  /\ SubSeq(path, a, b) \in Seq(C) /\ Len(SubSeq(path, a, b)) = b - a + 1
           /\ \A k \in 1 .. b - a + 1 : SubSeq(path, a, b)[k] = path[a + k - 1]
<1>1. Len(path) \in Nat /\ a \in Nat /\ b \in Nat
  OBVIOUS
<1> QED
  BY <1>1

LEMMA FirstOnly ==
    ASSUME NEW C, NEW path \in Seq(C), path # <<>>
    PROVE  SubSeq(path, 1, 1) = <<path[1]>>
<1>1. Len(path) \in Nat /\ Len(path) >= 1 /\ path[1] \in C
  OBVIOUS
<1>2. 1 \in 1 .. Len(path)
  BY <1>1
<1> DEFINE s == SubSeq(path, 1, 1)
           e == <<path[1]>>
<1>3. s \in Seq(C) /\ Len(s) = 1 /\ s[1] = path[1]
  BY <1>1, <1>2, PathPart
<1>4. e \in Seq(C) /\ Len(e) = 1 /\ e[1] = path[1]
  BY <1>1
<1> HIDE DEF s, e
<1>5. s = e
  BY <1>3, <1>4
<1> QED
  BY <1>5 DEF s, e

LEMMA BasenameRight ==
    ASSUME NEW C, NEW path \in Seq(C), NEW b, b = mm_basename(path)
    PROVE  /\ Len(b) <= Len(path) \/ Len(b) = 1
           /\ b = CASE NameStarts(path) # {} -> NameAt(path, Greatest(NameStarts(path), 0))
                    [] NameStarts(path) = {} /\ Absolute(path) -> <<path[1]>>
                    [] OTHER -> <<".">>
<1>1. CASE path = <<>>
  <2>1. get_last_nonsep_ptr(path) = 0
    BY <1>1 DEF get_last_nonsep_ptr
  <2>2. get_basename_ptr(path) = 1
    <3>1. {i \in 1 .. 0 - 1 : is_path_separator(path[i])} = {}
      OBVIOUS
    <3>2. get_basename_ptr(path) = Greatest({i \in 1 .. 0 - 1 : is_path_separator(path[i])}, 0) + 1
      BY <2>1 DEF get_basename_ptr
    <3> QED
      BY <3>1, <3>2 DEF Greatest
  <2>3. b = <<".">>
    BY <1>1, <2>1, <2>2 DEF mm_basename
  <2>4. NameStarts(path) = {} /\ ~Absolute(path)
    BY <1>1 DEF NameStarts, Absolute
  <2> QED
    BY <2>3, <2>4
<1>2. CASE path # <<>>
  <2>0. PICK base, last : base = get_basename_ptr(path) /\ last = get_last_nonsep_ptr(path)
    OBVIOUS
  <2>1. Len(path) \in Nat /\ last \in 1 .. Len(path) /\ base \in 1 .. last
    BY <1>2, <2>0, LastIs, BaseIs
  <2>2. b = SubSeq(path, base, last)
    <3>1. PICK len : len = last + 1 - base
      OBVIOUS
    <3>2. len > 0 /\ ~(len <= 0) /\ base + len - 1 = last
      BY <2>1, <3>1
    <3>3. b = CASE len > 0 -> SubSeq(path, base, base + len - 1)
                [] len <= 0 /\ path = <<>> -> <<".">>
                [] OTHER -> SubSeq(path, 1, 1)
      BY <2>0, <3>1 DEF mm_basename
    <3>4. b = SubSeq(path, base, base + len - 1)
      BY <3>2, <3>3
    <3> QED
      BY <3>2, <3>4
  <2>3. Len(b) <= Len(path)
    <3>1. base \in 1 .. Len(path) /\ last \in base .. Len(path)
      BY <2>1
    <3>2. Len(b) = last - base + 1
      BY <2>2, <3>1, PathPart
    <3> QED
      BY <2>1, <3>2
  <2>4. CASE NameStarts(path) = {}
    <3>1. base = 1 /\ last = 1 /\ path[1] \in PathSeparators
      BY <1>2, <2>0, <2>4, LastNameIs
    <3>2. b = <<path[1]>>
      BY <1>2, <2>2, <3>1, FirstOnly
    <3>3. Absolute(path)
      BY <1>2, <3>1 DEF Absolute
    <3> QED
      BY <2>3, <2>4, <3>2, <3>3
  <2>5. CASE NameStarts(path) # {}
    <3>1. Greatest(NameStarts(path), 0) = base /\ EndsName(path, base, last)
      BY <1>2, <2>0, <2>5, LastNameIs
    <3>2. base \in 1 .. Len(path)
      BY <2>1
    <3>3. NameAt(path, base) = SubSeq(path, base, last)
      BY <3>1, <3>2, NameEnds
    <3> QED
      BY <2>2, <2>3, <2>5, <3>1, <3>3
  <2> QED
    BY <2>4, <2>5
<1> QED
  BY <1>1, <1>2

\* A path up to a character that is the last of a name, or the first character,
\* has the names that end there or before.
LEMMA NamesOfPart ==
    ASSUME NEW C, NEW path \in Seq(C), NEW q \in 1 .. Len(path), q < Len(path),
           q > 1 => path[q] \notin PathSeparators, path[q + 1] \in PathSeparators,
           NEW dir, dir = SubSeq(path, 1, q)
    PROVE  /\ NameStarts(dir) = {i \in NameStarts(path) : i <= q}
           /\ \A i \in NameStarts(dir) : NameAt(dir, i) = NameAt(path, i)
<1> DEFINE L == Len(path)
<1>1. L \in Nat /\ q \in Nat /\ q >= 1 /\ q + 1 <= L
  OBVIOUS
<1>2. dir \in Seq(C) /\ Len(dir) = q /\ \A k \in 1 .. q : dir[k] = path[k]
  <2>1. 1 \in 1 .. L /\ q \in 1 .. L /\ q - 1 + 1 = q /\ \A k \in 1 .. q : 1 + k - 1 = k
    BY <1>1
  <2> QED
    BY <2>1, PathPart
<1> HIDE DEF L
<1>3. NameStarts(dir) = {i \in NameStarts(path) : i <= q}
  <2>1. ASSUME NEW i \in 1 .. q
        PROVE  i \in 1 .. L /\ dir[i] = path[i] /\ (i = 1 \/ dir[i - 1] = path[i - 1])
    <3>1. i \in 1 .. L /\ (i = 1 \/ i - 1 \in 1 .. q)
      BY <1>1
    <3> QED
      BY <1>2, <3>1
  <2>2. \A i : i \in NameStarts(dir) <=>
          i \in 1 .. q /\ dir[i] \notin PathSeparators /\ (i = 1 \/ dir[i - 1] \in PathSeparators)
    BY <1>2 DEF NameStarts
  <2>3. \A i : i \in NameStarts(path) <=>
          i \in 1 .. L /\ path[i] \notin PathSeparators /\ (i = 1 \/ path[i - 1] \in PathSeparators)
    BY DEF NameStarts, L
  <2>4. \A i : i \in 1 .. q <=> i \in 1 .. L /\ i <= q
    BY <1>1
  <2> QED
    BY <2>1, <2>2, <2>3, <2>4
<1>4. ASSUME NEW i \in NameStarts(dir) PROVE NameAt(dir, i) = NameAt(path, i)
  <2>1. i \in NameStarts(path) /\ i <= q
    BY <1>3
  <2>2. i \in 1 .. L /\ path[i] \notin PathSeparators /\ i \in 1 .. q
    BY <1>1, <2>1 DEF NameStarts, L
  <2>3. PICK j : EndsName(path, i, j)
    BY <2>2, NameHasEnd DEF L
  <2>4. j \in i .. L /\ (\A k \in i .. j : path[k] \notin PathSeparators)
        /\ (j = L \/ path[j + 1] \in PathSeparators)
    BY <2>3 DEF EndsName, L
  <2>5. j <= q
    <3> SUFFICES ASSUME ~(j <= q) PROVE FALSE
      OBVIOUS
    <3>1. q + 1 \in i .. j
      BY <1>1, <2>2, <2>4
    <3> QED
      BY <2>4, <3>1
  <2>6. j \in i .. q /\ j # L /\ j \in 1 .. q
    BY <1>1, <2>2, <2>4, <2>5
  <2>7. EndsName(dir, i, j)
    <3>1. ASSUME NEW k \in i .. j PROVE dir[k] \notin PathSeparators
      <4>1. k \in 1 .. q
        BY <1>1, <2>2, <2>6
      <4> QED
        BY <1>2, <2>4, <4>1
    <3>2. ASSUME j # q PROVE dir[j + 1] \in PathSeparators
      <4>1. j + 1 \in 1 .. q
        BY <1>1, <2>6, <3>2
      <4> QED
        BY <1>2, <2>4, <2>6, <4>1
    <3> QED
      BY <1>2, <2>6, <3>1, <3>2 DEF EndsName
  <2>8. NameAt(path, i) = SubSeq(path, i, j) /\ NameAt(dir, i) = SubSeq(dir, i, j)
    BY <1>2, <2>2, <2>3, <2>7, NameEnds DEF L
  <2>9. SubSeq(dir, i, j) = SubSeq(path, i, j)
    <3> DEFINE a == SubSeq(dir, i, j)
               b == SubSeq(path, i, j)
               n == j - i + 1
    <3>0. n \in Nat /\ i \in Nat /\ j \in Nat /\ i >= 1 /\ j <= q
      BY <1>1, <2>2, <2>6
    <3>1. a \in Seq(C) /\ Len(a) = n /\ \A k \in 1 .. n : a[k] = dir[i + k - 1]
      BY <1>2, <2>2, <2>6, PathPart
    <3>2. b \in Seq(C) /\ Len(b) = n /\ \A k \in 1 .. n : b[k] = path[i + k - 1]
      BY <2>2, <2>4, PathPart DEF L
    <3> HIDE DEF a, b
    <3>3. ASSUME NEW k \in 1 .. n PROVE a[k] = b[k]
      <4>1. i + k - 1 \in 1 .. q
        BY <1>1, <3>0
      <4> QED
        BY <1>2, <3>1, <3>2, <4>1
    <3> HIDE DEF n
    <3>4. a = b
      BY <3>0, <3>1, <3>2, <3>3
    <3> QED
      BY <3>4 DEF a, b
  <2> QED
    BY <2>8, <2>9
<1> QED
  BY <1>3, <1>4

LEMMA DirnameRight ==
    ASSUME NEW C, NEW path \in Seq(C), NEW dir, dir = mm_dirname(path)
    PROVE  /\ Len(dir) <= Len(path) \/ Len(dir) = 1
           /\ Len(dir) > 1 => dir[Len(dir)] \notin PathSeparators
           /\ Absolute(dir) = Absolute(path)
           /\ IF NameStarts(path) \ {Greatest(NameStarts(path), 0)} = {} /\ ~Absolute(path)
              THEN dir = <<".">>
              ELSE /\ NameStarts(dir) = NameStarts(path) \ {Greatest(NameStarts(path), 0)}
                   /\ \A i \in NameStarts(dir) : NameAt(dir, i) = NameAt(path, i)
<1> DEFINE starts == NameStarts(path)
           dot == <<".">>
<1>0. PICK base, last : base = get_basename_ptr(path) /\ last = get_last_nonsep_ptr(path)
  OBVIOUS
<1>a. Len(dot) = 1 /\ dot # <<>> /\ dot[1] = "."
  OBVIOUS
<1> HIDE DEF dot
<1>b. Absolute(dot) = FALSE
  BY <1>a, PathAssumption DEF Absolute
<1>1. CASE path = <<>>
  <2>1. base = 1
    <3>1. {i \in 1 .. 0 - 1 : is_path_separator(path[i])} = {}
      OBVIOUS
    <3>2. base = Greatest({i \in 1 .. 0 - 1 : is_path_separator(path[i])}, 0) + 1
      BY <1>0, <1>1 DEF get_basename_ptr, get_last_nonsep_ptr
    <3> QED
      BY <3>1, <3>2 DEF Greatest
  <2>2. dir = dot
    BY <1>0, <1>1, <2>1 DEF mm_dirname, dot
  <2>3. NameStarts(path) = {} /\ Absolute(path) = FALSE
    BY <1>1 DEF NameStarts, Absolute
  <2>4. dir = <<".">>
    BY <2>2 DEF dot
  <2>5. Len(dir) = 1 /\ Absolute(dir) = FALSE /\ ~(Len(dir) > 1)
    <3>1. Len(dir) = 1
      BY <1>a, <2>2
    <3>2. Absolute(dir) = FALSE
      BY <1>b, <2>2, Zenon
    <3> QED
      BY <3>1, <3>2
  <2> QED
    BY <2>3, <2>4, <2>5
<1>2. CASE path # <<>>
  <2>1. Len(path) \in Nat /\ last \in 1 .. Len(path) /\ base \in 1 .. last
        /\ (base > 1 => path[base - 1] \in PathSeparators)
    BY <1>0, <1>2, LastIs, BaseIs
  <2>2. CASE base = 1 /\ path[1] \in PathSeparators
    <3>1. starts = {}
      BY <1>0, <1>2, <2>2, LastNameIs
    <3>2. dir = <<path[1]>>
      BY <1>0, <1>2, <2>2, FirstOnly DEF mm_dirname, is_path_separator
    <3>3. Len(dir) = 1 /\ dir # <<>> /\ dir[1] = path[1]
      BY <3>2
    <3>4. Absolute(dir) = TRUE /\ Absolute(path) = TRUE
      BY <1>2, <2>2, <3>3 DEF Absolute
    <3>5. NameStarts(dir) = {}
      <4>1. \A i \in 1 .. 1 : i = 1
        OBVIOUS
      <4> QED
        BY <2>2, <3>3, <4>1 DEF NameStarts
    <3> QED
      BY <3>1, <3>3, <3>4, <3>5
  <2>3. CASE base = 1 /\ path[1] \notin PathSeparators
    <3>1. starts # {}
      BY <1>0, <1>2, <2>3, LastNameIs
    <3>2. Greatest(starts, 0) = 1 /\ 1 \in starts
      BY <1>0, <1>2, <2>3, <3>1, LastNameIs
    <3>3. starts \ {1} = {}
      <4>1. starts \subseteq 0 .. Len(path) /\ \A i \in starts : i \in Nat /\ i >= 1
        BY <2>1 DEF NameStarts
      <4>2. \A i \in starts : i <= Greatest(starts, 0)
        <5> HIDE DEF starts
        <5> QED
          BY <2>1, <3>1, <4>1, GreatestIs
      <4> QED
        BY <3>2, <4>1, <4>2
    <3>4. dir = dot
      BY <1>0, <2>3 DEF mm_dirname, is_path_separator, dot
    <3>5. Absolute(path) = FALSE
      BY <2>3 DEF Absolute
    <3>6. dir = <<".">>
      BY <3>4 DEF dot
    <3>7. Len(dir) = 1 /\ Absolute(dir) = FALSE /\ ~(Len(dir) > 1)
      <4>1. Len(dir) = 1
        BY <1>a, <3>4
      <4>2. Absolute(dir) = FALSE
        BY <1>b, <3>4, Zenon
      <4> QED
        BY <4>1, <4>2
    <3>8. starts \ {Greatest(starts, 0)} = {}
      BY <3>2, <3>3
    <3> QED
      BY <3>5, <3>6, <3>7, <3>8
  <2>4. CASE base > 1
    <3> DEFINE S == {i \in 2 .. base - 1 : ~is_path_separator(path[i])}
    <3>0. PICK q : q = Greatest(S, 1)
      OBVIOUS
    <3>1. dir = SubSeq(path, 1, q)
      <4>1. base # 1
        BY <2>1, <2>4
      <4> QED
        BY <1>0, <3>0, <4>1 DEF mm_dirname
    <3>2. S \subseteq 0 .. Len(path)
      BY <2>1
    <3>3. \A i \in Nat : i \in S <=> i >= 2 /\ i <= base - 1 /\ path[i] \notin PathSeparators
      BY <2>1 DEF is_path_separator
    <3>4. \A i \in S : i \in Nat
      BY <2>1
    <3> HIDE DEF S
    <3>5. (S = {} => q = 1) /\ (S # {} => q \in S /\ \A j \in S : j <= q)
      BY <2>1, <3>0, <3>2, GreatestIs
    <3>6. q \in Nat /\ q >= 1 /\ q <= base - 1 /\ (q > 1 => path[q] \notin PathSeparators)
      BY <2>1, <2>4, <3>3, <3>4, <3>5
    <3>7. ASSUME NEW i \in Nat, i <= base - 1, i > q PROVE path[i] \in PathSeparators
      <4>1. i >= 2 /\ ~(i <= q)
        BY <3>6, <3>7
      <4> QED
        BY <3>3, <3>5, <3>7, <4>1
    <3>8. q \in 1 .. Len(path) /\ q < Len(path) /\ 1 \in 1 .. Len(path) /\ q \in 1 .. Len(path)
      BY <2>1, <2>4, <3>6
    <3>9. Len(dir) = q /\ dir[1] = path[1] /\ dir # <<>> /\ dir[q] = path[q]
      <4>1. 1 \in 1 .. q - 1 + 1 /\ q \in 1 .. q - 1 + 1 /\ q - 1 + 1 = q /\ 1 + q - 1 = q /\ 1 + 1 - 1 = 1
        BY <3>6
      <4>2. Len(dir) = q /\ \A k \in 1 .. q - 1 + 1 : dir[k] = path[1 + k - 1]
        BY <3>1, <3>8, <4>1, PathPart
      <4>3. dir # <<>>
        BY <3>6, <4>2
      <4> QED
        BY <4>1, <4>2, <4>3
    <3>10. Absolute(dir) = Absolute(path)
      BY <1>2, <3>9 DEF Absolute
    <3>11. starts # {} /\ base \in starts /\ Greatest(starts, 0) = base
      BY <1>0, <1>2, <2>1, <2>4, LastNameIs
    <3>12. \A i : i \in starts <=>
             i \in 1 .. Len(path) /\ path[i] \notin PathSeparators
             /\ (i = 1 \/ path[i - 1] \in PathSeparators)
      BY DEF NameStarts
    <3>13. \A i \in starts : i <= base
      <4>1. starts \subseteq 0 .. Len(path)
        BY <2>1, <3>12
      <4> HIDE DEF starts
      <4> QED
        BY <2>1, <3>11, <4>1, GreatestIs
    <3> HIDE DEF starts
    <3>14. ASSUME NEW i \in starts, i # base PROVE i <= q
      <4> SUFFICES ASSUME ~(i <= q) PROVE FALSE
        OBVIOUS
      <4>1. i \in Nat /\ i <= base /\ path[i] \notin PathSeparators
        BY <2>1, <3>12, <3>13, <3>14
      <4>2. i <= base - 1 /\ i > q
        BY <2>1, <3>6, <3>14, <4>1
      <4> QED
        BY <3>7, <4>1, <4>2
    <3>15. starts \ {base} = {i \in starts : i <= q}
      <4>1. ~(base <= q)
        BY <2>1, <3>6
      <4> QED
        BY <3>14, <4>1
    <3>16. ~Absolute(path) => starts \ {base} # {}
      <4> SUFFICES ASSUME ~Absolute(path) PROVE 1 \in starts /\ 1 # base
        OBVIOUS
      <4>1. path[1] \notin PathSeparators /\ 1 \in 1 .. Len(path)
        BY <1>2, <3>8 DEF Absolute
      <4> QED
        BY <2>1, <2>4, <3>12, <4>1
    <3>17. /\ NameStarts(dir) = starts \ {base}
           /\ \A i \in NameStarts(dir) : NameAt(dir, i) = NameAt(path, i)
      <4>1. CASE q = base - 1
        <5>1. q = 1 /\ path[1] \in PathSeparators
          BY <2>1, <2>4, <3>6, <4>1
        <5>2. NameStarts(dir) = {}
          <6>1. \A i \in 1 .. 1 : i = 1
            OBVIOUS
          <6> QED
            BY <3>9, <5>1, <6>1 DEF NameStarts
        <5>3. starts \ {base} = {}
          <6> SUFFICES ASSUME NEW i \in starts, i <= q PROVE FALSE
            BY <3>15
          <6>1. i = 1
            BY <2>1, <3>12, <5>1
          <6> QED
            BY <3>12, <5>1, <6>1
        <5> QED
          BY <5>2, <5>3
      <4>2. CASE q < base - 1
        <5>1. path[q + 1] \in PathSeparators
          <6>1. q + 1 \in Nat /\ q + 1 <= base - 1 /\ q + 1 > q
            BY <2>1, <3>6, <4>2
          <6> QED
            BY <3>7, <6>1
        <5>2. /\ NameStarts(dir) = {i \in NameStarts(path) : i <= q}
              /\ \A i \in NameStarts(dir) : NameAt(dir, i) = NameAt(path, i)
          BY <3>1, <3>6, <3>8, <5>1, NamesOfPart
        <5> QED
          BY <3>15, <5>2 DEF starts
      <4> QED
        BY <2>1, <3>6, <4>1, <4>2
    <3>18. Len(dir) <= Len(path) /\ (Len(dir) > 1 => dir[Len(dir)] \notin PathSeparators)
      BY <2>1, <3>6, <3>8, <3>9
    <3> QED
      BY <3>10, <3>11, <3>16, <3>17, <3>18 DEF starts
  <2> QED
    BY <2>1, <2>2, <2>3, <2>4
<1> QED
  BY <1>1, <1>2

(***************************************************************************)
(* For every path and every set of separators that does not hold ".",      *)
(* mm_basename() and mm_dirname() split a path into its last name and the  *)
(* names before it, and either fits where the path was.                    *)
(***************************************************************************)
THEOREM PathsSplit == PathSpec => []PathSplits
<1> DEFINE PathInv ==
        /\ pnPath \in PathStrings
        /\ pnBase # <<>> => pnBase = mm_basename(pnPath)
        /\ pnDir # <<>> => pnDir = mm_dirname(pnPath)
<1>1. PathInit => PathInv
  BY DEF PathInit
<1>2. PathInv /\ [PathNext]_pathVars => PathInv'
  <2> SUFFICES ASSUME PathInv, [PathNext]_pathVars PROVE PathInv'
    OBVIOUS
  <2>1. CASE CallBasename
    BY <2>1 DEF CallBasename
  <2>2. CASE CallDirname
    BY <2>2 DEF CallDirname
  <2>3. CASE UNCHANGED pathVars
    BY <2>3 DEF pathVars
  <2> QED
    BY <2>1, <2>2, <2>3 DEF PathNext
<1>3. PathInv => PathSplits
  <2> SUFFICES ASSUME PathInv PROVE PathSplits
    OBVIOUS
  <2>1. pnPath \in Seq(Range(pnPath))
    BY PathAssumption
  <2>2. ASSUME pnBase # <<>>
        PROVE  /\ Len(pnBase) <= Len(pnPath) \/ Len(pnBase) = 1
               /\ pnBase = CASE NameStarts(pnPath) # {} -> NameAt(pnPath, Greatest(NameStarts(pnPath), 0))
                             [] NameStarts(pnPath) = {} /\ Absolute(pnPath) -> <<pnPath[1]>>
                             [] OTHER -> <<".">>
    BY <2>1, <2>2, BasenameRight
  <2>3. ASSUME pnDir # <<>>
        PROVE  /\ Len(pnDir) <= Len(pnPath) \/ Len(pnDir) = 1
               /\ Len(pnDir) > 1 => pnDir[Len(pnDir)] \notin PathSeparators
               /\ Absolute(pnDir) = Absolute(pnPath)
               /\ IF NameStarts(pnPath) \ {Greatest(NameStarts(pnPath), 0)} = {} /\ ~Absolute(pnPath)
                  THEN pnDir = <<".">>
                  ELSE /\ NameStarts(pnDir) = NameStarts(pnPath) \ {Greatest(NameStarts(pnPath), 0)}
                       /\ \A i \in NameStarts(pnDir) : NameAt(pnDir, i) = NameAt(pnPath, i)
    BY <2>1, <2>3, DirnameRight
  <2> QED
    BY <2>2, <2>3 DEF PathSplits
<1> QED
  BY <1>1, <1>2, <1>3, PTL DEF PathSpec
=============================================================================
