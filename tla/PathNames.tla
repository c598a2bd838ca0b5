----------------------------- MODULE PathNames ------------------------------
(***************************************************************************)
(* mm_basename() and mm_dirname() (src/utils.c). A path is a sequence of   *)
(* characters; pointers are positions counted from 1, so that the pointer  *)
(* before the string is 0. The two calls work in one buffer, as their      *)
(* callers may let them, one path per behaviour.                           *)
(***************************************************************************)
EXTENDS Integers, Sequences, SequencesExt

CONSTANTS
    PathStrings,    \* paths that are split
    PathSeparators  \* '/', and '\' on Windows

ASSUME PathAssumption ==
    /\ \A path \in PathStrings : path \in Seq(Range(path))
    /\ "." \notin PathSeparators

VARIABLES
    pnPath,     \* the path
    pnBase,     \* what mm_basename() has written, <<>> before
    pnDir       \* what mm_dirname() has written, <<>> before

pathVars == <<pnPath, pnBase, pnDir>>

is_path_separator(c) == c \in PathSeparators

\* The greatest position of S, dflt if there is none.
Greatest(S, dflt) == IF S = {} THEN dflt ELSE CHOOSE i \in S : \A j \in S : j <= i

\* Separators at the end are skipped, but never the first character.
get_last_nonsep_ptr(path) ==
    IF path = <<>> THEN 0
    ELSE Greatest({i \in 2 .. Len(path) : ~is_path_separator(path[i])}, 1)

get_basename_ptr(path) ==
    LET last == get_last_nonsep_ptr(path)
    IN  Greatest({i \in 1 .. last - 1 : is_path_separator(path[i])}, 0) + 1

mm_basename(path) ==
    LET len == get_last_nonsep_ptr(path) + 1 - get_basename_ptr(path)
    IN  CASE len > 0 -> SubSeq(path, get_basename_ptr(path), get_basename_ptr(path) + len - 1)
          [] len <= 0 /\ path = <<>> -> <<".">>
          [] OTHER -> SubSeq(path, 1, 1)

mm_dirname_KeepsSeparators(path) ==
    LET base == get_basename_ptr(path)
    IN  IF base = 1
        THEN IF path # <<>> /\ is_path_separator(path[1]) THEN SubSeq(path, 1, 1) ELSE <<".">>
        ELSE SubSeq(path, 1, base - 1)

mm_dirname(path) ==
    LET base == get_basename_ptr(path)
        last == Greatest({i \in 2 .. base - 1 : ~is_path_separator(path[i])}, 1)
    IN  IF base = 1
        THEN IF path # <<>> /\ is_path_separator(path[1]) THEN SubSeq(path, 1, 1) ELSE <<".">>
        ELSE SubSeq(path, 1, last)

\* The two calls of a caller that splits a path, in either order.
CallBasename ==
    /\ pnBase = <<>> /\ pnBase' = mm_basename(pnPath) /\ UNCHANGED <<pnPath, pnDir>>
CallDirname ==
    /\ pnDir = <<>> /\ pnDir' = mm_dirname(pnPath) /\ UNCHANGED <<pnPath, pnBase>>

PathInit == pnPath \in PathStrings /\ pnBase = <<>> /\ pnDir = <<>>
PathNext == CallBasename \/ CallDirname

-----------------------------------------------------------------------------
(***************************************************************************)
(* The reference: a path is absolute or not, and is a sequence of names.   *)
(***************************************************************************)
\* The positions at which the names of a path begin, and the name at one.
NameStarts(path) ==
    {i \in 1 .. Len(path) : path[i] \notin PathSeparators /\ (i = 1 \/ path[i - 1] \in PathSeparators)}
NameAt(path, i) ==
    SubSeq(path, i, CHOOSE j \in i .. Len(path) :
        /\ \A k \in i .. j : path[k] \notin PathSeparators
        /\ j = Len(path) \/ path[j + 1] \in PathSeparators)
Absolute(path) == path # <<>> /\ path[1] \in PathSeparators

\* mm_basename() gives the last name of a path and mm_dirname() a path with the
\* names before it, absolute as the path was, however many separators lie
\* between, before and behind the names; "." stands for no name of a relative
\* path, its first separator for none of an absolute one. Neither ends in a
\* separator, and neither is longer than the path or one character, so that both
\* may be written over the path.
PathSplits ==
    LET starts == NameStarts(pnPath)
        last == Greatest(starts, 0)
        Fits(s) == Len(s) <= Len(pnPath) \/ Len(s) = 1
    IN  /\ pnBase # <<>> =>
            /\ Fits(pnBase)
            /\ pnBase = CASE starts # {} -> NameAt(pnPath, last)
                          [] starts = {} /\ Absolute(pnPath) -> <<pnPath[1]>>
                          [] OTHER -> <<".">>
        /\ pnDir # <<>> =>
            /\ Fits(pnDir)
            /\ Len(pnDir) > 1 => pnDir[Len(pnDir)] \notin PathSeparators
            /\ Absolute(pnDir) = Absolute(pnPath)
            /\ IF starts \ {last} = {} /\ ~Absolute(pnPath) THEN pnDir = <<".">>
               ELSE /\ NameStarts(pnDir) = starts \ {last}
                    /\ \A i \in NameStarts(pnDir) : NameAt(pnDir, i) = NameAt(pnPath, i)

SomePathStrings == BoundedSeq({"a", "b", "/", "\\"}, 5)
BothSeparators == {"/", "\\"}
=============================================================================
