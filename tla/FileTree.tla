------------------------------ MODULE FileTree ------------------------------
(***************************************************************************)
(* Directories: mm_mkdir() with its missing parents (src/file.c) and       *)
(* mm_remove() (src/file-posix.c and src/file-win32.c), on one tree that   *)
(* another process changes meanwhile.                                      *)
(*                                                                         *)
(* A node is a sequence of names and has a type. The recursions are stacks *)
(* of frames; one step is one entry of a directory, or one mkdir(). The    *)
(* strings mm_mkdir() cuts and restores are modelled character by          *)
(* character, names being single characters.                               *)
(***************************************************************************)
EXTENDS Integers, Sequences, FiniteSets, SequencesExt

CONSTANTS
    Trees,          \* trees at the start: functions from nodes to types
    Platforms,      \* "posix", "win32"
    RemoveFlags,    \* flags given to mm_remove() on the node RemoveRoot
    LockedSets,     \* sets of nodes that cannot be removed or opened
    MkdirPaths,     \* strings given to mm_mkdir()
    Interference,   \* bound: files and directories the other process creates
    RecursionMax    \* RECURSION_MAX

ASSUME TreeAssumption == RecursionMax \in Nat /\ Interference \in Nat

VARIABLES
    tree,           \* nodes and their types
    before,         \* history: the tree at the start
    platform,       \* which of the two implementations runs
    locked,         \* nodes that resist
    rmAt,           \* mm_remove(): start, walk, last, done, or none
    rmFlags,        \* its flags
    rmStack,        \* its open directories, with the names still to be read
    rmResult,       \* what the innermost call has returned, 1 if it runs
    rmFailed,       \* history: a removal has failed
    dirsOpen,       \* directory streams that are open
    mkAt,           \* mm_mkdir(): try, back, done or none
    mkPath,         \* its string, NUL where dirname() has cut it
    mkAsked,        \* history: the string as given
    mkStack,        \* lengths to restore
    mkResult,       \* what the innermost call has returned
    created         \* history: nodes the other process has created

treeVars == <<tree, before, platform, locked, rmAt, rmFlags, rmStack, rmResult, rmFailed,
              dirsOpen, mkAt, mkPath, mkAsked, mkStack, mkResult, created>>
sysVars == <<before, platform, locked>>
rmVars == <<rmAt, rmFlags, rmStack, rmResult, rmFailed, dirsOpen>>
mkVars == <<mkAt, mkPath, mkAsked, mkStack, mkResult>>

RemoveRoot == <<"d">>
FAILONERROR == "FAILONERROR"
RECURSIVE_FLAG == "RECURSIVE"

-----------------------------------------------------------------------------
(***************************************************************************)
(* The file system. The empty sequence is the current directory.           *)
(***************************************************************************)
Exists(node) == node = <<>> \/ node \in DOMAIN tree
TypeOf(node) == CASE node = <<>> -> "DIR"
                  [] node # <<>> /\ node \in DOMAIN tree -> tree[node]
                  [] OTHER -> "absent"
Names(dir) == {Last(n) : n \in {m \in DOMAIN tree : Front(m) = dir}}
Without(node) == [n \in DOMAIN tree \ {node} |-> tree[n]]
With(node, type) == [n \in DOMAIN tree \cup {node} |->
                        IF n = node THEN type ELSE tree[n]]

\* unlink() for files, rmdir() for directories, which must be empty.
CanRemove(node) ==
    /\ node \in DOMAIN tree /\ node \notin locked
    /\ tree[node] = "DIR" => Names(node) = {}

-----------------------------------------------------------------------------
(***************************************************************************)
(* mm_remove().                                                            *)
(***************************************************************************)
\* On Windows a recursive removal authorises directories.
Authorised ==
    IF platform = "win32" /\ RECURSIVE_FLAG \in rmFlags THEN rmFlags \cup {"DIR"}
    ELSE rmFlags

Finish(rv) == rmAt' = "done" /\ rmResult' = rv
Frame(dir) == [dir |-> dir, left |-> Names(dir)]

\* fdopendir() fails for a directory that could be opened (POSIX): its call
\* returns at once, with an error only under MM_FAILONERROR.
Unread(dir) == [dir |-> dir, left |-> {}]
UnreadResult == IF FAILONERROR \in rmFlags THEN -1 ELSE 0

\* POSIX refuses the type first, Windows after the recursion.
mm_remove ==
    /\ rmAt = "start"
    /\ LET type == TypeOf(RemoveRoot)
           recurses == RECURSIVE_FLAG \in rmFlags /\ type = "DIR"
       IN  CASE \/ type = "absent"
                \/ platform = "posix" /\ type \notin rmFlags
                \/ recurses /\ RemoveRoot \in locked
                   /\ (platform = "posix" \/ FAILONERROR \notin rmFlags) ->
                    \/ Finish(-1) /\ UNCHANGED <<rmStack, dirsOpen>>
                    \/ /\ platform = "posix" /\ recurses /\ type \in rmFlags
                       /\ rmAt' = "walk" /\ rmStack' = <<Unread(RemoveRoot)>>
                       /\ rmResult' = UnreadResult /\ dirsOpen' = dirsOpen + 1
             [] recurses /\ RemoveRoot \notin locked /\ (platform = "posix" => type \in rmFlags) ->
                    /\ rmAt' = "walk" /\ rmStack' = <<Frame(RemoveRoot)>>
                    /\ dirsOpen' = dirsOpen + 1 /\ UNCHANGED rmResult
             [] OTHER -> rmAt' = "last" /\ UNCHANGED <<rmStack, dirsOpen, rmResult>>
    /\ UNCHANGED <<tree, sysVars, rmFlags, rmFailed, mkVars, created>>

Top == Last(rmStack)
Node(name) == Append(Top.dir, name)
Read(name) == [rmStack EXCEPT ![Len(rmStack)].left = @ \ {name}]
FailsOnError == FAILONERROR \in rmFlags

\* The innermost directory is closed and its call returns.
Leave(rv) ==
    /\ rmStack' = Front(rmStack)
    /\ rmResult' = rv
    /\ dirsOpen' = dirsOpen - 1

\* After a failure the walk goes on with the next entry, or ends.
EntryFailed(name) ==
    /\ rmFailed' = TRUE
    /\ IF FailsOnError THEN Leave(-1)
       ELSE rmStack' = Read(name) /\ UNCHANGED <<rmResult, dirsOpen>>

Skips(type) == type # "absent" /\ type \notin Authorised

\* An entry that is no directory, or is not to be removed. It may have gone
\* since it was read.
RemoveEntry_AnyType ==
    /\ rmAt = "walk" /\ rmStack # <<>> /\ rmResult = 1
    /\ \E name \in Top.left :
        /\ TypeOf(Node(name)) # "DIR"
        /\ IF CanRemove(Node(name))
           THEN /\ tree' = Without(Node(name)) /\ rmStack' = Read(name)
                /\ UNCHANGED <<rmFailed, rmResult, dirsOpen>>
           ELSE EntryFailed(name) /\ UNCHANGED tree
    /\ UNCHANGED <<sysVars, rmAt, rmFlags, mkVars, created>>

RemoveEntry ==
    /\ rmAt = "walk" /\ rmStack # <<>> /\ rmResult = 1
    /\ \E name \in Top.left :
        LET type == TypeOf(Node(name))
        IN  /\ type # "DIR" \/ Skips(type)
            /\ CASE Skips(type) ->
                        /\ rmStack' = Read(name)
                        /\ UNCHANGED <<tree, rmFailed, rmResult, dirsOpen>>
                 [] ~Skips(type) /\ CanRemove(Node(name)) ->
                        /\ tree' = Without(Node(name)) /\ rmStack' = Read(name)
                        /\ UNCHANGED <<rmFailed, rmResult, dirsOpen>>
                 [] OTHER -> EntryFailed(name) /\ UNCHANGED tree
    /\ UNCHANGED <<sysVars, rmAt, rmFlags, mkVars, created>>

\* A directory is opened and emptied by a call of its own, unless the levels
\* are used up. On POSIX the descriptor is then left open.
EnterDirectory ==
    /\ rmAt = "walk" /\ rmStack # <<>> /\ rmResult = 1
    /\ \E name \in Top.left :
        /\ TypeOf(Node(name)) = "DIR" /\ ~Skips("DIR")
        /\ CASE Node(name) \in locked ->
                    \/ EntryFailed(name)
                    \/ /\ platform = "posix"
                       /\ rmStack' = Append(Read(name), Unread(Node(name)))
                       /\ rmResult' = UnreadResult /\ rmFailed' = TRUE
                       /\ dirsOpen' = dirsOpen + 1
             [] Node(name) \notin locked /\ Len(rmStack) > RecursionMax ->
                    /\ rmStack' = Append(Read(name), [dir |-> Node(name), left |-> {}])
                    /\ rmResult' = -1 /\ rmFailed' = TRUE
                    /\ dirsOpen' = dirsOpen + (IF platform = "posix" THEN 2 ELSE 1)
             [] OTHER ->
                    /\ rmStack' = Append(Read(name), Frame(Node(name)))
                    /\ dirsOpen' = dirsOpen + 1
                    /\ UNCHANGED <<rmResult, rmFailed>>
    /\ UNCHANGED <<tree, sysVars, rmAt, rmFlags, mkVars, created>>

EndOfDirectory ==
    /\ rmAt = "walk" /\ rmStack # <<>> /\ rmResult = 1 /\ Top.left = {}
    /\ rmResult' = 0
    /\ UNCHANGED <<tree, sysVars, rmAt, rmFlags, rmStack, rmFailed,
                   dirsOpen, mkVars, created>>

\* A call for an inner directory has returned: the directory is closed, and
\* removed by its parent. POSIX tries twice, and looks at the second result.
LeaveDirectory_KeepsEmpty ==
    /\ rmAt = "walk" /\ Len(rmStack) > 1 /\ rmResult # 1
    /\ rmStack' = Front(rmStack) /\ rmResult' = 1 /\ dirsOpen' = dirsOpen - 1
    /\ UNCHANGED <<tree, sysVars, rmAt, rmFlags, rmFailed, mkVars, created>>

LeaveDirectory ==
    /\ rmAt = "walk" /\ Len(rmStack) > 1 /\ rmResult # 1
    /\ LET dir == Top.dir
           stops == rmResult # 0 /\ FailsOnError
           removed == ~stops /\ CanRemove(dir)
           fails == ~stops /\ (platform = "posix" \/ ~removed)
       IN  /\ tree' = IF removed THEN Without(dir) ELSE tree
           /\ rmFailed' = (rmFailed \/ (~stops /\ ~removed))
           /\ IF stops \/ (fails /\ FailsOnError)
              THEN rmStack' = Front(rmStack) /\ rmResult' = -1
              ELSE rmStack' = Front(rmStack) /\ rmResult' = 1
           /\ dirsOpen' = dirsOpen - 1
    /\ UNCHANGED <<sysVars, rmAt, rmFlags, mkVars, created>>

\* The outermost call has returned. Its failure is reported unless
\* MM_FAILONERROR is set: then the last removal reports it.
LeaveRoot ==
    /\ rmAt = "walk" /\ rmResult # 1 /\ Len(rmStack) <= 1
    /\ rmStack' = <<>>
    /\ dirsOpen' = dirsOpen - Len(rmStack)
    /\ IF rmResult # 0 /\ ~FailsOnError THEN Finish(-1)
       ELSE rmAt' = "last" /\ rmResult' = 1
    /\ UNCHANGED <<tree, sysVars, rmFlags, rmFailed, mkVars, created>>

RemoveLast ==
    /\ rmAt = "last"
    /\ IF TypeOf(RemoveRoot) \in Authorised /\ CanRemove(RemoveRoot)
       THEN tree' = Without(RemoveRoot) /\ Finish(0) /\ UNCHANGED rmFailed
       ELSE UNCHANGED tree /\ Finish(-1) /\ rmFailed' = TRUE
    /\ UNCHANGED <<sysVars, rmFlags, rmStack, dirsOpen, mkVars, created>>

-----------------------------------------------------------------------------
(***************************************************************************)
(* mm_mkdir() with MM_RECURSIVE.                                           *)
(***************************************************************************)
NUL == "0"
\* The C string in the buffer, and the node it names.
CString(s) == IF NUL \in Range(s)
              THEN SubSeq(s, 1, (CHOOSE i \in 1 .. Len(s) : s[i] = NUL /\ NUL \notin Range(SubSeq(s, 1, i - 1))) - 1)
              ELSE s
NodeOf(s) == SelectSeq(CString(s), LAMBDA c : c # "/" /\ c # ".")

\* The position of the pointer after each of the loops, from 1.
LastNot(s, from) ==
    LET at == {i \in 2 .. from : s[i] # "/"}
    IN  IF at = {} THEN 1 ELSE CHOOSE i \in at : \A j \in at : j <= i

\* internal_dirname(): the separators before the last component become NUL.
internal_dirname(s) ==
    LET str == CString(s)
        name == LastNot(str, Len(str))
        seps == {i \in 2 .. name - 1 : str[i] = "/"}
        sep == CHOOSE i \in seps : \A j \in seps : j <= i
        keep == LastNot(str, sep)
    IN  IF seps = {} THEN <<".">>
        ELSE [i \in 1 .. Len(s) |-> IF i \in keep + 1 .. sep THEN NUL ELSE s[i]]

\* mkdir() and CreateDirectory(). A file among the parents is an error of its
\* own for POSIX, and like a parent that is missing for Windows.
internal_mkdir_through_file == IF platform = "posix" THEN "ENOTDIR" ELSE "ENOENT"

internal_mkdir(s) ==
    LET node == NodeOf(s)
        above == {TypeOf(SubSeq(node, 1, k)) : k \in 1 .. Len(node) - 1}
    IN  CASE above = {"DIR"} \/ above = {} -> IF Exists(node) THEN "EEXIST" ELSE "ok"
          [] above # {"DIR"} /\ "REG" \in above -> internal_mkdir_through_file
          [] OTHER -> "ENOENT"

MkTry ==
    /\ mkAt = "try"
    /\ LET res == internal_mkdir(mkPath)
       IN  /\ tree' = IF res = "ok" THEN With(NodeOf(mkPath), "DIR") ELSE tree
           /\ IF res = "ENOENT"
              THEN /\ mkStack' = Append(mkStack, [len |-> Len(CString(mkPath)), path |-> mkPath])
                   /\ mkPath' = internal_dirname(mkPath)
                   /\ UNCHANGED <<mkAt, mkResult>>
              ELSE /\ mkAt' = "back"
                   /\ mkResult' = IF res = "ENOTDIR" THEN -1 ELSE 0
                   /\ UNCHANGED <<mkPath, mkStack>>
    /\ UNCHANGED <<sysVars, rmVars, mkAsked, created>>


Restore(s, len) ==
    [i \in 1 .. Len(s) |->
        IF i \in Len(CString(s)) + 1 .. len /\ \A j \in Len(CString(s)) + 1 .. i : s[j] = NUL
        THEN "/" ELSE s[i]]

MkBack ==
    /\ mkAt = "back"
    /\ IF mkStack = <<>>
       THEN mkAt' = "done" /\ UNCHANGED <<tree, mkPath, mkStack, mkResult>>
       ELSE LET frame == Last(mkStack)
                buf == IF mkPath = <<".">> THEN frame.path ELSE mkPath
                path == Restore(buf, frame.len)
                ok == mkResult = 0 /\ internal_mkdir(path) = "ok"
            IN  /\ mkPath' = path
                /\ mkStack' = Front(mkStack)
                /\ mkResult' = IF ok THEN 0 ELSE -1
                /\ tree' = IF ok THEN With(NodeOf(path), "DIR") ELSE tree
                /\ UNCHANGED mkAt
    /\ UNCHANGED <<sysVars, rmVars, mkAsked, created>>

-----------------------------------------------------------------------------
\* Another process creates a file; a directory being read may show it.
OtherCreates ==
    /\ Cardinality(created) < Interference /\ rmAt \in {"walk", "last"}
    /\ \E dir \in DOMAIN tree, seen \in BOOLEAN :
        /\ tree[dir] = "DIR" /\ Append(dir, "n") \notin DOMAIN tree
        /\ tree' = With(Append(dir, "n"), "REG")
        /\ created' = created \cup {Append(dir, "n")}
        /\ rmStack' = [i \in 1 .. Len(rmStack) |->
                          IF rmStack[i].dir = dir /\ seen
                          THEN [rmStack[i] EXCEPT !.left = @ \cup {"n"}] ELSE rmStack[i]]
    /\ UNCHANGED <<sysVars, rmAt, rmFlags, rmResult, rmFailed, dirsOpen, mkVars>>

\* Another process makes a component of the path that is being created.
OtherMakes ==
    /\ Cardinality(created) < Interference /\ mkAt \in {"try", "back"}
    /\ \E k \in 1 .. Len(NodeOf(mkAsked)), type \in {"DIR", "REG"} :
        LET node == SubSeq(NodeOf(mkAsked), 1, k)
        IN  /\ ~Exists(node) /\ TypeOf(Front(node)) = "DIR"
            /\ tree' = With(node, type)
            /\ created' = created \cup {node}
    /\ UNCHANGED <<sysVars, rmVars, mkVars>>

\* Either a removal or a creation is under way.
TreeInit ==
    /\ tree \in Trees /\ before = tree
    /\ platform \in Platforms
    /\ \/ /\ rmAt = "start" /\ rmFlags \in RemoveFlags /\ locked \in LockedSets
          /\ mkAt = "none" /\ mkAsked = <<>>
       \/ /\ rmAt = "none" /\ rmFlags = {} /\ locked = {}
          /\ mkAt = "try" /\ mkAsked \in MkdirPaths
          /\ "LNK" \notin Range(tree)
    /\ rmStack = <<>> /\ rmResult = 1 /\ rmFailed = FALSE /\ dirsOpen = 0
    /\ mkPath = mkAsked /\ mkStack = <<>> /\ mkResult = 1
    /\ created = {}

TreeNext ==
    \/ mm_remove \/ RemoveEntry \/ EnterDirectory \/ EndOfDirectory
    \/ LeaveDirectory \/ LeaveRoot \/ RemoveLast
    \/ MkTry \/ MkBack \/ OtherCreates \/ OtherMakes

-----------------------------------------------------------------------------
\* No call of mm_remove() removes what it was not asked to: nothing outside the
\* path, and once a removal has failed under MM_FAILONERROR nothing more inside
\* the path, whatever the recursion has reached and whatever another process
\* creates under it. What is removed is of a type the caller has authorised, but
\* for the directories a recursive removal takes on Windows without being asked
\* ("flags |= MM_DT_DIR" in mm_remove()): the documentation, "removes a file if
\* its type is authorized", does not hold of them.
RemovesOnlyAsked ==
    [][\A n \in DOMAIN tree \ DOMAIN tree' :
            /\ IsPrefix(RemoveRoot, n)
            /\ tree[n] \notin rmFlags =>
                   platform = "win32" /\ RECURSIVE_FLAG \in rmFlags /\ tree[n] = "DIR"
            /\ rmFailed /\ FailsOnError => n = RemoveRoot
      ]_treeVars

\* POSIX removes every subdirectory twice, and under MM_FAILONERROR takes the
\* failure of the second removal for a failure of the whole.
StopsAtSubdirectory ==
    /\ platform = "posix" /\ FailsOnError
    /\ \E n \in DOMAIN before : IsStrictPrefix(RemoveRoot, n) /\ before[n] = "DIR"

\* A recursive removal that nothing resists and nobody disturbs removes the
\* path, unless it runs on POSIX with MM_FAILONERROR and meets a subdirectory;
\* every removal closes the directories it has opened; success means that the
\* path is gone.
RemovesWholeTree ==
    rmAt = "done" =>
        /\ dirsOpen = 0
        /\ rmResult = 0 => ~Exists(RemoveRoot)
        /\ (/\ RECURSIVE_FLAG \in rmFlags /\ {"DIR", "REG", "LNK"} \subseteq rmFlags
            /\ locked = {} /\ created = {} /\ ~StopsAtSubdirectory)
                => ~Exists(RemoveRoot)


-----------------------------------------------------------------------------
(***************************************************************************)
(* Instances: every tree with up to two directories, a file and a link     *)
(* below "d". One more level than RecursionMax leaves a descriptor open on *)
(* POSIX: RemovesWholeTree fails with RecursionMax = 1.                    *)
(***************************************************************************)
Candidate == (<<"d">> :> "DIR") @@ (<<"d", "s">> :> "DIR") @@ (<<"d", "f">> :> "REG")
             @@ (<<"d", "l">> :> "LNK") @@ (<<"d", "s", "s">> :> "DIR")
             @@ (<<"d", "s", "f">> :> "REG") @@ (<<"f">> :> "REG")
SomeTrees ==
    {[n \in S |-> Candidate[n]] : S \in {T \in SUBSET DOMAIN Candidate :
        <<"f">> \in T /\ \A n \in T : Len(n) > 1 => Front(n) \in T}}
AllTypes == {"DIR", "REG", "LNK"}
SomeRemoveFlags ==
    {AllTypes, AllTypes \cup {"RECURSIVE"}, AllTypes \cup {"RECURSIVE", "FAILONERROR"},
     {"REG", "RECURSIVE"}, {"DIR", "REG", "RECURSIVE", "FAILONERROR"}}
SomeLocked == {{}, {<<"d", "s", "f">>}, {<<"d", "s">>}, {<<"d">>}}
SomePaths ==
    {p \in BoundedSeq({"d", "s", "f", "/"}, 6) :
        /\ \E i \in 1 .. Len(p) : p[i] # "/"
        /\ \A i \in 2 .. Len(p) : p[i - 1] = "/" \/ p[i] = "/"}
=============================================================================
