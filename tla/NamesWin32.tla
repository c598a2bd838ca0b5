----------------------------- MODULE NamesWin32 -----------------------------
(***************************************************************************)
(* mm_rename() and mm_unlink() on Windows (src/file-win32.c), where a file *)
(* that is open keeps its name: a file to be removed or replaced is first  *)
(* renamed into the trash of its volume, under a name made from its file   *)
(* id, and deleted there when nothing holds it any more. Volumes are found *)
(* once and kept in a table (src/volume-win32.c).                          *)
(*                                                                         *)
(* The file system is external: links with a name and a file id. A handle  *)
(* is to a link and follows it. One step is one system call, and the other *)
(* threads and programs act between them.                                  *)
(***************************************************************************)
EXTENDS Integers, Sequences, FiniteSets, SequencesExt

CONSTANTS
    Caller,         \* threads of a process that call the library, once each
    Link,           \* links at the start
    FileId,         \* file id of a link
    StartName,      \* name of a link at the start
    Volume,         \* volume of a name
    NameCalls,      \* the calls they may make
    MaxVolumes,     \* size of cached_volumes
    Refusals        \* may the system refuse a trash, or a rename to a free name

VARIABLES
    linkName,       \* name of each link, or Gone
    pending,        \* links that are deleted when their last handle is closed
    held,           \* links another program has open
    nmAt,           \* where the call of each process stands
    nmCall,         \* its arguments
    nmOld,          \* handle of the link it renames or unlinks, NoLink if none
    nmNew,          \* handle of the link that is in the way
    nmResult,       \* what the call has returned
    volumes,        \* cached_volumes
    nmHad,          \* history: the paths of the call that named a file when it began
    asked,          \* history: links a call was to remove or to replace
    refused         \* history: calls whose second attempt the system refused

nameVars == <<linkName, pending, held, nmAt, nmCall, nmOld, nmNew, nmResult,
              volumes, nmHad, asked, refused>>

Gone == <<"gone">>
PathName(n) == <<"name", n>>
NoLink == "none"
IsPathName(name) == name[1] = "name"

ASSUME NamesAssumption ==
    /\ MaxVolumes \in Nat /\ Refusals \in BOOLEAN
    /\ NoLink \notin Link
    /\ \A l \in Link : IsPathName(StartName[l])
    /\ \A k, l \in Link : StartName[k] = StartName[l] => k = l
    /\ NameCalls # {}
    /\ \A x \in NameCalls : x.op \in {"rename", "unlink"} /\ IsPathName(x.path) /\ IsPathName(x.to)

Trash(l) == <<"trash", FileId[l]>>
InTrash(l) == linkName[l] = Trash(l)
VolumeOf(path) == Volume[path[2]]
Dev(l) == VolumeOf(StartName[l])
Named(name) == {l \in Link : linkName[l] = name}
OpenLinks == held \cup {nmOld[c] : c \in Caller} \cup {nmNew[c] : c \in Caller}

-----------------------------------------------------------------------------
(***************************************************************************)
(* Volumes: found in the table or added to it, if there is room.           *)
(***************************************************************************)
get_volume_from_dev(vol) ==
    CASE vol \in Range(volumes) -> {volumes}
      [] vol \notin Range(volumes) /\ Len(volumes) < MaxVolumes -> {Append(volumes, vol)}
      [] OTHER -> {}

-----------------------------------------------------------------------------
NamesInit ==
    /\ linkName = [l \in Link |-> StartName[l]]
    /\ pending = {}
    /\ held \in SUBSET Link
    /\ nmAt = [c \in Caller |-> "idle"]
    /\ nmCall = [c \in Caller |-> CHOOSE x \in NameCalls : TRUE]
    /\ nmOld = [c \in Caller |-> NoLink]
    /\ nmNew = [c \in Caller |-> NoLink]
    /\ nmResult = [c \in Caller |-> 1]
    /\ volumes = <<>>
    /\ nmHad = [c \in Caller |-> {}]
    /\ asked = {} /\ refused = {}

At(c, label) == nmAt[c] = label
NmGoto(c, label) == nmAt' = [nmAt EXCEPT ![c] = label]

\* The call returns: its handles are closed, and what waited for that is gone.
NmReturn(c, rv, names, pend) ==
    LET mine == {nmOld[c], nmNew[c]}
        others == held \cup UNION {{nmOld[d], nmNew[d]} : d \in Caller \ {c}}
    IN  /\ linkName' = [l \in Link |-> IF l \in (mine \cap pend) \ others THEN Gone
                                       ELSE names[l]]
        /\ pending' = pend
        /\ nmOld' = [nmOld EXCEPT ![c] = NoLink]
        /\ nmNew' = [nmNew EXCEPT ![c] = NoLink]
        /\ nmResult' = [nmResult EXCEPT ![c] = rv]
        /\ NmGoto(c, "done")

\* Both calls open the link they are for. A link whose deletion is pending
\* cannot be opened.
OpenOld(c) ==
    /\ At(c, "idle")
    /\ \E x \in NameCalls :
        LET links == Named(x.path) \ pending
        IN  /\ nmCall' = [nmCall EXCEPT ![c] = x]
            /\ nmHad' = [nmHad EXCEPT ![c] = {n \in {x.path, x.to} : Named(n) # {}}]
            /\ IF links = {}
               THEN /\ nmResult' = [nmResult EXCEPT ![c] = -1]
                    /\ NmGoto(c, "done") /\ UNCHANGED <<nmOld, asked>>
               ELSE /\ \E l \in links :
                        /\ nmOld' = [nmOld EXCEPT ![c] = l]
                        /\ asked' = IF x.op = "unlink" THEN asked \cup {l} ELSE asked
                    /\ NmGoto(c, IF x.op = "rename" THEN "rename" ELSE "volume")
                    /\ UNCHANGED nmResult
    /\ UNCHANGED <<linkName, pending, held, nmNew, volumes, refused>>

\* SetFileInformationByHandle() does not replace, and stays in the volume.
CanRename(l, name) ==
    Named(name) \subseteq {l} /\ l \notin pending /\ VolumeOf(name) = Dev(l)

TryRename(c) ==
    /\ At(c, "rename")
    /\ \/ /\ CanRename(nmOld[c], nmCall[c].to)
          /\ NmReturn(c, 0, [linkName EXCEPT ![nmOld[c]] = nmCall[c].to], pending)
       \/ /\ ~CanRename(nmOld[c], nmCall[c].to) \/ Refusals
          /\ NmGoto(c, "opennew")
          /\ UNCHANGED <<linkName, pending, nmOld, nmNew, nmResult>>
    /\ UNCHANGED <<held, nmCall, volumes, nmHad, asked, refused>>

OpenNew(c) ==
    /\ At(c, "opennew")
    /\ LET links == Named(nmCall[c].to) \ pending
       IN  IF links = {} THEN NmReturn(c, -1, linkName, pending) /\ UNCHANGED asked
           ELSE /\ \E l \in links : /\ nmNew' = [nmNew EXCEPT ![c] = l]
                                   /\ asked' = asked \cup {l}
                /\ NmGoto(c, "volume")
                /\ UNCHANGED <<linkName, pending, nmOld, nmResult>>
    /\ UNCHANGED <<held, nmCall, volumes, nmHad, refused>>

(***************************************************************************)
(* rename_file_to_trash_from_handle(), of the link in the way or of the    *)
(* one to unlink: the trash is found, the files left in it are deleted one *)
(* by one, and the link is renamed to its name there. The loop of          *)
(* scrub_user_trash_path() ignores failures and need not see what comes    *)
(* while it runs, so it may end at any time.                               *)
(***************************************************************************)
Target(c) == IF nmCall[c].op = "rename" THEN nmNew[c] ELSE nmOld[c]

FindTrash(c) ==
    /\ At(c, "volume")
    /\ \/ /\ volumes' \in get_volume_from_dev(Dev(Target(c)))
          /\ NmGoto(c, "scrub")
          /\ UNCHANGED <<linkName, pending, nmOld, nmNew, nmResult>>
       \/ /\ get_volume_from_dev(Dev(Target(c))) = {} \/ Refusals
          /\ volumes' \in {volumes} \cup get_volume_from_dev(Dev(Target(c)))
          /\ NmReturn(c, -1, linkName, pending)
    /\ UNCHANGED <<held, nmCall, nmHad, asked, refused>>

ScrubOne(c) ==
    /\ At(c, "scrub")
    /\ \E l \in Link :
        /\ InTrash(l) /\ l \notin pending /\ Dev(l) = Dev(Target(c))
        /\ IF l \in OpenLinks
           THEN pending' = pending \cup {l} /\ UNCHANGED linkName
           ELSE linkName' = [linkName EXCEPT ![l] = Gone] /\ UNCHANGED pending
    /\ UNCHANGED <<held, nmAt, nmCall, nmOld, nmNew, nmResult, volumes, nmHad, asked, refused>>

RenameToTrash(c) ==
    /\ At(c, "scrub")
    /\ LET l == Target(c)
           free == Named(Trash(l)) \subseteq {l} /\ l \notin pending
       IN  \/ /\ free
              /\ linkName' = [linkName EXCEPT ![l] = Trash(l)]
              /\ NmGoto(c, IF nmCall[c].op = "rename" THEN "retry" ELSE "dispose")
              /\ UNCHANGED <<pending, nmOld, nmNew, nmResult>>
           \/ /\ ~free \/ Refusals
              /\ NmReturn(c, -1, linkName, pending)
    /\ UNCHANGED <<held, nmCall, volumes, nmHad, asked, refused>>

\* The name is free, but oldpath is not moved to it.
RetryRename_Gives_Up(c) ==
    /\ At(c, "retry")
    /\ NmReturn(c, -1, linkName, pending)
    /\ UNCHANGED <<held, nmCall, volumes, nmHad, asked, refused>>

RetryRename(c) ==
    /\ At(c, "retry")
    /\ \/ /\ CanRename(nmOld[c], nmCall[c].to)
          /\ NmReturn(c, 0, [linkName EXCEPT ![nmOld[c]] = nmCall[c].to], pending)
          /\ UNCHANGED refused
       \/ /\ ~CanRename(nmOld[c], nmCall[c].to) \/ Refusals
          /\ NmReturn(c, -1, linkName, pending)
          /\ refused' = IF CanRename(nmOld[c], nmCall[c].to) THEN refused \cup {c} ELSE refused
    /\ UNCHANGED <<held, nmCall, volumes, nmHad, asked>>

\* mm_unlink(): the link is in the trash, its deletion is asked for.
Dispose_Not(c) ==
    /\ At(c, "dispose")
    /\ NmReturn(c, 0, linkName, pending)
    /\ UNCHANGED <<held, nmCall, volumes, nmHad, asked, refused>>

Dispose(c) ==
    /\ At(c, "dispose")
    /\ NmReturn(c, 0, linkName, pending \cup {nmOld[c]})
    /\ UNCHANGED <<held, nmCall, volumes, nmHad, asked, refused>>

\* The other program closes the file.
Release(l) ==
    /\ l \in held
    /\ held' = held \ {l}
    /\ linkName' = IF l \in pending /\ \A c \in Caller : l \notin {nmOld[c], nmNew[c]}
                   THEN [linkName EXCEPT ![l] = Gone] ELSE linkName
    /\ UNCHANGED <<pending, nmAt, nmCall, nmOld, nmNew, nmResult, volumes, nmHad, asked, refused>>

NamesNext ==
    \/ \E c \in Caller : \/ OpenOld(c) \/ TryRename(c) \/ OpenNew(c) \/ FindTrash(c)
                         \/ ScrubOne(c) \/ RenameToTrash(c) \/ RetryRename(c) \/ Dispose(c)
    \/ \E l \in Link : Release(l)

-----------------------------------------------------------------------------
Unlinks(c) == nmCall[c].op = "unlink" /\ nmAt[c] = "done" /\ nmResult[c] = 0
Others(c) == {d \in Caller \ {c} : nmAt[d] # "idle"}
Contended(c, name) == \E d \in Others(c) : name \in {nmCall[d].path, nmCall[d].to}

\* The second attempt of a rename fails only because of what is at newpath:
\* the paths are of one volume and the system has no reason of its own.
Renames(c) == VolumeOf(nmCall[c].path) = VolumeOf(nmCall[c].to) /\ c \notin refused

\* A rename to another name that fails leaves both names. Oldpath still names a file, if no
\* other call is for it. So does newpath, its own or that of a concurrent call
\* with the same target, if moreover no other call moves or removes what is
\* there, and no rename to it is across volumes or is refused once the target
\* is in the trash: mm_rename() does not put it back, and the name is lost.
FailedRenameKeepsName ==
    \A c \in Caller :
        LET x == nmCall[c]
        IN  (/\ nmAt[c] = "done" /\ x.op = "rename" /\ nmResult[c] = -1
             /\ x.path # x.to /\ ~Contended(c, x.path)) =>
            /\ x.path \in nmHad[c] => Named(x.path) # {}
            /\ (/\ x.to \in nmHad[c] /\ Renames(c)
                /\ \A d \in Others(c) : /\ nmCall[d].path # x.to /\ nmAt[d] # "retry"
                                        /\ nmCall[d].to = x.to => Renames(d))
                => Named(x.to) # {}

\* Names are never shared. A link that is deleted or in the trash was asked for:
\* a call opened it to unlink it, or to put another in its place. When all calls
\* are over, an unlinked file that nothing holds is deleted, though it had to be
\* renamed first and others scrub the same trash meanwhile.
LinksAccounted ==
    /\ \A k, l \in Link : (k # l /\ linkName[k] # Gone) => linkName[k] # linkName[l]
    /\ \A l \in Link : linkName[l] \in {Gone, Trash(l)} => l \in asked
    /\ (\A c \in Caller : Unlinks(c)) =>
            \A l \in Link \ held : ~InTrash(l)

-----------------------------------------------------------------------------
(***************************************************************************)
(* Instances: three files of one volume, which are renamed and unlinked,   *)
(* and a fourth of another, with a rename across volumes. Two calls one of *)
(* which replaces the source of the other are Contended: the file may be   *)
(* scrubbed from the trash by the very call that means to rename it.       *)
(***************************************************************************)
OneFileEach == [l \in Link |-> l]
TwoVolumes == [n \in Link \cup {"w"} |-> IF n = "u" THEN "C" ELSE "D"]
OwnNames == [l \in Link |-> PathName(l)]
Rename(a, b) == [op |-> "rename", path |-> PathName(a), to |-> PathName(b)]
Unlink(a) == [op |-> "unlink", path |-> PathName(a), to |-> PathName(a)]
SomeNameCalls ==
    {Rename(a, b) : a \in {"x", "y"}, b \in {"y", "z", "w"}}
    \cup {Rename("x", "u")} \cup {Unlink(a) : a \in {"x", "z", "u"}}
=============================================================================
