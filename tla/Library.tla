------------------------------ MODULE Library -------------------------------
(***************************************************************************)
(* The parts of the library that do not share state with one another,      *)
(* side by side: a behaviour is one of a single part, chosen at the start, *)
(* and the others stay in an idle state.                                   *)
(***************************************************************************)
EXTENDS ArgParse, CmdLine, ProcessWin32, FdWin32, FileTree, NamesWin32,
        FileCopy, PathNames, IpcWin32, Mappings, EnvWin32, Profile

VARIABLE part       \* the part this behaviour is about

\* The idle states.
SomeParser == CHOOSE p \in Parsers : TRUE
SomePath == CHOOSE p \in MkdirPaths : TRUE
SomeTree == CHOOSE t \in Trees : "LNK" \notin Range(t)
ArgIdle  == args = <<>> /\ parser = SomeParser /\ peek = FALSE /\ ArgInit
CmdIdle  == cmdAt = "created" /\ cmdArgv = <<>> /\ cmdline = <<>> /\ CmdInit
FdIdle   == FdInit /\ opened[1].kind = "console"
TreeIdle == rmAt = "none" /\ mkAsked = SomePath /\ tree = SomeTree /\ TreeInit
NameIdle == held = {} /\ NamesInit
SomeSource == CHOOSE s \in Sources : s.type = "absent"
CopyIdle == cpWin = FALSE /\ cpFlags = {} /\ source = SomeSource /\ dstName = "none" /\ CopyInit
PathIdle == pnPath = <<>> /\ PathInit
MapIdle  == shmLeft = FALSE /\ MapInit
EnvIdle  == EnvInit /\ \A x \in Variable : crt[x].value = NotSet

LibInit ==
    /\ part \in {"args", "cmdline", "process", "fd", "tree", "names", "copy", "path", "ipc",
                "mappings", "env", "profile"}
    /\ IF part = "args"    THEN TRUE ELSE ArgIdle
    /\ IF part = "cmdline" THEN TRUE ELSE CmdIdle
    /\ IF part = "fd"      THEN TRUE ELSE FdIdle
    /\ IF part = "tree"    THEN TRUE ELSE TreeIdle
    /\ IF part = "names"   THEN TRUE ELSE NameIdle
    /\ IF part = "copy"    THEN TRUE ELSE CopyIdle
    /\ IF part = "path"    THEN TRUE ELSE PathIdle
    /\ IF part = "mappings" THEN TRUE ELSE MapIdle
    /\ IF part = "env"     THEN TRUE ELSE EnvIdle
    /\ WinInit
    /\ IpcInit
    /\ ProfInit
    /\ part = "args"    => ArgInit
    /\ part = "cmdline" => CmdInit
    /\ part = "fd"      => FdInit
    /\ part = "tree"    => TreeInit
    /\ part = "names"   => NamesInit
    /\ part = "copy"    => CopyInit
    /\ part = "path"    => PathInit
    /\ part = "mappings" => MapInit
    /\ part = "env"     => EnvInit

LibNext ==
    /\ part' = part
    /\ \/ /\ part = "args" /\ ArgNext
          /\ UNCHANGED <<cmdVars, winVars, fdVars, treeVars, nameVars, copyVars,
                         pathVars, ipcVars, mapVars, envVars, profVars>>
       \/ /\ part = "cmdline" /\ CmdNext
          /\ UNCHANGED <<argVars, winVars, fdVars, treeVars, nameVars, copyVars,
                         pathVars, ipcVars, mapVars, envVars, profVars>>
       \/ /\ part = "process" /\ WinNext
          /\ UNCHANGED <<argVars, cmdVars, fdVars, treeVars, nameVars, copyVars,
                         pathVars, ipcVars, mapVars, envVars, profVars>>
       \/ /\ part = "fd" /\ FdNext
          /\ UNCHANGED <<argVars, cmdVars, winVars, treeVars, nameVars, copyVars,
                         pathVars, ipcVars, mapVars, envVars, profVars>>
       \/ /\ part = "tree" /\ TreeNext
          /\ UNCHANGED <<argVars, cmdVars, winVars, fdVars, nameVars, copyVars,
                         pathVars, ipcVars, mapVars, envVars, profVars>>
       \/ /\ part = "names" /\ NamesNext
          /\ UNCHANGED <<argVars, cmdVars, winVars, fdVars, treeVars, copyVars,
                         pathVars, ipcVars, mapVars, envVars, profVars>>
       \/ /\ part = "copy" /\ CopyNext
          /\ UNCHANGED <<argVars, cmdVars, winVars, fdVars, treeVars, nameVars,
                         pathVars, ipcVars, mapVars, envVars, profVars>>
       \/ /\ part = "path" /\ PathNext
          /\ UNCHANGED <<argVars, cmdVars, winVars, fdVars, treeVars, nameVars,
                         copyVars, ipcVars, mapVars, envVars, profVars>>
       \/ /\ part = "ipc" /\ IpcNext
          /\ UNCHANGED <<argVars, cmdVars, winVars, fdVars, treeVars, nameVars,
                         copyVars, pathVars, mapVars, envVars, profVars>>
       \/ /\ part = "mappings" /\ MapNext
          /\ UNCHANGED <<argVars, cmdVars, winVars, fdVars, treeVars, nameVars,
                         copyVars, pathVars, ipcVars, envVars, profVars>>
       \/ /\ part = "env" /\ EnvNext
          /\ UNCHANGED <<argVars, cmdVars, winVars, fdVars, treeVars, nameVars,
                         copyVars, pathVars, ipcVars, mapVars, profVars>>
       \/ /\ part = "profile" /\ ProfNext
          /\ UNCHANGED <<argVars, cmdVars, winVars, fdVars, treeVars, nameVars,
                         copyVars, pathVars, ipcVars, mapVars, envVars>>
=============================================================================
