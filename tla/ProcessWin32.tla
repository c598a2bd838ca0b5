---------------------------- MODULE ProcessWin32 ----------------------------
(***************************************************************************)
(* mm_spawn(), mm_wait_process() and mm_execv() on Windows                 *)
(* (src/process-win32.c): threads of one process spawn children, wait for  *)
(* them, and may replace the process by another program.                   *)
(*                                                                         *)
(* The kernel is external: a table of handles that gives out the lowest    *)
(* free number, processes that end on their own, and process identifiers   *)
(* that are used again once the process has ended and no handle refers to  *)
(* it. The library keeps a list that leads from an identifier to a handle. *)
(* A step is one system call or one critical section of the list's lock.   *)
(* Each thread spawns once and waits for what it has spawned.              *)
(***************************************************************************)
EXTENDS Integers, Sequences, FiniteSets, FiniteSetsExt, SequencesExt

CONSTANTS
    WinThread,      \* threads that call the library, once each
    ExecThread,     \* the one that may call mm_execv()
    WinCalls,       \* the calls they may make
    KnownFds,       \* descriptors of which fd_infos says what they are
    FirstMax,       \* num_max of the list after its first allocation
    ListAllocFails, \* may realloc() in add_to_children_list() fail
    RemoteThreadFails  \* may CreateRemoteThread() in waited_child() fail

ASSUME ProcessAssumption ==
    /\ IsFiniteSet(WinThread) /\ FirstMax \in Nat \ {0}
    /\ KnownFds \subseteq 0 .. 3
    /\ ListAllocFails \in BOOLEAN /\ RemoteThreadFails \in BOOLEAN
    /\ \A c \in WinCalls :
        /\ c.fd_map \in Seq([child_fd : Int, parent_fd : Int])
        /\ c.daemon \in BOOLEAN /\ c.exec \in BOOLEAN

VARIABLES
    winAt,          \* where the call of a thread stands
    winCall,        \* its arguments
    winCfg,         \* its struct startup_config
    winPid,         \* the identifier mm_spawn() has returned, 0 if none
    winHnd,         \* the handle the call works on
    winMine,        \* history: the process created for the thread, 0 if none
    winCode,        \* exit code read, and at the end the status returned
    hnds,           \* handles of the process: object and inheritable
    procs,          \* processes created, in order
    children,       \* children_list: entries and num_max
    toExit,         \* child_hnd_to_exit
    self            \* the process itself: running, or the code it ended with

winVars == <<winAt, winCall, winCfg, winPid, winHnd, winMine, winCode, hnds,
             procs, children, toExit, self>>

-----------------------------------------------------------------------------
(***************************************************************************)
(* The kernel. Handle 0 stands for INVALID_HANDLE_VALUE and NULL. The      *)
(* process starts with descriptors 0 to 3, under the handles 1 to 4.       *)
(***************************************************************************)
NoObject == <<>>
FileObj(n) == <<"file", n>>
ProcObj(i) == <<"process", i>>
Slot(obj, inherit) == [obj |-> obj, inherit |-> inherit]
FreeSlot == Slot(NoObject, FALSE)

Handle == 1 .. 4 + 6 * Cardinality(WinThread)
FreeHandles(table) == {h \in Handle : table[h] = FreeSlot}
CloseHandle(table, H) == [h \in Handle |-> IF h \in H THEN FreeSlot ELSE table[h]]

\* close_all_known_fds() of mm_execv() leaves open what it knows nothing of.
OpenFd == IF \E t \in WinThread : winAt[t] \in {"execwait", "gone"}
          THEN (0 .. 3) \ KnownFds ELSE 0 .. 3
_get_osfhandle(fd) == IF fd \in OpenFd THEN fd + 1 ELSE 0
FdHandles == {_get_osfhandle(fd) : fd \in OpenFd}

\* fd_infos: what a descriptor is, or FD_TYPE_UNKNOWN for one that the library
\* has neither opened, nor inherited with its info, nor looked at so far.
UnknownInfo == <<>>
KindOf(fd) == <<"kind of", fd>>
get_fd_info(fd) == IF fd \in KnownFds THEN KindOf(fd) ELSE UnknownInfo

\* A process runs, is about to end because a thread in it has been made to call
\* ExitProcess(), or has ended with a code.
ExitCode == {"code", "fault", "ctrl_c"}
Alive == "alive"
Ending == "ending"

PidInUse(p) ==
    \E i \in 1 .. Len(procs) :
        /\ procs[i].pid = p
        /\ procs[i].state \notin ExitCode \/ \E h \in Handle : hnds[h].obj = ProcObj(i)
Pid == 1 .. Cardinality(WinThread)

-----------------------------------------------------------------------------
(***************************************************************************)
(* struct startup_config: what the child is told about its descriptors.    *)
(***************************************************************************)
std_fd_mappings == <<[child_fd |-> 0, parent_fd |-> 0],
                     [child_fd |-> 1, parent_fd |-> 1],
                     [child_fd |-> 2, parent_fd |-> 2]>>

get_highest_child_fd(fd_map) ==
    Max({-1} \cup {fd_map[i].child_fd : i \in 1 .. Len(fd_map)})

\* The number of descriptors is rounded up so that the handles are aligned:
\* sizeof(int) is 4, sizeof(HANDLE) 8.
round_up(value, divider) == ((value + divider - 1) \div divider) * divider
num_crt_fd(num_fd) == round_up(4 + num_fd, 8) - 4

NoConfig == [failed |-> FALSE, num_fd |-> 0, hnd |-> <<>>, flags |-> <<>>,
             infos |-> <<>>, inherited |-> {}]

startup_config_allocate(num_fd) ==
    LET fds == 0 .. num_crt_fd(num_fd) - 1
    IN  [NoConfig EXCEPT !.num_fd = num_fd,
                         !.hnd = [fd \in fds |-> 0],
                         !.flags = [fd \in fds |-> {}],
                         !.infos = [fd \in fds |-> UnknownInfo]]

\* FPIPE, FDEV, FAPPEND and FTEXT follow from the info. An unknown descriptor is
\* announced to the runtime of the child as a binary file.
convert_fdinfo_to_crtflags(info) ==
    IF info = UnknownInfo THEN {"FOPEN"} ELSE {"FOPEN", info}

\* A descriptor that is closed in the child keeps the info of an earlier
\* element for the same descriptor.
MapFails(e) ==
    e.child_fd < 0 \/ (e.parent_fd # -1 /\ _get_osfhandle(e.parent_fd) = 0)
MapOne(cfg, e) ==
    IF cfg.failed \/ MapFails(e) THEN [cfg EXCEPT !.failed = TRUE]
    ELSE IF e.parent_fd = -1
    THEN [cfg EXCEPT !.hnd[e.child_fd] = 0, !.flags[e.child_fd] = {}]
    ELSE LET info == get_fd_info(e.parent_fd)
         IN  [cfg EXCEPT !.hnd[e.child_fd] = _get_osfhandle(e.parent_fd),
                         !.flags[e.child_fd] = convert_fdinfo_to_crtflags(info),
                         !.infos[e.child_fd] = info]

MapRun(cfg, fd_map) ==
    LET run[k \in 0 .. Len(fd_map)] ==
            IF k = 0 THEN cfg ELSE MapOne(run[k - 1], fd_map[k])
    IN  run
startup_config_setup_mappings(cfg, fd_map) == MapRun(cfg, fd_map)[Len(fd_map)]

\* Standard descriptors last: what the caller asks for 0, 1 and 2 is lost.
Mapped_StdLast(fd_map) ==
    startup_config_setup_mappings(
        startup_config_setup_mappings(
            startup_config_allocate(Max({get_highest_child_fd(fd_map) + 1, 3})),
            fd_map), std_fd_mappings)

Mapped(fd_map) ==
    startup_config_setup_mappings(
        startup_config_setup_mappings(
            startup_config_allocate(Max({get_highest_child_fd(fd_map) + 1, 3})),
            std_fd_mappings), fd_map)

\* dup_inherited_hnds(): the handle of a descriptor that is inherited is replaced
\* by a duplicate, under the lowest free number.
Inherited(cfg, fd) == cfg.hnd[fd] # 0 /\ "FOPEN" \in cfg.flags[fd]
DuplicateHandle(d, fd) ==
    IF d.cfg.failed \/ ~Inherited(d.cfg, fd) THEN d
    ELSE IF FreeHandles(d.table) = {} THEN [d EXCEPT !.cfg.failed = TRUE]
    ELSE LET h == Min(FreeHandles(d.table))
         IN  [cfg |-> [d.cfg EXCEPT !.hnd[fd] = h, !.inherited = @ \cup {h}],
              table |-> [d.table EXCEPT ![h] = Slot(d.table[d.cfg.hnd[fd]].obj, TRUE)]]

DupRun(cfg) ==
    LET run[fd \in 0 .. cfg.num_fd] ==
            IF fd = 0 THEN [cfg |-> cfg, table |-> hnds]
            ELSE DuplicateHandle(run[fd - 1], fd - 1)
    IN  run
\* The descriptor at which the loop ends: one whose duplication fails, or the last.
LoopEnds(cfg) == {fd \in 0 .. cfg.num_fd - 1 : Inherited(cfg, fd)} \cup {cfg.num_fd}

-----------------------------------------------------------------------------
(***************************************************************************)
(* mm_spawn().                                                             *)
(***************************************************************************)
WinInit ==
    /\ winAt = [t \in WinThread |-> "idle"]
    /\ winCall = [t \in WinThread |-> CHOOSE c \in WinCalls : TRUE]
    /\ winCfg = [t \in WinThread |-> NoConfig]
    /\ winPid = [t \in WinThread |-> 0]
    /\ winHnd = [t \in WinThread |-> 0]
    /\ winMine = [t \in WinThread |-> 0]
    /\ winCode = [t \in WinThread |-> "none"]
    /\ hnds = [h \in Handle |-> IF h \in 1 .. 4 THEN Slot(FileObj(h - 1), FALSE)
                                ELSE FreeSlot]
    /\ procs = <<>>
    /\ children = [entries |-> <<>>, num_max |-> 0]
    /\ toExit = 0
    /\ self = "running"

WinGoto(t, label) == winAt' = [winAt EXCEPT ![t] = label]
Now(t, label) == self = "running" /\ winAt[t] = label

\* search_bin_in_path(): each directory of PATH, without and with ".exe".
search_bin_in_path(found) ==
    CASE \E i \in 1 .. Len(found) : found[i] = "ok" -> "ok"
      [] "denied" \in Range(found) /\ "ok" \notin Range(found) -> "EACCES"
      [] OTHER -> "ENOENT"

\* A call begins with its arguments checked, and fails without an effect. Only
\* one thread replaces the process.
CallSpawn(t) ==
    /\ Now(t, "idle")
    /\ \E c \in WinCalls :
        /\ c.exec => t = ExecThread
        /\ winCall' = [winCall EXCEPT ![t] = c]
        /\ WinGoto(t, IF c.keepfds \/ search_bin_in_path(c.path) # "ok" THEN "done"
                   ELSE "config")
    /\ UNCHANGED <<winCfg, winPid, winHnd, winMine, winCode, hnds, procs,
                   children, toExit, self>>

\* A failing step of startup_config_init() that left its duplicates open.
startup_config_init_Leaks(t) ==
    /\ Now(t, "config")
    /\ LET cfg == Mapped(winCall[t].fd_map)
       IN  IF cfg.failed THEN WinGoto(t, "done") /\ UNCHANGED <<winCfg, hnds>>
           ELSE \E end \in LoopEnds(cfg) :
                    LET dup == DupRun(cfg)[end]
                    IN  /\ winCfg' = [winCfg EXCEPT ![t] = dup.cfg]
                        /\ hnds' = dup.table
                        /\ WinGoto(t, IF end = cfg.num_fd /\ ~dup.cfg.failed THEN "create"
                                   ELSE "done")
    /\ UNCHANGED <<winCall, winPid, winHnd, winMine, winCode, procs, children,
                   toExit, self>>

\* startup_config_init(): on failure startup_config_deinit() has closed what was
\* duplicated when the call returns.
startup_config_init(t) ==
    /\ Now(t, "config")
    /\ LET cfg == Mapped(winCall[t].fd_map)
       IN  IF cfg.failed THEN WinGoto(t, "done") /\ UNCHANGED <<winCfg, hnds>>
           ELSE \E end \in LoopEnds(cfg) :
                    LET dup == DupRun(cfg)[end]
                    IN  /\ winCfg' = [winCfg EXCEPT ![t] = dup.cfg]
                        /\ hnds' = dup.table
                        /\ WinGoto(t, IF end = cfg.num_fd /\ ~dup.cfg.failed THEN "create"
                                   ELSE "abort")
    /\ UNCHANGED <<winCall, winPid, winHnd, winMine, winCode, procs, children,
                   toExit, self>>

\* CreateProcessW() with the list of handles to inherit. An empty list is
\* refused by UpdateProcThreadAttribute(), unnoticed, and all inheritable
\* handles are passed on. mm_fd_init() of the child takes over the infos.
CreateProcess(t) ==
    /\ Now(t, "create")
    /\ \/ /\ FreeHandles(hnds) # {}
          /\ LET cfg == winCfg[t]
                 passed == IF cfg.inherited # {} THEN cfg.inherited
                           ELSE {h \in Handle : hnds[h].inherit}
                 i == Len(procs) + 1
                 h == Min(FreeHandles(hnds))
             IN  /\ \E pid \in Pid :
                        /\ ~PidInUse(pid)
                        /\ procs' = Append(procs,
                            [pid |-> pid, state |-> Alive,
                             fds |-> [fd \in DOMAIN cfg.hnd |->
                                 IF "FOPEN" \in cfg.flags[fd] /\ cfg.hnd[fd] \in passed
                                 THEN hnds[cfg.hnd[fd]].obj ELSE NoObject],
                             infos |-> cfg.infos,
                             held |-> {hnds[x].obj : x \in passed},
                             asked |-> winCall[t].fd_map])
                 /\ hnds' = [hnds EXCEPT ![h] = Slot(ProcObj(i), FALSE)]
                 /\ winHnd' = [winHnd EXCEPT ![t] = h]
                 /\ winMine' = [winMine EXCEPT ![t] = i]
                 /\ WinGoto(t, "created")
       \/ WinGoto(t, "abort") /\ UNCHANGED <<procs, hnds, winHnd, winMine>>
    /\ UNCHANGED <<winCall, winCfg, winPid, winCode, children, toExit, self>>

startup_config_deinit(t) ==
    /\ \/ Now(t, "created") /\ WinGoto(t, "register")
       \/ Now(t, "abort") /\ WinGoto(t, "done")
    /\ hnds' = CloseHandle(hnds, winCfg[t].inherited)
    /\ winCfg' = [winCfg EXCEPT ![t] = NoConfig]
    /\ UNCHANGED <<winCall, winPid, winHnd, winMine, winCode, procs, children,
                   toExit, self>>

\* add_to_children_list(), whose failure mm_spawn() does not look at; or the
\* handle is closed because nobody will wait.
RegisterChild(t) ==
    /\ Now(t, "register") /\ ~winCall[t].daemon
    /\ LET full == Len(children.entries) >= children.num_max
           entry == [pid |-> procs[winMine[t]].pid, hnd |-> winHnd[t]]
       IN  \E ok \in IF full /\ ListAllocFails THEN BOOLEAN ELSE {TRUE} :
            children' =
                IF ~ok THEN children
                ELSE [entries |-> Append(children.entries, entry),
                      num_max |-> CASE ~full -> children.num_max
                                    [] full /\ children.num_max = 0 -> FirstMax
                                    [] OTHER -> 2 * children.num_max]
    /\ winPid' = [winPid EXCEPT ![t] = procs[winMine[t]].pid]
    /\ WinGoto(t, IF winCall[t].exec THEN "exec" ELSE "spawned")
    /\ UNCHANGED <<winCall, winCfg, winHnd, winMine, winCode, hnds, procs,
                   toExit, self>>

ForgetDaemon(t) ==
    /\ Now(t, "register") /\ winCall[t].daemon
    /\ hnds' = CloseHandle(hnds, {winHnd[t]})
    /\ winMine' = [winMine EXCEPT ![t] = 0]
    /\ WinGoto(t, "done")
    /\ UNCHANGED <<winCall, winCfg, winPid, winHnd, winCode, procs, children,
                   toExit, self>>

-----------------------------------------------------------------------------
(***************************************************************************)
(* mm_wait_process() and mm_execv().                                       *)
(***************************************************************************)
Entries(pid) == {i \in 1 .. Len(children.entries) : children.entries[i].pid = pid}
get_handle_from_children_list(pid) ==
    IF Entries(pid) = {} THEN 0 ELSE children.entries[Min(Entries(pid))].hnd
drop_child_from_children_list(pid) ==
    [children EXCEPT !.entries = RemoveAt(@, Min(Entries(pid)))]

GetHandle(t) ==
    /\ Now(t, "spawned")
    /\ winHnd' = [winHnd EXCEPT ![t] = get_handle_from_children_list(winPid[t])]
    /\ WinGoto(t, IF winHnd'[t] = 0 THEN "echild" ELSE "wait")
    /\ UNCHANGED <<winCall, winCfg, winPid, winMine, winCode, hnds, procs,
                   children, toExit, self>>

Signaled(h) ==
    hnds[h].obj = NoObject \/ \E i \in 1 .. Len(procs) :
        hnds[h].obj = ProcObj(i) /\ procs[i].state \in ExitCode
CodeOf(h) == IF hnds[h].obj = NoObject THEN "none" ELSE procs[hnds[h].obj[2]].state

\* WaitForSingleObject() and GetExitCodeProcess().
WaitExit(t) ==
    /\ Now(t, "wait") /\ hnds[winHnd[t]].obj \notin {FileObj(n) : n \in 0 .. 3}
    /\ Signaled(winHnd[t])
    /\ winCode' = [winCode EXCEPT ![t] = CodeOf(winHnd[t])]
    /\ WinGoto(t, "drop")
    /\ UNCHANGED <<winCall, winCfg, winPid, winHnd, winMine, hnds, procs,
                   children, toExit, self>>

translate_exitcode_in_status(code) ==
    CASE code = "code"   -> "exited"
      [] code = "fault"  -> "SIGSEGV"
      [] code = "ctrl_c" -> "SIGINT"
      [] OTHER           -> "SIGABRT"

\* mm_check() in drop_child_from_children_list() aborts the process if another
\* thread has dropped the entry.
DropChild(t) ==
    /\ Now(t, "drop")
    /\ IF Entries(winPid[t]) = {}
       THEN self' = "aborted" /\ UNCHANGED <<children, winAt>>
       ELSE /\ children' = drop_child_from_children_list(winPid[t])
            /\ WinGoto(t, "close")
            /\ UNCHANGED self
    /\ UNCHANGED <<winCall, winCfg, winPid, winHnd, winMine, winCode, hnds,
                   procs, toExit>>

CloseChild(t) ==
    /\ Now(t, "close")
    /\ hnds' = CloseHandle(hnds, {winHnd[t]})
    /\ winCode' = [winCode EXCEPT ![t] = translate_exitcode_in_status(@)]
    /\ WinGoto(t, "done")
    /\ UNCHANGED <<winCall, winCfg, winPid, winHnd, winMine, procs, children,
                   toExit, self>>

\* mm_execv() after its mm_spawn(): the handle is published for the destructor,
\* then the entry is dropped and the descriptors that are known are closed.
ExecTakeOver(t) ==
    /\ Now(t, "exec")
    /\ toExit' = get_handle_from_children_list(winPid[t])
    /\ winHnd' = [winHnd EXCEPT ![t] = toExit']
    /\ IF toExit' = 0
       THEN self' = "aborted" /\ UNCHANGED <<children, winAt, hnds>>
       ELSE /\ children' = drop_child_from_children_list(winPid[t])
            /\ hnds' = CloseHandle(hnds, {fd + 1 : fd \in KnownFds})
            /\ WinGoto(t, "execwait")
            /\ UNCHANGED self
    /\ UNCHANGED <<winCall, winCfg, winPid, winMine, winCode, procs>>

\* The wait ends with the program; the process exits with its code.
ExecFinish(t) ==
    /\ Now(t, "execwait") /\ Signaled(winHnd[t])
    /\ self' = CodeOf(winHnd[t])
    /\ toExit' = 0
    /\ hnds' = CloseHandle(hnds, {winHnd[t]})
    /\ WinGoto(t, "gone")
    /\ UNCHANGED <<winCall, winCfg, winPid, winHnd, winMine, winCode, procs,
                   children>>

\* No destructor: the program is left running.
ExitEarly_LeavesProgram(t) ==
    /\ Now(t, "execwait")
    /\ self' = "ctrl_c"
    /\ hnds' = CloseHandle(hnds, {toExit})
    /\ toExit' = 0
    /\ UNCHANGED <<winAt, winCall, winCfg, winPid, winHnd, winMine, winCode, procs,
                   children>>

\* The process exits by itself, or on a request of the console, while it stands
\* for the program: the destructor waited_child() starts a thread in the program
\* that calls ExitProcess(), does not wait for the program to end, and does not
\* look whether the thread could be started.
ExitEarly(t) ==
    /\ Now(t, "execwait")
    /\ self' = "ctrl_c"
    /\ \E started \in IF RemoteThreadFails THEN BOOLEAN ELSE {TRUE} :
          LET program == hnds[toExit].obj[2]
          IN  procs' = IF started /\ procs[program].state = Alive
                       THEN [procs EXCEPT ![program].state = Ending] ELSE procs
    /\ hnds' = CloseHandle(hnds, {toExit})
    /\ toExit' = 0
    /\ UNCHANGED <<winAt, winCall, winCfg, winPid, winHnd, winMine, winCode,
                   children>>

\* The same before the handle of the program is published: the destructor finds
\* none and leaves the program running.
ExitBeforeTakeOver(t) ==
    /\ winCall[t].exec
    /\ Now(t, "created") \/ Now(t, "register") \/ Now(t, "exec")
    /\ self' = "ctrl_c"
    /\ UNCHANGED <<winAt, winCall, winCfg, winPid, winHnd, winMine, winCode, hnds,
                   procs, children, toExit>>

ProcessEnds(i) ==
    /\ procs[i].state \notin ExitCode
    /\ \E code \in ExitCode : procs' = [procs EXCEPT ![i].state = code]
    /\ UNCHANGED <<winAt, winCall, winCfg, winPid, winHnd, winMine, winCode,
                   hnds, children, toExit, self>>

WinStep(t) ==
    \/ CallSpawn(t) \/ startup_config_init(t) \/ CreateProcess(t)
    \/ startup_config_deinit(t) \/ RegisterChild(t) \/ ForgetDaemon(t)
    \/ GetHandle(t) \/ WaitExit(t) \/ DropChild(t) \/ CloseChild(t)
    \/ ExecTakeOver(t) \/ ExecFinish(t) \/ ExitEarly(t)
    \/ ExitBeforeTakeOver(t)

WinNext ==
    \/ \E t \in WinThread : WinStep(t)
    \/ \E i \in 1 .. Len(procs) : ProcessEnds(i)

-----------------------------------------------------------------------------
\* A wait returns the status of the very process that was created for the
\* caller, although identifiers are used again as soon as nothing refers to a
\* process, and several threads wait, spawn and drop entries of one list
\* (get_handle_from_children_list(), mm_wait_process()). And a process that
\* stands for the program of an mm_execv() ends with the code of the program,
\* or, if it ends before it, only after a thread of the program has been started
\* that ends the program too (waited_child()). Until the handle is published
\* (ExitBeforeTakeOver) nothing of the kind holds.
WaitTellsOwnChild ==
    /\ self # "aborted"
    /\ \A t \in WinThread :
        /\ winAt[t] # "echild"
        /\ (winAt[t] = "done" /\ winCode[t] # "none") =>
                winCode[t] = translate_exitcode_in_status(procs[winMine[t]].state)
        /\ (winAt[t] \in {"gone", "execwait"} /\ self \in ExitCode) =>
                /\ procs[winMine[t]].state # Alive
                /\ winAt[t] = "gone" => self = procs[winMine[t]].state

\* Handles that are open are those of the descriptors, of the children in the
\* list, and those a call under way still has to close: no path, of success or
\* failure, leaves one behind or closes one twice (startup_config_deinit()).
\* And an entry of the list leads to the process whose identifier it has.
HandlesAccounted ==
    self = "running" =>
        /\ {h \in Handle : hnds[h] # FreeSlot} =
               FdHandles
               \cup {e.hnd : e \in Range(children.entries)}
               \cup (UNION {winCfg[t].inherited : t \in {u \in WinThread :
                        winAt[u] \in {"create", "created", "abort"}}})
               \cup {winHnd[t] : t \in {u \in WinThread :
                        winAt[u] \in {"created", "register", "close", "execwait"}}}
        /\ \A e \in Range(children.entries) :
               \E i \in 1 .. Len(procs) :
                    hnds[e.hnd].obj = ProcObj(i) /\ procs[i].pid = e.pid
        /\ \A i, j \in 1 .. Len(children.entries) :
               children.entries[i].pid = children.entries[j].pid => i = j

\* The file a child was asked to have under a descriptor: that of the last
\* element of fd_map for it, else the standard one of its parent.
AskedFile(fd_map, fd) ==
    LET all == std_fd_mappings \o fd_map
        for == {i \in 1 .. Len(all) : all[i].child_fd = fd}
    IN  IF for = {} \/ all[Max(for)].parent_fd = -1 THEN NoObject
        ELSE FileObj(all[Max(for)].parent_fd)

\* A child has the files it was asked to have under its descriptors, the library
\* in it knows their kind when the one in the parent did, and it inherits no
\* other handle, in particular none that another thread has duplicated for its
\* own child. The last part does not hold of a child that is to have no file at
\* all: the empty list of handles is refused, and nothing limits what it inherits.
ChildGetsMap ==
    \A i \in 1 .. Len(procs) :
        /\ \A fd \in DOMAIN procs[i].fds :
            /\ procs[i].fds[fd] = AskedFile(procs[i].asked, fd)
            /\ procs[i].fds[fd] # NoObject =>
                    procs[i].infos[fd] =
                        IF procs[i].fds[fd][2] \in KnownFds
                        THEN KindOf(procs[i].fds[fd][2]) ELSE UnknownInfo
        /\ \/ procs[i].held = Range(procs[i].fds) \ {NoObject}
           \/ \A fd \in DOMAIN procs[i].fds : procs[i].fds[fd] = NoObject

-----------------------------------------------------------------------------
(***************************************************************************)
(* Instances. Calls that redirect, that close a descriptor or all of them, *)
(* that name one that does not exist, a daemon, and an mm_execv().         *)
(***************************************************************************)
WinCall(fd_map, daemon, exec, path) ==
    [fd_map |-> fd_map, daemon |-> daemon, exec |-> exec, path |-> path,
     keepfds |-> FALSE]
FdMap(child, par) == [child_fd |-> child, parent_fd |-> par]
SomeCalls ==
    {WinCall(<<FdMap(1, 3), FdMap(0, -1)>>, FALSE, FALSE, <<"absent", "denied", "ok">>),
     WinCall(<<FdMap(5, 3)>>, TRUE, FALSE, <<"ok">>),
     WinCall(<<FdMap(0, -1), FdMap(1, -1), FdMap(2, -1)>>, FALSE, FALSE, <<"ok">>),
     WinCall(<<FdMap(-1, 0)>>, FALSE, FALSE, <<"ok">>),
     WinCall(<<>>, FALSE, TRUE, <<"ok">>),
     WinCall(<<>>, FALSE, FALSE, <<"denied">>)}
=============================================================================
