----------------------------- MODULE SpawnPosix -----------------------------
(***************************************************************************)
(* mm_spawn() on POSIX systems (src/process-posix.c): threads of one       *)
(* process spawn children and daemons at the same time.                    *)
(*                                                                         *)
(* A call creates a pipe, forks, and reads the pipe. The forked process    *)
(* remaps its descriptors and executes the program; it writes its error    *)
(* into the pipe if it cannot. Both ends of the pipe are closed by exec,   *)
(* so a read that finds no data and no writer is taken for success. The    *)
(* calls of other threads fork as well, and what they fork inherits the    *)
(* pipe of this one. A process is its table of descriptors, where it       *)
(* stands, and the call it was forked for. A step is one system call that  *)
(* another process can notice.                                             *)
(***************************************************************************)
EXTENDS Integers, Sequences, FiniteSets, FiniteSetsExt

CONSTANTS
    Caller,         \* threads that call mm_spawn(), one call each
    Options         \* the arguments their calls may have, together

\* struct startproc_opts: the flags, and the elements of the descriptor map. To
\* these are added two answers of the system to the call: whether one of the
\* directories that list the open descriptors can be opened in the fork, and
\* whether the read of the result pipe succeeds (a signal can interrupt it).
MapElem == [child_fd : Int, parent_fd : Int]
SpawnOpts == [valid : BOOLEAN, daemon : BOOLEAN, keep : BOOLEAN, fd_map : Seq(MapElem),
              lists : BOOLEAN, reads : BOOLEAN]

ASSUME SpawnAssumption ==
    /\ IsFiniteSet(Caller)
    /\ Options \subseteq [Caller -> SpawnOpts]

VARIABLES
    at,             \* where the call of a thread stands
    opts,           \* its struct startproc_opts
    ret,            \* what it has returned: none, 0 or -1
    fault,          \* history: a system call made for it has failed
    ends,           \* watch_fd and report_fd
    report,         \* has an error state been written into the pipe
    parent,         \* descriptors of the calling process
    proc,           \* the processes forked for a call
    image           \* history: descriptors of the program as executed

vars == <<at, opts, ret, fault, ends, report, parent, proc, image>>

(***************************************************************************)
(* Descriptors. A table gives for each number the open file and whether    *)
(* exec closes it. The calling process has its three standard files, a     *)
(* file its children may inherit and one they may not.                     *)
(***************************************************************************)
Fd == 0 .. 4 + 2 * Cardinality(Caller)

Watch(c)  == <<"watch", c>>
Report(c) == <<"report", c>>
File(n)   == <<"file", n>>
NoFile    == <<>>
Entry(file, cloexec) == [file |-> file, cloexec |-> cloexec]
NoEntry == Entry(NoFile, FALSE)

InitialTable ==
    [fd \in Fd |-> IF fd \in 0 .. 3 THEN Entry(File(fd), FALSE)
                   ELSE IF fd = 4 THEN Entry(File(fd), TRUE) ELSE NoEntry]

IsOpen(table, fd) == fd \in Fd /\ table[fd] # NoEntry
Free(table) == {fd \in Fd : ~IsOpen(table, fd)}
Close(table, fd) == [table EXCEPT ![fd] = NoEntry]

-----------------------------------------------------------------------------
(***************************************************************************)
(* remap_file_descriptors(). It changes the table element by element, and  *)
(* stops at the first dup2() that fails: what precedes it is done.         *)
(***************************************************************************)
set_fd_cloexec(table, fd, cloexec) ==
    IF IsOpen(table, fd) THEN [table EXCEPT ![fd].cloexec = cloexec] ELSE table

\* Without a list of the open descriptors it warns and marks none.
set_cloexec_all_fds(table, min_fd, lists) ==
    [fd \in Fd |-> IF lists /\ fd >= min_fd THEN set_fd_cloexec(table, fd, TRUE)[fd]
                   ELSE table[fd]]

Remapped(ok, table) == [ok |-> ok, table |-> table]

dup2(table, from, to) ==
    IF IsOpen(table, from)
    THEN Remapped(TRUE, [table EXCEPT ![to] = Entry(table[from].file, FALSE)])
    ELSE Remapped(FALSE, table)

\* An element with parent_fd = -1 is marked, and goes on to dup2() as others.
MarkClosed(table, m) ==
    IF m.parent_fd = -1 THEN set_fd_cloexec(table, m.child_fd, TRUE) ELSE table

\* Mutant of RemapOne: a descriptor mapped onto itself is left marked.
RemapOne_LeavesMark(done, m) ==
    IF ~done.ok \/ m.parent_fd = m.child_fd THEN done
    ELSE dup2(MarkClosed(done.table, m), m.parent_fd, m.child_fd)

RemapOne(done, m) ==
    IF ~done.ok THEN done
    ELSE LET marked == MarkClosed(done.table, m)
         IN  IF m.parent_fd = m.child_fd
             THEN Remapped(TRUE, set_fd_cloexec(marked, m.child_fd, FALSE))
             ELSE dup2(marked, m.parent_fd, m.child_fd)

\* The table after each element of the map.
RemapRun(table, fd_map, lists) ==
    LET done[k \in 0 .. Len(fd_map)] ==
            IF k = 0 THEN Remapped(TRUE, set_cloexec_all_fds(table, 3, lists))
            ELSE RemapOne(done[k - 1], fd_map[k])
    IN  done

remap_file_descriptors(table, fd_map, lists) ==
    RemapRun(table, fd_map, lists)[Len(fd_map)]

\* exec closes what is marked.
AfterExec(table) ==
    [fd \in Fd |-> IF table[fd].cloexec THEN NoEntry ELSE table[fd]]

-----------------------------------------------------------------------------
(***************************************************************************)
(* The calling thread: mm_spawn(), spawn_child(), spawn_daemon() up to the *)
(* fork and wait_for_load_process_result().                                *)
(***************************************************************************)
Role == {"child", "middle", "daemon"}
NoTable == <<>>
NoProc == [at |-> "none", table |-> NoTable]
Fork(table) == [at |-> "forked", table |-> table]

\* The process the caller has forked.
FirstFork(c) == IF opts[c].daemon THEN "middle" ELSE "child"

Init ==
    /\ at = [c \in Caller |-> "begin"]
    /\ opts \in Options
    /\ ret = [c \in Caller |-> "none"]
    /\ fault = [c \in Caller |-> FALSE]
    /\ ends = [c \in Caller |-> <<0, 0>>]
    /\ report = [c \in Caller |-> FALSE]
    /\ parent = InitialTable
    /\ proc = [c \in Caller |-> [r \in Role |-> NoProc]]
    /\ image = [c \in Caller |-> NoTable]

Goto(c, label) == at' = [at EXCEPT ![c] = label]
Return(c, v) == Goto(c, "returned") /\ ret' = [ret EXCEPT ![c] = v]
Fails(c) == fault' = [fault EXCEPT ![c] = TRUE]

\* A call without file or with unknown flags is refused.
RefuseArguments(c) ==
    /\ at[c] = "begin"
    /\ ~opts[c].valid
    /\ Fails(c)
    /\ Return(c, "-1")
    /\ UNCHANGED <<opts, ends, report, parent, proc, image>>

LowestTwo(w, r, free) == w < r /\ \A fd \in free : fd = w \/ fd >= r

\* Mutant of Pipe: the ends are not closed by exec.
Pipe_Inheritable(c) ==
    /\ at[c] = "begin" /\ opts[c].valid
    /\ \E w, r \in Free(parent) :
           /\ LowestTwo(w, r, Free(parent))
           /\ ends' = [ends EXCEPT ![c] = <<w, r>>]
           /\ parent' = [parent EXCEPT ![w] = Entry(Watch(c), FALSE),
                                       ![r] = Entry(Report(c), FALSE)]
    /\ Goto(c, "fork")
    /\ UNCHANGED <<opts, ret, fault, report, proc, image>>

\* pipe2() takes the two lowest numbers.
Pipe(c) ==
    /\ at[c] = "begin" /\ opts[c].valid
    /\ \/ /\ \E w, r \in Free(parent) :
                /\ LowestTwo(w, r, Free(parent))
                /\ ends' = [ends EXCEPT ![c] = <<w, r>>]
                /\ parent' = [parent EXCEPT ![w] = Entry(Watch(c), TRUE),
                                            ![r] = Entry(Report(c), TRUE)]
          /\ Goto(c, "fork")
          /\ UNCHANGED <<ret, fault>>
       \/ /\ Fails(c)
          /\ Return(c, "-1")
          /\ UNCHANGED <<ends, parent>>
    /\ UNCHANGED <<opts, report, proc, image>>

\* Mutant of ForkChild: the ends of the pipe stay open when the fork fails.
ForkChild_Leaks(c) ==
    /\ at[c] = "fork"
    /\ \/ /\ proc' = [proc EXCEPT ![c][FirstFork(c)] = Fork(parent)]
          /\ Goto(c, "close_report")
          /\ UNCHANGED <<ret, fault, parent>>
       \/ /\ Fails(c)
          /\ Return(c, "-1")
          /\ UNCHANGED <<proc, parent>>
    /\ UNCHANGED <<opts, ends, report, image>>

ForkChild(c) ==
    /\ at[c] = "fork"
    /\ \/ /\ proc' = [proc EXCEPT ![c][FirstFork(c)] = Fork(parent)]
          /\ Goto(c, "close_report")
          /\ UNCHANGED <<ret, fault, parent>>
       \/ /\ Fails(c)
          /\ parent' = Close(Close(parent, ends[c][1]), ends[c][2])
          /\ Return(c, "-1")
          /\ UNCHANGED proc
    /\ UNCHANGED <<opts, ends, report, image>>

CloseReport(c) ==
    /\ at[c] = "close_report"
    /\ parent' = Close(parent, ends[c][2])
    /\ Goto(c, IF opts[c].daemon THEN "wait_middle" ELSE "read")
    /\ UNCHANGED <<opts, ret, fault, ends, report, proc, image>>

Reap(c, r) ==
    /\ proc[c][r].at = "zombie"
    /\ proc' = [proc EXCEPT ![c][r] = NoProc]

\* spawn_daemon(): the caller waits for the middle process before it reads.
WaitMiddle(c) ==
    /\ at[c] = "wait_middle"
    /\ Reap(c, "middle")
    /\ Goto(c, "read")
    /\ UNCHANGED <<opts, ret, fault, ends, report, parent, image>>

HasEnd(table, file) == table # NoTable /\ \E fd \in Fd : table[fd].file = file
Writers(c) ==
    {p \in Caller \X Role : HasEnd(proc[p[1]][p[2]].table, Report(c))}

\* The read returns an error state, a part of one, or nothing once no process
\* can write; or it fails, whatever becomes of the process it was to tell about.
ReadResult(c) ==
    /\ at[c] = "read"
    /\ \/ /\ opts[c].reads
          /\ report[c] \/ (Writers(c) = {} /\ ~HasEnd(parent, Report(c)))
          /\ ret' = [ret EXCEPT ![c] = IF report[c] THEN "-1" ELSE "0"]
          /\ UNCHANGED fault
       \/ /\ ~opts[c].reads
          /\ ret' = [ret EXCEPT ![c] = "-1"]
          /\ Fails(c)
    /\ Goto(c, "close_watch")
    /\ UNCHANGED <<opts, ends, report, parent, proc, image>>

CloseWatch(c) ==
    /\ at[c] = "close_watch"
    /\ parent' = Close(parent, ends[c][1])
    /\ Goto(c, IF ret[c] = "-1" /\ ~opts[c].daemon THEN "reap" ELSE "returned")
    /\ UNCHANGED <<opts, ret, fault, ends, report, proc, image>>

ReapChild(c) ==
    /\ at[c] = "reap"
    /\ Reap(c, "child")
    /\ Goto(c, "returned")
    /\ UNCHANGED <<opts, ret, fault, ends, report, parent, image>>

\* mm_wait_process(), on a child that was spawned.
WaitProcess(c) ==
    /\ at[c] = "returned"
    /\ ret[c] = "0" /\ ~opts[c].daemon
    /\ Reap(c, "child")
    /\ UNCHANGED <<at, opts, ret, fault, ends, report, parent, image>>

CallerStep(c) ==
    \/ RefuseArguments(c) \/ Pipe(c) \/ ForkChild(c) \/ CloseReport(c)
    \/ WaitMiddle(c) \/ ReadResult(c) \/ CloseWatch(c) \/ ReapChild(c)
    \/ WaitProcess(c)

-----------------------------------------------------------------------------
(***************************************************************************)
(* The forked processes.                                                   *)
(***************************************************************************)
ProcAt(c, r, label) == proc[c][r].at = label
Becomes(c, r, label, table) ==
    proc' = [proc EXCEPT ![c][r] = [at |-> label, table |-> table]]
Stays == UNCHANGED <<at, opts, ret, ends, parent>>

ChildCloseWatch(c, r) ==
    /\ ProcAt(c, r, "forked")
    /\ r # "daemon"
    /\ Becomes(c, r, IF r = "child" THEN "load" ELSE "setup",
               Close(proc[c][r].table, ends[c][1]))
    /\ Stays /\ UNCHANGED <<fault, report, image>>

\* spawn_daemon() in the middle process: realpath(), chdir() and the second
\* fork, each of which can fail; the parent side of the fork exits.
SecondFork(c) ==
    /\ ProcAt(c, "middle", "setup")
    /\ \/ /\ proc' = [proc EXCEPT
                ![c]["daemon"] = [at |-> "load", table |-> proc[c]["middle"].table],
                ![c]["middle"].at = "exit"]
          /\ UNCHANGED fault
       \/ /\ Becomes(c, "middle", "failed", proc[c]["middle"].table)
          /\ Fails(c)
    /\ Stays /\ UNCHANGED <<report, image>>

\* The files the caller asks for are open.
MapIsOpen(fd_map) ==
    \A i \in DOMAIN fd_map :
        fd_map[i].parent_fd = -1 \/ IsOpen(InitialTable, fd_map[i].parent_fd)

\* load_new_proc_img(): the descriptors, then exec.
Remap(c, r) ==
    /\ ProcAt(c, r, "load")
    /\ LET table == proc[c][r].table
           mapped == IF opts[c].keep THEN Remapped(TRUE, table)
                     ELSE remap_file_descriptors(table, opts[c].fd_map, opts[c].lists)
       IN  /\ Becomes(c, r, IF mapped.ok THEN "exec" ELSE "failed", mapped.table)
           /\ fault' = [fault EXCEPT ![c] = @ \/ ~MapIsOpen(opts[c].fd_map)]
    /\ Stays /\ UNCHANGED <<report, image>>

Exec(c, r) ==
    /\ ProcAt(c, r, "exec")
    /\ LET table == AfterExec(proc[c][r].table)
       IN  \/ /\ Becomes(c, r, "running", table)
              /\ image' = [image EXCEPT ![c] = table]
              /\ UNCHANGED fault
           \/ /\ Becomes(c, r, "failed", proc[c][r].table)
              /\ Fails(c)
              /\ UNCHANGED image
    /\ Stays /\ UNCHANGED report

\* Mutant of ReportToParent: the process exits without a word.
ReportToParent_Silent(c, r) ==
    /\ ProcAt(c, r, "failed")
    /\ Becomes(c, r, "exit", proc[c][r].table)
    /\ Stays /\ UNCHANGED <<fault, report, image>>

\* report_to_parent_and_exit() writes to the number of the pipe, whatever it
\* refers to by now; exit closes everything.
ReportToParent(c, r) ==
    /\ ProcAt(c, r, "failed")
    /\ report' = [d \in Caller |->
                    report[d] \/ proc[c][r].table[ends[c][2]].file = Report(d)]
    /\ Becomes(c, r, "exit", proc[c][r].table)
    /\ Stays /\ UNCHANGED <<fault, image>>

\* A process ends: after its report, or when its program is over. The daemon
\* is reaped by init.
Ends(c, r) ==
    /\ proc[c][r].at \in {"exit", "running"}
    /\ proc' = [proc EXCEPT ![c][r] =
                  IF r = "daemon" THEN NoProc
                  ELSE [at |-> "zombie", table |-> NoTable]]
    /\ Stays /\ UNCHANGED <<fault, report, image>>

ProcStep(c, r) ==
    \/ ChildCloseWatch(c, r) \/ (r = "middle" /\ SecondFork(c))
    \/ Remap(c, r) \/ Exec(c, r) \/ ReportToParent(c, r) \/ Ends(c, r)

Finished ==
    /\ \A c \in Caller : at[c] = "returned" /\ \A r \in Role : proc[c][r] = NoProc
    /\ UNCHANGED vars

Next ==
    \/ \E c \in Caller : CallerStep(c) \/ \E r \in Role : ProcStep(c, r)
    \/ Finished

Spec == Init /\ [][Next]_vars

\* Threads and processes are scheduled, and the programs that were executed
\* may run for ever.
Loading(c, r) == ProcStep(c, r) /\ proc[c][r].at # "running"
FairSpec ==
    /\ Spec
    /\ \A c \in Caller : /\ WF_vars(CallerStep(c))
                         /\ \A r \in Role : WF_vars(Loading(c, r))
-----------------------------------------------------------------------------
(***************************************************************************)
(* Values for Options                                                      *)
(***************************************************************************)
To(child_fd, parent_fd) == [child_fd |-> child_fd, parent_fd |-> parent_fd]

\* Redirections, also of a file that is not inheritable, onto itself, twice
\* onto the same number, and of a number that is not open.
OrdinaryMaps ==
    {<<>>, <<To(1, 3)>>, <<To(4, 4), To(0, 4)>>, <<To(0, 3), To(0, 4)>>,
     <<To(2, 50)>>}

Args(daemon, keep, fd_map) ==
    [valid |-> TRUE, daemon |-> daemon, keep |-> keep, fd_map |-> fd_map,
     lists |-> TRUE, reads |-> TRUE]
Invalid == [Args(FALSE, FALSE, <<>>) EXCEPT !.valid = FALSE]
Plain == {Args(d, FALSE, <<>>) : d \in BOOLEAN}

\* One caller passes any of these, keeps its descriptors or is refused, and the
\* system may fail to list its descriptors or to read its result; the others,
\* who interfere by their forks, pass none.
Interfering ==
    LET any == {Args(FALSE, FALSE, m) : m \in OrdinaryMaps} \cup Plain
               \cup {Args(TRUE, FALSE, <<To(4, 4), To(0, 4)>>)}
               \cup {Args(FALSE, TRUE, <<>>), Invalid}
               \cup {[Args(FALSE, FALSE, m) EXCEPT !.lists = FALSE] : m \in {<<>>, <<To(1, 3)>>}}
               \cup {[o EXCEPT !.reads = FALSE] : o \in Plain}
        first == CHOOSE c \in Caller : TRUE
    IN  {o \in [Caller -> any] : \A c \in Caller \ {first} : o[c] \in Plain}

\* The standard input is to be closed in the child.
ClosingInput == [Caller -> {Args(FALSE, FALSE, <<To(0, -1)>>)}]

-----------------------------------------------------------------------------
(***************************************************************************)
(* Properties                                                              *)
(***************************************************************************)

\* Every variable has its type.
SpawnTypeOK ==
    /\ ret \in [Caller -> {"none", "0", "-1"}]
    /\ report \in [Caller -> BOOLEAN] /\ fault \in [Caller -> BOOLEAN]
    /\ ends \in [Caller -> Fd \X Fd]
    /\ \A fd \in Fd : parent[fd].cloexec \in BOOLEAN

\* mm_spawn() returns 0 exactly when the program is executed, although the
\* caller only sees its pipe close and forks of other threads hold it open; and
\* it fails only when a system call could not do what it was asked. A call whose
\* read fails is the exception: it returns -1, and the program may be executed.
SpawnTellsTruth ==
    \A c \in Caller :
        /\ ret[c] = "0"  => image[c] # NoTable
        /\ ret[c] = "-1" => fault[c] /\ (opts[c].reads => image[c] = NoTable)

\* "A file descriptor numbered as specified in child_fd is available at child
\* startup referencing the same file description as the corresponding
\* parent_fd in the calling process", later elements override earlier ones, the
\* standard files are inherited by default and nothing else is: no pipe of this
\* call or of another, even though their numbers were inherited by the fork. The
\* inheritable file of the caller stays open when it is asked for, and also, with
\* a warning, when the open descriptors cannot be listed.
Wanted(c, fd) ==
    LET m == opts[c].fd_map
        hits == {i \in DOMAIN m : m[i].child_fd = fd}
    IN  IF hits # {} THEN InitialTable[m[Max(hits)].parent_fd].file
        ELSE IF fd \in 0 .. 2 \/ ((opts[c].keep \/ ~opts[c].lists) /\ fd = 3) THEN File(fd)
        ELSE NoFile

\* A program that is executed has exactly the files wanted under its numbers. This
\* is claimed of maps in which no element names as parent_fd a number that an
\* earlier one has replaced (OrdinaryMaps): such an element gets the file that
\* the earlier one has put there, so that a swap of two numbers fails.
ChildFds ==
    \A c \in Caller :
        image[c] # NoTable => \A fd \in Fd : image[c][fd].file = Wanted(c, fd)

\* Calls leave nothing behind in the calling process: when all have returned no
\* end of a pipe is open, and no process is left to be waited for but the
\* children whose pid the callers have got. Every variable keeps its type.
NothingLeft ==
    /\ SpawnTypeOK
    /\ (\A c \in Caller : at[c] = "returned") =>
           /\ parent = InitialTable
           /\ \A c \in Caller : /\ proc[c]["middle"] = NoProc
                                /\ ret[c] = "-1" => proc[c]["child"] = NoProc

\* Every call of mm_spawn() returns, whatever the spawned programs do, with one
\* exception: after a read that has failed, spawn_child() waits for the end of
\* its child, and that may be a program that runs.
EverySpawnReturns ==
    \A c \in Caller :
        <>(at[c] = "returned" \/ (~opts[c].reads /\ proc[c]["child"].at = "running"))
=============================================================================
