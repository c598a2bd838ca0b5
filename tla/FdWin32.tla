------------------------------- MODULE FdWin32 -------------------------------
(***************************************************************************)
(* Descriptors on Windows (src/file-win32.c, src/utils-win32.c): the       *)
(* library opens handles of the kernel, wraps them into descriptors of the *)
(* C runtime, and remembers in a table of its own, fd_infos, what kind of  *)
(* file is behind each. A descriptor it does not know is looked at when it *)
(* is first used.                                                          *)
(*                                                                         *)
(* Handles, file contents and the runtime's table are external. One step   *)
(* is one call; mm_close() takes two, because another thread can be given  *)
(* the number between them. Calls succeed or fail for the reasons the code *)
(* tests; writes and reads of a file are complete. mm_write() moves to the *)
(* end of the file and writes there in one step: other processes, which    *)
(* could append between the two, are not modelled.                         *)
(***************************************************************************)
EXTENDS Integers, Sequences, FiniteSets, SequencesExt

CONSTANTS
    MaxFd,          \* descriptors of the process, MAX_FD
    FileNames,      \* names in the directory
    OpenFlags,      \* oflag given to mm_open()
    CrtModes,       \* how code that does not use the library opens files
    Buffers,        \* what is written
    FileOps,        \* bound: calls made
    FdThreads,      \* threads that use descriptors
    PipeExhausts    \* may a pipe be made when a single descriptor is free

ASSUME FdAssumption ==
    /\ MaxFd \in Nat \ {0} /\ FdThreads \in Nat \ {0} /\ PipeExhausts \in BOOLEAN
    /\ CrtModes \subseteq {"binary", "text", "append"}
    /\ \A buf \in Buffers : buf \in Seq(Range(buf))

VARIABLES
    files,          \* contents of the files that exist, and of pipes
    opened,         \* open file objects, each with its position
    fdObj,          \* the runtime's table: file object of a descriptor, or 0
    fdMode,         \* and its translation mode, binary or text
    fdInfos,        \* fd_infos of the library
    closing,        \* the descriptor mm_close() is about to forget, or -1
    fdCall          \* history: the last call, and how many there were

fdVars == <<files, opened, fdObj, fdMode, fdInfos, closing, fdCall>>

Fd == 0 .. MaxFd - 1
CR == "\r"
LF == "\n"
FdInfo(type, flags) == [type |-> type, flags |-> flags]
FD_TYPE_UNKNOWN == FdInfo("unknown", {})

\* The kernel: a file object is a file or an end of a pipe.
Object(kind, name, access, append) ==
    [kind |-> kind, name |-> name, pos |-> 0, access |-> access, append |-> append]
FreeFds == {fd \in Fd : fdObj[fd] = 0}
LowestFd == CHOOSE fd \in FreeFds : \A g \in FreeFds : fd <= g
ObjOf(fd) == opened[fdObj[fd]]

-----------------------------------------------------------------------------
(***************************************************************************)
(* What the library knows of a descriptor.                                 *)
(***************************************************************************)
is_cygpty_pipe(fd) == ObjOf(fd).kind = "pty"

guess_fd_info(fd) ==
    CASE ObjOf(fd).kind = "console" -> FdInfo("console", {"TEXT", "ISATTY"})
      [] is_cygpty_pipe(fd)         -> FdInfo("pipe", {"ISATTY"})
      [] OTHER -> FdInfo(IF ObjOf(fd).kind = "pipe" THEN "pipe" ELSE "normal",
                         IF fdMode[fd] = "text" THEN {"TEXT"} ELSE {})

\* The info of an open descriptor, and the table after it has been asked for.
get_fd_info_checked(fd) ==
    IF fdInfos[fd] = FD_TYPE_UNKNOWN THEN guess_fd_info(fd) ELSE fdInfos[fd]
Remembered(fd) == [fdInfos EXCEPT ![fd] = get_fd_info_checked(fd)]

-----------------------------------------------------------------------------
(***************************************************************************)
(* Opening.                                                                *)
(***************************************************************************)
set_access_mode(oflags) ==
    CASE oflags \cap {"WRONLY", "RDWR"} = {}         -> {"read"}
      [] oflags \cap {"WRONLY", "RDWR"} = {"WRONLY"} -> {"write"}
      [] oflags \cap {"WRONLY", "RDWR"} = {"RDWR"}   -> {"read", "write"}
      [] OTHER -> {}

\* O_EXCL does not count once O_TRUNC is given.
set_creation_mode_TruncFirst(oflags) ==
    CASE oflags \cap {"TRUNC", "CREAT"} = {}        -> "OPEN_EXISTING"
      [] oflags \cap {"TRUNC", "CREAT"} = {"TRUNC"} -> "TRUNCATE_EXISTING"
      [] {"TRUNC", "CREAT"} \subseteq oflags        -> "CREATE_ALWAYS"
      [] OTHER -> IF "EXCL" \in oflags THEN "CREATE_NEW" ELSE "OPEN_ALWAYS"

set_creation_mode(oflags) ==
    CASE oflags \cap {"TRUNC", "CREAT"} = {}        -> "OPEN_EXISTING"
      [] oflags \cap {"TRUNC", "CREAT"} = {"TRUNC"} -> "TRUNCATE_EXISTING"
      [] {"CREAT", "EXCL"} \subseteq oflags         -> "CREATE_NEW"
      [] oflags \cap {"TRUNC", "CREAT", "EXCL"} = {"CREAT"} -> "OPEN_ALWAYS"
      [] OTHER -> "CREATE_ALWAYS"

\* CreateFileW(): the files afterwards, or a refusal. Truncation needs the right
\* to write.
CreateFile(name, access, disposition) ==
    LET exists == name \in DOMAIN files
        with(content) == [n \in DOMAIN files \cup {name} |->
                             IF n = name THEN content ELSE files[n]]
    IN  CASE \/ disposition = "CREATE_NEW" /\ exists
             \/ disposition \in {"OPEN_EXISTING", "TRUNCATE_EXISTING"} /\ ~exists
             \/ disposition = "TRUNCATE_EXISTING" /\ "write" \notin access -> {}
          [] disposition \in {"OPEN_EXISTING", "OPEN_ALWAYS"} /\ exists -> {files}
          [] OTHER -> {with(<<>>)}

Called(op, args, rv) == fdCall' = [op |-> op, args |-> args, rv |-> rv, n |-> fdCall.n + 1]
MayCall == fdCall.n < FileOps /\ (FdThreads = 1 => closing = -1)

\* wrap_handle_into_fd() of new file objects: the lowest free descriptors.
WrapHandles(objs, infos) ==
    /\ opened' = opened \o objs
    /\ LET fdOf == IF Len(objs) = 1 THEN <<LowestFd>>
                   ELSE <<LowestFd, CHOOSE fd \in FreeFds \ {LowestFd} :
                                        \A g \in FreeFds \ {LowestFd} : fd <= g>>
           new == Range(fdOf)
           at(fd) == CHOOSE i \in 1 .. Len(objs) : fdOf[i] = fd
       IN  /\ fdObj' = [fd \in Fd |-> IF fd \in new THEN Len(opened) + at(fd) ELSE fdObj[fd]]
           /\ fdMode' = [fd \in Fd |-> IF fd \in new THEN "binary" ELSE fdMode[fd]]
           /\ fdInfos' = [fd \in Fd |-> IF fd \in new THEN infos[at(fd)] ELSE fdInfos[fd]]

Unopened == UNCHANGED <<opened, fdObj, fdMode, fdInfos>>

\* A file that was created stays when there is no descriptor for it.
mm_open(name, oflag) ==
    /\ MayCall
    /\ LET access == set_access_mode(oflag)
           after == CreateFile(name, access, set_creation_mode(oflag))
           append == "APPEND" \in oflag
       IN  IF access = {} \/ after = {}
           THEN Called("open", oflag, -1) /\ Unopened /\ UNCHANGED files
           ELSE /\ files' \in after
                /\ IF FreeFds = {} THEN Called("open", oflag, -1) /\ Unopened
                   ELSE /\ Called("open", oflag, LowestFd)
                        /\ WrapHandles(<<Object("file", name, access, append)>>,
                                <<FdInfo("normal", IF append THEN {"APPEND"} ELSE {})>>)
    /\ UNCHANGED closing

\* mm_pipe(): when there is no descriptor for the second end, the first one is
\* closed but its info stays.
mm_pipe ==
    /\ MayCall /\ "pipe" \notin DOMAIN files
    /\ Cardinality(FreeFds) = 1 => PipeExhausts
    /\ LET info == FdInfo("pipe", {})
       IN  IF Cardinality(FreeFds) < 2
           THEN /\ Called("pipe", {}, -1)
                /\ fdInfos' = [fd \in Fd |-> IF fd \in FreeFds THEN info ELSE fdInfos[fd]]
                /\ UNCHANGED <<files, opened, fdObj, fdMode>>
           ELSE /\ Called("pipe", {}, 0)
                /\ files' = [n \in DOMAIN files \cup {"pipe"} |->
                                IF n = "pipe" THEN <<>> ELSE files[n]]
                /\ WrapHandles(<<Object("pipe", "pipe", {"read"}, FALSE),
                          Object("pipe", "pipe", {"write"}, FALSE)>>, <<info, info>>)
    /\ UNCHANGED closing

\* Code that does not use the library opens a file by the runtime: _open(), with
\* a translation mode or, in binary mode, with _O_APPEND.
CrtOpen(name, mode) ==
    /\ MayCall /\ FreeFds # {} /\ name \in DOMAIN files
    /\ opened' = Append(opened, Object("file", name, {"read", "write"}, mode = "append"))
    /\ fdObj' = [fdObj EXCEPT ![LowestFd] = Len(opened) + 1]
    /\ fdMode' = [fdMode EXCEPT ![LowestFd] = IF mode = "text" THEN "text" ELSE "binary"]
    /\ Called("crt_open", {}, LowestFd)
    /\ UNCHANGED <<files, fdInfos, closing>>

mm_dup(fd) ==
    /\ MayCall /\ fdObj[fd] # 0
    /\ IF FreeFds = {} THEN Called("dup", {}, -1) /\ Unopened
       ELSE /\ fdObj' = [fdObj EXCEPT ![LowestFd] = fdObj[fd]]
            /\ fdMode' = [fdMode EXCEPT ![LowestFd] = fdMode[fd]]
            /\ fdInfos' = [fdInfos EXCEPT ![LowestFd] = fdInfos[fd]]
            /\ Called("dup", {}, LowestFd)
            /\ UNCHANGED opened
    /\ UNCHANGED <<files, closing>>

mm_dup2(fd, newfd) ==
    /\ MayCall /\ fdObj[fd] # 0
    /\ fdObj' = [fdObj EXCEPT ![newfd] = fdObj[fd]]
    /\ fdMode' = [fdMode EXCEPT ![newfd] = fdMode[fd]]
    /\ fdInfos' = [fdInfos EXCEPT ![newfd] = fdInfos[fd]]
    /\ Called("dup2", {}, newfd)
    /\ UNCHANGED <<files, opened, closing>>

\* mm_close(), and the second of its two steps.
mm_close(fd) ==
    /\ MayCall /\ closing = -1 /\ fdObj[fd] # 0
    /\ fdObj' = [fdObj EXCEPT ![fd] = 0]
    /\ closing' = fd
    /\ Called("close", {}, 0)
    /\ UNCHANGED <<files, opened, fdMode, fdInfos>>

ForgetInfo_Keeps ==
    /\ closing # -1
    /\ closing' = -1
    /\ UNCHANGED <<files, opened, fdObj, fdMode, fdInfos, fdCall>>

ForgetInfo ==
    /\ closing # -1
    /\ fdInfos' = [fdInfos EXCEPT ![closing] = FD_TYPE_UNKNOWN]
    /\ closing' = -1
    /\ UNCHANGED <<files, opened, fdObj, fdMode, fdCall>>

-----------------------------------------------------------------------------
(***************************************************************************)
(* Reading and writing. In text mode LF is written as CRLF and CRLF read   *)
(* as LF. A CR at the end of what was read is to be carried to the next    *)
(* read, but the flag is set in a copy of the info only: the CR is lost.   *)
(***************************************************************************)
Expanded(buf) == FlattenSeq([i \in 1 .. Len(buf) |->
                                IF buf[i] = LF THEN <<CR, LF>> ELSE <<buf[i]>>])
hnd_write_text_count(crlf) ==
    Len(crlf) - Cardinality({i \in 2 .. Len(crlf) : crlf[i - 1] = CR /\ crlf[i] = LF})

conv_crlf_to_lf_EatsCr(raw) == SelectSeq(raw, LAMBDA c : c # CR)

\* The loop looks at a character and the one before it; dst[i] is what has been
\* written when it is at the i-th.
conv_crlf_to_lf(raw) ==
    LET dst[i \in 1 .. Len(raw)] ==
            IF i = 1 THEN <<>>
            ELSE IF raw[i - 1] = CR /\ raw[i] = LF THEN dst[i - 1]
                 ELSE Append(dst[i - 1], raw[i - 1])
        end == Len(raw)
    IN  IF raw[end] = CR THEN dst[end] ELSE Append(dst[end], raw[end])

hnd_write(info, buf) == IF "TEXT" \in info.flags THEN Expanded(buf) ELSE buf
hnd_read(info, raw) ==
    IF raw # <<>> /\ "TEXT" \in info.flags THEN conv_crlf_to_lf(raw) ELSE raw

\* Contents with data put at a position; a gap reads as zero.
Overwrite(content, pos, data) ==
    [i \in 1 .. (IF pos + Len(data) > Len(content) THEN pos + Len(data) ELSE Len(content)) |->
        CASE i \in pos + 1 .. pos + Len(data) -> data[i - pos]
          [] i <= Len(content) /\ i \notin pos + 1 .. pos + Len(data) -> content[i]
          [] OTHER -> "0"]

\* In append mode SetFilePointer() returns the position it has moved to, and
\* the position 0 is taken for a failure.
mm_write(fd, buf) ==
    /\ MayCall /\ fdObj[fd] # 0 /\ "write" \in ObjOf(fd).access
    /\ LET info == get_fd_info_checked(fd)
           old == files[ObjOf(fd).name]
           data == hnd_write(info, buf)
           pos == IF "APPEND" \in info.flags \/ ObjOf(fd).kind = "pipe" THEN Len(old)
                  ELSE ObjOf(fd).pos
           count == IF "TEXT" \in info.flags THEN hnd_write_text_count(data) ELSE Len(data)
       IN  IF "APPEND" \in info.flags /\ pos = 0
           THEN Called("write_refused", old, -1) /\ UNCHANGED <<files, opened>>
           ELSE /\ files' = [files EXCEPT ![ObjOf(fd).name] = Overwrite(old, pos, data)]
                /\ opened' = [opened EXCEPT ![fdObj[fd]].pos = pos + Len(data)]
                /\ Called("write", buf, count)
    /\ fdInfos' = Remembered(fd)
    /\ UNCHANGED <<fdObj, fdMode, closing>>

Writers(name) == {fd \in Fd : /\ fdObj[fd] # 0 /\ ObjOf(fd).name = name
                              /\ "write" \in ObjOf(fd).access}

hnd_read_binary(content, pos, nbyte) ==
    SubSeq(content, pos + 1,
           IF pos + nbyte < Len(content) THEN pos + nbyte ELSE Len(content))

\* A read of an empty pipe blocks while somebody can write, then returns 0.
mm_read(fd, nbyte) ==
    /\ MayCall /\ fdObj[fd] # 0 /\ "read" \in ObjOf(fd).access
    /\ LET obj == ObjOf(fd)
           content == files[obj.name]
           pos == IF obj.kind = "pipe" THEN 0 ELSE obj.pos
           raw == hnd_read_binary(content, pos, nbyte)
           info == get_fd_info_checked(fd)
           out == hnd_read(info, raw)
       IN  /\ obj.kind = "pipe" => content # <<>> \/ Writers("pipe") = {}
           /\ files' = IF obj.kind = "pipe"
                       THEN [files EXCEPT !["pipe"] = SubSeq(@, Len(raw) + 1, Len(@))]
                       ELSE files
           /\ opened' = [opened EXCEPT ![fdObj[fd]].pos = pos + Len(raw)]
           /\ fdCall' = [op |-> "read", args |-> <<raw, fdMode[fd]>>, rv |-> out,
                         n |-> fdCall.n + 1]
    /\ fdInfos' = Remembered(fd)
    /\ UNCHANGED <<fdObj, fdMode, closing>>

mm_isatty(fd) ==
    /\ MayCall /\ fdObj[fd] # 0
    /\ fdInfos[fd] = FD_TYPE_UNKNOWN
    /\ Called("isatty", fd, IF "ISATTY" \in get_fd_info_checked(fd).flags THEN 1 ELSE 0)
    /\ fdInfos' = Remembered(fd)
    /\ UNCHANGED <<files, opened, fdObj, fdMode, closing>>

-----------------------------------------------------------------------------
\* Descriptor 0 is a console, a terminal of cygwin or a file, and was there
\* before the library.
FdInit ==
    /\ files = [n \in {"old", "tty"} |-> IF n = "old" THEN <<"a">> ELSE <<>>]
    /\ \E kind \in {"console", "pty"} :
            opened = <<Object(kind, "tty", {}, FALSE)>>
    /\ fdObj = [fd \in Fd |-> IF fd = 0 THEN 1 ELSE 0]
    /\ fdMode = [fd \in Fd |-> IF fd = 0 THEN "text" ELSE "binary"]
    /\ fdInfos = [fd \in Fd |-> FD_TYPE_UNKNOWN]
    /\ closing = -1
    /\ fdCall = [op |-> "none", args |-> {}, rv |-> 0, n |-> 0]

FdNext ==
    \/ \E name \in FileNames, oflag \in OpenFlags : mm_open(name, oflag)
    \/ \E name \in FileNames, mode \in CrtModes : CrtOpen(name, mode)
    \/ mm_pipe
    \/ \E fd \in Fd : \/ mm_dup(fd) \/ mm_close(fd) \/ mm_isatty(fd)
                      \/ mm_dup2(fd, 1)
                      \/ \E buf \in Buffers : mm_write(fd, buf)
                      \/ \E n \in {1, 3} : mm_read(fd, n)
    \/ ForgetInfo

-----------------------------------------------------------------------------
\* What the library believes of an open descriptor is what is behind it: its
\* kind, whether it appends and whether it translates, after any sequence of
\* opening, duplicating, closing and reuse of numbers, by the library or not.
\* A descriptor it does not know yet does not append.
InfoTellsFile ==
    \A fd \in Fd : (fdObj[fd] # 0 /\ closing # fd) =>
        LET info == get_fd_info_checked(fd)
        IN  /\ info.type = CASE ObjOf(fd).kind = "file" -> "normal"
                             [] ObjOf(fd).kind = "console" -> "console"
                             [] OTHER -> "pipe"
            /\ ("APPEND" \in info.flags) = ObjOf(fd).append
            /\ ObjOf(fd).kind = "file" => (("TEXT" \in info.flags) = (fdMode[fd] = "text"))

\* What a step may do to the contents of files.
KeepsContents ==
    /\ fdCall'.op = "open" =>
        /\ DOMAIN files' # DOMAIN files => "CREAT" \in fdCall'.args
        /\ \A n \in DOMAIN files : files'[n] # files[n] =>
                "TRUNC" \in fdCall'.args /\ ~({"CREAT", "EXCL"} \subseteq fdCall'.args)
        /\ fdCall'.rv # -1 /\ "TRUNC" \in fdCall'.args =>
                files'[opened'[Len(opened')].name] = <<>>
    /\ fdCall'.op = "write" =>
        \A i \in 1 .. Len(opened) :
            (opened[i].append /\ opened'[i] # opened[i]) =>
                IsPrefix(files[opened[i].name], files'[opened[i].name])

\* No step destroys contents that nobody asked to destroy: a write in append
\* mode only extends the file, whatever descriptors and positions others have;
\* an open creates only with O_CREAT, empties only with O_TRUNC, and touches no
\* file that exists when O_CREAT and O_EXCL are given.
ContentsKept == [][KeepsContents]_fdVars

\* Text with each CRLF written as LF, by its positions.
WithLf(s) == FlattenSeq([i \in 1 .. Len(s) |->
                IF s[i] = CR /\ i < Len(s) /\ s[i + 1] = LF THEN <<>> ELSE <<s[i]>>])

\* A read returns the bytes it consumed, in text mode with each CRLF as LF. This
\* is claimed of bytes that do not end with a CR: of those that do the code
\* loses the CR, which it means to carry into the next read, and a read of a CR
\* alone looks like the end of the file. A write reports exactly the bytes of
\* the caller's buffer, though more were written. It is refused only when it
\* appends to an empty file, which the documentation does not allow: the 0 that
\* SetFilePointer() returns there is a position, taken for a failure.
CountsTellCaller ==
    /\ fdCall.op = "read" =>
        LET raw == fdCall.args[1]
            text == fdCall.args[2] = "text"
        IN  ~(text /\ raw # <<>> /\ Last(raw) = CR) =>
                fdCall.rv = IF text THEN WithLf(raw) ELSE raw
    /\ fdCall.op = "write" => fdCall.rv = Len(fdCall.args)
    /\ fdCall.op = "write_refused" => fdCall.args = <<>>

-----------------------------------------------------------------------------
(***************************************************************************)
(* Instances. With FdThreads = 2 an open of the number between the steps   *)
(* of mm_close() loses its info: InfoTellsFile and ContentsKept fail. With *)
(* PipeExhausts the info a failed mm_pipe() leaves behind is taken for     *)
(* that of the next file the runtime opens: InfoTellsFile fails. With      *)
(* "append" in CrtModes a file opened with _O_APPEND is not known to       *)
(* append: InfoTellsFile and ContentsKept fail.                            *)
(***************************************************************************)
SomeFlags ==
    {{"WRONLY"} \cup f : f \in SUBSET {"CREAT", "TRUNC", "EXCL"}}
    \cup {{"RDWR", "APPEND"}, {"WRONLY", "RDWR"}, {}, {"TRUNC"}}
SomeBuffers == {<<CR, LF>>, <<"b", LF>>}
=============================================================================
