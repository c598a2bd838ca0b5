------------------------------- MODULE CmdLine -------------------------------
(***************************************************************************)
(* How the arguments of a program travel on Windows. mm_spawn() quotes     *)
(* each argument and joins them into the one string CreateProcess() takes  *)
(* (src/process-win32.c); the start of a program linked with the library   *)
(* splits that string again, in place of the C runtime                     *)
(* (src/startup-win32.c). The splitter writes into one block, sized before *)
(* it runs: an array of pointers and a pool of characters.                 *)
(*                                                                         *)
(* Characters are those the two treat differently: a backslash, a quote, a *)
(* space, another white space, and any other.                              *)
(***************************************************************************)
EXTENDS Integers, Sequences, SequencesExt, FiniteSetsExt

CONSTANTS
    ArgVectors,     \* argument arrays given to mm_spawn()
    ForeignLines,   \* command lines made by other programs
    FirstBlock,     \* size of the first allocation of escape_argv()
    PointerSize     \* sizeof(char*), in characters

ASSUME CmdLineAssumption ==
    FirstBlock \in Nat \ {0} /\ PointerSize \in Nat \ {0}

VARIABLES
    cmdAt,          \* asked, escaped, created, started or failed
    cmdArgv,        \* what the parent passed to mm_spawn(), empty if foreign
    escaped,        \* the block of escape_argv()
    cmdline,        \* lpCommandLine of CreateProcess()
    split,          \* what parse_cmdline() made of it
    crtArgc         \* __argc of the C runtime of the new process

cmdVars == <<cmdAt, cmdArgv, escaped, cmdline, split, crtArgc>>

Backslash == "\\"
Quote == "\""
WhiteSpace == {" ", "\t"}
Times(n, c) == [i \in 1 .. n |-> c]

-----------------------------------------------------------------------------
(***************************************************************************)
(* escape_cmd_str(): backslashes are held back until it is known whether   *)
(* a quote follows, which doubles them; so does the final quote.           *)
(***************************************************************************)
EscapeChar(e, c) ==
    CASE c = Backslash -> [e EXCEPT !.nbackslash = @ + 1]
      [] c = Quote -> [dst |-> e.dst \o Times(2 * e.nbackslash, Backslash)
                                     \o <<Backslash, Quote>>,
                       nbackslash |-> 0]
      [] OTHER -> [dst |-> e.dst \o Times(e.nbackslash, Backslash) \o <<c>>,
                   nbackslash |-> 0]

escape_cmd_str_PlainTail(src) ==
    LET e == FoldLeft(EscapeChar, [dst |-> <<Quote>>, nbackslash |-> 0], src)
    IN  e.dst \o Times(e.nbackslash, Backslash) \o <<Quote>>

escape_cmd_str(src) ==
    LET e == FoldLeft(EscapeChar, [dst |-> <<Quote>>, nbackslash |-> 0], src)
    IN  e.dst \o Times(2 * e.nbackslash, Backslash) \o <<Quote>>

\* escape_argv(): the block holds the pointers, then the strings with their
\* terminators, and is doubled until the next string fits.
Doublings(from, need) ==
    LET fits[n \in 0 .. need] ==
            IF from * 2 ^ n >= need THEN from * 2 ^ n ELSE fits[n + 1]
    IN  fits[0]

AddEscaped(block, arg) ==
    LET str == escape_cmd_str(arg)
        index == block.index + Len(str) + 1
    IN  [index |-> index, strv |-> Append(block.strv, str),
         maxlen |-> IF index > block.maxlen THEN Doublings(block.maxlen, index)
                    ELSE block.maxlen]

escape_argv(argv) ==
    FoldLeft(AddEscaped, [index |-> (Len(argv) + 1) * PointerSize, strv |-> <<>>,
                          maxlen |-> FirstBlock], argv)

\* concat_strv(): the separators take the place of the terminators.
concat_strv(strv, sep) ==
    FoldLeft(LAMBDA line, str : IF line = <<>> THEN str
                                ELSE line \o <<sep>> \o str, <<>>, strv)

-----------------------------------------------------------------------------
(***************************************************************************)
(* parse_cmdline() and the block it writes into. "pool" counts the         *)
(* characters written, "argv" the strings begun, the last one unfinished.  *)
(***************************************************************************)
Spaces(line) == {i \in 1 .. Len(line) : line[i] = " "}

alloc_argv_block(line) ==
    [maxnarg |-> 1 + Cardinality(Spaces(line)), poolsize |-> Len(line) + 1]

Write(p, str) ==
    [p EXCEPT !.argv[Len(p.argv)] = @ \o str, !.pool = @ + Len(str),
              !.nbackslash = 0, !.prev_is_whitespace = FALSE]

ParseChar(p, c) ==
    CASE c = Backslash ->
            [p EXCEPT !.nbackslash = @ + 1, !.prev_is_whitespace = FALSE]
      [] c = Quote /\ p.nbackslash % 2 = 0 ->
            [Write(p, Times(p.nbackslash \div 2, Backslash))
                EXCEPT !.in_quotes = ~@]
      [] c = Quote /\ p.nbackslash % 2 = 1 ->
            Write(p, Times((p.nbackslash - 1) \div 2, Backslash) \o <<Quote>>)
      [] c \in WhiteSpace /\ ~p.in_quotes /\ p.prev_is_whitespace -> p
      [] c \in WhiteSpace /\ ~p.in_quotes /\ ~p.prev_is_whitespace ->
            [p EXCEPT !.argv = Append(@, <<>>), !.pool = @ + 1,
                      !.argc = @ + 1, !.prev_is_whitespace = TRUE]
      [] OTHER -> Write(p, Times(p.nbackslash, Backslash) \o <<c>>)

parse_cmdline(line) ==
    LET p == FoldLeft(ParseChar,
                 [argv |-> <<<<>>>>, argc |-> 0, pool |-> 0, nbackslash |-> 0,
                  in_quotes |-> FALSE, prev_is_whitespace |-> FALSE], line)
    IN  IF p.prev_is_whitespace THEN p
        ELSE [p EXCEPT !.pool = @ + 1, !.argc = @ + 1]

NoSplit == parse_cmdline(<<>>)

-----------------------------------------------------------------------------
CmdInit ==
    /\ \/ cmdAt = "asked" /\ cmdArgv \in ArgVectors /\ cmdline = <<>>
       \/ cmdAt = "created" /\ cmdArgv = <<>> /\ cmdline \in ForeignLines
    /\ escaped = escape_argv(<<>>)
    /\ split = NoSplit
    /\ crtArgc = 0

\* spawn_process() gives up if one of the two allocations fails.
EscapeArgv ==
    /\ cmdAt = "asked"
    /\ \/ cmdAt' = "escaped" /\ escaped' = escape_argv(cmdArgv)
       \/ cmdAt' = "failed" /\ UNCHANGED escaped
    /\ UNCHANGED <<cmdArgv, cmdline, split, crtArgc>>

CreateWithLine ==
    /\ cmdAt = "escaped"
    /\ \/ cmdAt' = "created" /\ cmdline' = concat_strv(escaped.strv, " ")
       \/ cmdAt' = "failed" /\ UNCHANGED cmdline
    /\ UNCHANGED <<cmdArgv, escaped, split, crtArgc>>

\* __getmainargs(), or _get_startup_argv_mode() which leaves the runtime to its
\* own splitting when it cannot allocate.
SetupArgv ==
    /\ cmdAt = "created"
    /\ \/ /\ split' = parse_cmdline(cmdline)
          /\ crtArgc' = split'.argc
          /\ cmdAt' = "started"
       \/ cmdAt' = "failed" /\ UNCHANGED <<split, crtArgc>>
    /\ UNCHANGED <<cmdArgv, escaped, cmdline>>

CmdNext == EscapeArgv \/ CreateWithLine \/ SetupArgv

-----------------------------------------------------------------------------
\* Both blocks hold what is written into them: the escaped strings fit the block
\* as it has grown, and the splitter, which sizes its block from the number of
\* spaces, writes no pointer and no character behind it.
BlocksSuffice ==
    /\ cmdAt # "asked" => escaped.index <= escaped.maxlen
    /\ cmdAt = "started" =>
        LET block == alloc_argv_block(cmdline)
        IN  /\ split.pool <= block.poolsize
            /\ Len(split.argv) <= block.maxnarg + 1
            /\ split.argc <= block.maxnarg

\* main() of the new process receives the very arguments the parent gave to
\* mm_spawn(), whatever they hold: quotes, spaces, runs of backslashes, nothing
\* (escape_cmd_str() against parse_cmdline()); and on the way nothing is written
\* behind the two blocks that hold them.
ArgvRoundTrip ==
    /\ BlocksSuffice
    /\ (cmdAt = "started" /\ cmdArgv # <<>>) =>
            SubSeq(split.argv, 1, split.argc) = cmdArgv

-----------------------------------------------------------------------------
(***************************************************************************)
(* Instances: one or two arguments of up to three characters; and command  *)
(* lines of others with spaces only. A tab between two arguments is not    *)
(* counted by alloc_argv_block(), and BlocksSuffice fails for it.          *)
(***************************************************************************)
SomeStrings == BoundedSeq({"a", " ", Quote, Backslash}, 3)
SomeArgVectors ==
    {<<a>> : a \in SomeStrings}
    \cup {<<a, b>> : a \in SomeStrings, b \in BoundedSeq({"a", " ", Quote, Backslash}, 2)}
SomeForeignLines == BoundedSeq({"a", " ", Quote, Backslash}, 4)
TabbedLines == {<<"a", "\t", "a">>}
=============================================================================
