------------------------------ MODULE ArgParse ------------------------------
(***************************************************************************)
(* The parser of command lines (src/argparse.c): options with keys, long   *)
(* names and typed values, the help option it adds by itself, and the      *)
(* completion mode of shells.                                              *)
(*                                                                         *)
(* An argument is its form, not its letters: a cluster of short keys, a    *)
(* long name with or without "=value", a plain word, "-", "--", or a dash  *)
(* followed by something that is no key, such as a negative number. Long   *)
(* names are sequences of letters because completion looks at prefixes. A  *)
(* value is text, a number or nothing; numbers have the ranges of C types  *)
(* scaled down. One step is one argument, or one key of a cluster.         *)
(***************************************************************************)
EXTENDS Integers, Sequences, FiniteSets, SequencesExt

CONSTANTS
    CommandLines,   \* the arguments after argv[0] that a call may be given
    Parsers,        \* the struct mm_arg_parser it may be given: the array
                    \* optv, the two flags, and whether there is a callback
    IntMax,         \* largest int
    LLongMax,       \* largest long long
    PathEntries     \* what the directory of a path holds: name and isdir

ASSUME ArgParseAssumption ==
    IntMax \in Nat /\ LLongMax \in Nat /\ 2 * IntMax + 1 <= LLongMax

VARIABLES
    args,           \* argv[1 .. argc-1]
    parser,         \* the parser of this call
    peek,           \* what a read behind the end of the argument "-" finds
    argAt,          \* start, loop, keys or done
    argIndex,       \* index of mm_arg_parse()
    keyIndex,       \* position in the cluster of short keys
    stored,         \* what each option's val pointer points to
    cbFailed,       \* history: a callback has returned a negative value
    printed,        \* completion candidates and help on standard output
    parsed          \* how mm_arg_parse() ended

argVars == <<args, parser, peek, argAt, argIndex, keyIndex, stored, cbFailed,
             printed, parsed>>

(***************************************************************************)
(* Arguments, values and options.                                          *)
(***************************************************************************)
Text(kind, n, base) == [kind |-> kind, n |-> n, base |-> base]
NoText     == Text("null", 0, <<>>)
Unset      == Text("unset", 0, <<>>)
Empty      == Text("empty", 0, <<>>)
Word       == Text("word", 0, <<>>)
Num(n)     == Text("number", n, <<>>)
Path(base) == Text("path", 0, base)

Arg(form, keys, name, val) ==
    [form |-> form, keys |-> keys, name |-> name, val |-> val]
Short(keys)      == Arg("short", keys, <<>>, Word)
Long(name)       == Arg("long", <<>>, name, NoText)
LongEq(name, v)  == Arg("long", <<>>, name, v)
Plain(v)         == Arg("plain", <<>>, <<>>, v)
Odd(v)           == Arg("odd", <<>>, <<>>, v)
Dash             == Arg("dash", <<>>, <<>>, Word)
DashDash         == Arg("dashdash", <<>>, <<>>, Word)

\* What the same argument is when it is taken as a value.
AsValue(a) == IF a.form = "long" THEN Word ELSE a.val

Opt(key, name, req, type, defval) ==
    [key |-> key, name |-> name, req |-> req, type |-> type, defval |-> defval]
IsPath(o) == o.type \in {"FILE", "DIR"}
IsString(o) == o.type = "STR" \/ IsPath(o)
NoKey == "none"
help_opt == Opt("h", <<"h", "e">>, "NOVAL", "STR", NoText)

INT_MIN == -IntMax - 1
UINT_MAX == 2 * IntMax + 1
LLONG_MIN == -LLongMax - 1
ULLONG_MAX == 2 * LLongMax + 1

ERROR == -1
STOP == -2
COMPLETE == -3
Running == [exited |-> FALSE, rv |-> -4]

-----------------------------------------------------------------------------
(***************************************************************************)
(* Formats. The letters of the model are keys and long names alike; a name *)
(* of a single letter is too short to be a long one.                       *)
(***************************************************************************)
is_valid_short_opt_key(k) == k \notin {"1", NoKey}

is_valid_long_opt_name(name) ==
    Len(name) >= 2 /\ \A i \in 1 .. Len(name) : name[i] # "1"

\* For "-" the test of arg[2] reads one byte behind the string.
is_arg_an_option(a) ==
    CASE a.form = "short" -> TRUE
      [] a.form = "long"  -> is_valid_long_opt_name(a.name)
      [] a.form = "dash"  -> peek
      [] OTHER            -> FALSE

validate_options(optv) ==
    \A i \in 1 .. Len(optv) :
        /\ optv[i].key # NoKey \/ optv[i].name # <<>>
        /\ optv[i].key # NoKey => is_valid_short_opt_key(optv[i].key)
        /\ optv[i].name # <<>> => is_valid_long_opt_name(optv[i].name)

-----------------------------------------------------------------------------
(***************************************************************************)
(* Looking an option up: its index, the index behind the table for the     *)
(* built in help, 0 if there is none.                                      *)
(***************************************************************************)
Optv == Append(parser.optv, help_opt)
HelpIndex == Len(parser.optv) + 1

find_opt(matching) ==
    IF matching = {} THEN 0
    ELSE CHOOSE i \in matching : \A j \in matching : i <= j

find_key(k) == find_opt({i \in 1 .. HelpIndex : Optv[i].key = k})
find_name(name) ==
    find_opt({i \in 1 .. HelpIndex : Optv[i].name # <<>> /\ Optv[i].name = name})

(***************************************************************************)
(* Conversion of a value to the type of an option. strtoll() and           *)
(* strtoull() refuse what does not fit them, the casts what does not fit   *)
(* the type; a C assignment keeps the low bits.                            *)
(***************************************************************************)
Converted(ok, val) == [ok |-> ok, val |-> val]
Refused == Converted(FALSE, NoText)
Wrap(n, lo, size) == lo + ((n - lo) % size)

cast_ll_to_argval_NoUintMax(type, n) ==
    CASE type = "LLONG" -> Converted(TRUE, Num(n))
      [] type = "INT"   -> IF n < INT_MIN \/ n > IntMax THEN Refused
                           ELSE Converted(TRUE, Num(Wrap(n, INT_MIN, UINT_MAX + 1)))
      [] type = "UINT"  -> IF n < 0 THEN Refused
                           ELSE Converted(TRUE, Num(Wrap(n, 0, UINT_MAX + 1)))
      [] OTHER          -> Refused

cast_ll_to_argval(type, n) ==
    CASE type = "LLONG" -> Converted(TRUE, Num(n))
      [] type = "INT"   -> IF n < INT_MIN \/ n > IntMax THEN Refused
                           ELSE Converted(TRUE, Num(Wrap(n, INT_MIN, UINT_MAX + 1)))
      [] type = "UINT"  -> IF n < 0 \/ n > UINT_MAX THEN Refused
                           ELSE Converted(TRUE, Num(Wrap(n, 0, UINT_MAX + 1)))
      [] OTHER          -> Refused

conv_str_to_argval(o, v) ==
    CASE IsString(o) -> Converted(TRUE, v)
      [] ~IsString(o) /\ v.kind # "number" -> Refused
      [] o.type = "ULLONG" /\ v.kind = "number" ->
            IF v.n < 0 \/ v.n > ULLONG_MAX THEN Refused ELSE Converted(TRUE, v)
      [] OTHER -> IF v.n < LLONG_MIN \/ v.n > LLongMax THEN Refused
                  ELSE cast_ll_to_argval(o.type, v.n)

-----------------------------------------------------------------------------
(***************************************************************************)
(* What completion prints.                                                 *)
(***************************************************************************)
complete_longopt(o, name) ==
    IF o.name = <<>> \/ ~IsPrefix(name, o.name) THEN {}
    ELSE (IF o.req # "NOVAL" THEN {<<"--", o.name, "=">>} ELSE {})
         \cup (IF o.req # "NEEDVAL" THEN {<<"--", o.name>>} ELSE {})

complete_longopts(name) ==
    UNION {complete_longopt(Optv[i], name) : i \in 1 .. HelpIndex}

complete_shortopts(keys) ==
    CASE \E i \in 1 .. Len(keys) : find_key(keys[i]) = 0 -> {}
      [] keys # <<>> /\ \A i \in 1 .. Len(keys) : find_key(keys[i]) # 0 ->
            {<<"-", keys>>}
      [] OTHER -> {<<"-", <<Optv[i].key>>>> :
                        i \in {j \in 1 .. HelpIndex : Optv[j].key # NoKey}}

mm_arg_parse_complete(a) ==
    (IF a.form \in {"dash", "short"} \/ a = Plain(Empty)
     THEN complete_shortopts(a.keys) ELSE {})
    \cup (IF a.form \in {"dash", "dashdash", "long"} \/ a = Plain(Empty)
          THEN complete_longopts(a.name) ELSE {})

\* The entries of the directory whose name begins as the value does, without
\* "." and "..", of the kind the option is for.
mm_arg_complete_path(v, dirsonly) ==
    IF v.kind = "null" THEN {}
    ELSE {<<"path", e.name>> : e \in {x \in PathEntries :
              /\ IsPrefix(v.base, x.name)
              /\ x.name # <<".">> /\ x.name # <<".", ".">>
              /\ dirsonly => x.isdir}}

\* The callback is asked first; if it completes the value nothing is added.
complete_opt_value(o, v) ==
    (IF parser.hascb THEN {{}} ELSE {})
    \cup {CASE IsPath(o) -> mm_arg_complete_path(v, o.type = "DIR")
            [] ~IsPath(o) /\ v.kind = "null" -> {}
            [] OTHER -> {<<"value", v>>}}

-----------------------------------------------------------------------------
(***************************************************************************)
(* mm_arg_parse().                                                         *)
(***************************************************************************)
argc == Len(args) + 1

ArgInit ==
    /\ args \in CommandLines
    /\ parser \in Parsers
    /\ peek \in BOOLEAN
    /\ Dash \in Range(args) \/ ~peek
    /\ argAt = "start" /\ argIndex = 1 /\ keyIndex = 1
    /\ stored = [i \in 1 .. Len(parser.optv) |-> Unset]
    /\ cbFailed = FALSE /\ printed = {} /\ parsed = Running

Return(rv) ==
    /\ parsed' = [exited |-> FALSE, rv |-> rv]
    /\ argAt' = "done"

\* early_stop_parsing(): without NOEXIT the process ends, and its status tells
\* an error from a request to stop.
early_stop_parsing(rv) ==
    /\ parsed' = IF parser.noexit THEN [exited |-> FALSE, rv |-> rv]
                 ELSE [exited |-> TRUE, rv |-> IF rv = ERROR THEN 1 ELSE 0]
    /\ argAt' = "done"

Validate ==
    /\ argAt = "start"
    /\ IF validate_options(parser.optv)
       THEN argAt' = "loop" /\ UNCHANGED parsed
       ELSE early_stop_parsing(ERROR)
    /\ UNCHANGED <<args, parser, peek, argIndex, keyIndex, stored, cbFailed,
                   printed>>

Advance(n) ==
    argAt' = "loop" /\ argIndex' = argIndex + n /\ UNCHANGED parsed

\* process_opt_value() with what follows a success.
process_opt_value(i, value, Success) ==
    LET o == Optv[i]
        given == IF value.kind = "null" THEN o.defval ELSE value
        conv == conv_str_to_argval(o, given)
    IN  IF i = HelpIndex
        THEN IF parser.completing
             THEN Success /\ UNCHANGED <<stored, cbFailed, printed>>
             ELSE /\ printed' = printed \cup {<<"help">>}
                  /\ early_stop_parsing(STOP)
                  /\ UNCHANGED <<stored, cbFailed, argIndex, keyIndex>>
        ELSE IF \/ o.req = "NOVAL" /\ value.kind # "null"
                \/ o.req = "NEEDVAL" /\ value.kind = "null"
                \/ ~conv.ok
        THEN /\ early_stop_parsing(ERROR)
             /\ UNCHANGED <<stored, cbFailed, printed, argIndex, keyIndex>>
        ELSE \/ /\ stored' = [stored EXCEPT ![i] = conv.val]
                /\ Success
                /\ UNCHANGED <<cbFailed, printed>>
             \/ /\ parser.hascb
                /\ \E rv \in {ERROR, STOP} : early_stop_parsing(rv)
                /\ cbFailed' = TRUE
                /\ UNCHANGED <<stored, printed, argIndex, keyIndex>>

Completed(out) ==
    /\ printed' = printed \cup out
    /\ early_stop_parsing(COMPLETE)
    /\ UNCHANGED <<args, parser, peek, argIndex, keyIndex, stored, cbFailed>>

ShortArgument ==
    /\ argAt = "loop" /\ argIndex < argc
    /\ args[argIndex].form = "short"
    /\ IF parser.completing /\ argIndex + 1 = argc
       THEN Completed(complete_shortopts(args[argIndex].keys))
       ELSE /\ argAt' = "keys" /\ keyIndex' = 1
            /\ UNCHANGED <<args, parser, peek, argIndex, stored, cbFailed,
                           printed, parsed>>

\* Only the last key of a cluster may take the next argument. Without a next
\* argument the index moves all the same, and is cut back at the end.
ShortKey ==
    /\ argAt = "keys"
    /\ LET keys == args[argIndex].keys
           i == find_key(keys[keyIndex])
           last == keyIndex = Len(keys)
           next == IF argIndex + 1 < argc THEN {args[argIndex + 1]} ELSE {}
           takes == /\ i # 0 /\ Optv[i].req # "NOVAL" /\ last
                    /\ \A a \in next : ~is_arg_an_option(a)
           value == IF takes /\ next # {} THEN AsValue(args[argIndex + 1])
                    ELSE NoText
       IN  CASE i = 0 -> /\ early_stop_parsing(ERROR)
                         /\ UNCHANGED <<stored, cbFailed, printed, argIndex,
                                        keyIndex>>
             [] takes /\ parser.completing /\ argIndex + 2 = argc ->
                    /\ \E out \in complete_opt_value(Optv[i], value) :
                            printed' = printed \cup out
                    /\ early_stop_parsing(COMPLETE)
                    /\ UNCHANGED <<argIndex, keyIndex, stored, cbFailed>>
             [] OTHER ->
                    process_opt_value(i, value,
                        IF last THEN /\ Advance(IF takes THEN 2 ELSE 1)
                                     /\ UNCHANGED keyIndex
                        ELSE /\ keyIndex' = keyIndex + 1
                             /\ UNCHANGED <<argAt, argIndex, parsed>>)
    /\ UNCHANGED <<args, parser, peek>>

do_complete == parser.completing /\ argIndex = argc - 1

\* process_long_opt(), for "--" too when it is the argument to complete.
LongArgument ==
    /\ argAt = "loop" /\ argIndex < argc
    /\ LET a == args[argIndex]
           i == find_name(a.name)
       IN  /\ \/ a.form = "long"
              \/ a.form = "dashdash" /\ do_complete
           /\ CASE do_complete /\ (a.form = "dashdash" \/ a.val.kind = "null") ->
                        Completed(complete_longopts(a.name))
                [] do_complete /\ a.form = "long" /\ a.val.kind # "null" ->
                        \E out \in IF i = 0 THEN {{}}
                                   ELSE complete_opt_value(Optv[i], a.val) :
                            Completed(out)
                [] ~do_complete /\ i = 0 ->
                        /\ early_stop_parsing(ERROR)
                        /\ UNCHANGED <<args, parser, peek, argIndex, keyIndex,
                                       stored, cbFailed, printed>>
                [] OTHER ->
                        /\ process_opt_value(i, a.val, Advance(1) /\ UNCHANGED keyIndex)
                        /\ UNCHANGED <<args, parser, peek>>

CompleteDash ==
    /\ argAt = "loop" /\ argIndex < argc
    /\ args[argIndex].form = "dash" /\ do_complete
    /\ Completed(mm_arg_parse_complete(args[argIndex]))

\* An operand, "--", or the end of the arguments.
EndOfOptions ==
    /\ argAt = "loop"
    /\ \/ argIndex >= argc /\ Return(IF argIndex > argc THEN argc ELSE argIndex)
       \/ /\ argIndex < argc
          /\ LET form == args[argIndex].form
             IN  \/ form \in {"plain", "odd"} /\ Return(argIndex)
                 \/ form = "dash" /\ ~do_complete /\ Return(argIndex)
                 \/ form = "dashdash" /\ ~do_complete /\ Return(argIndex + 1)
    /\ UNCHANGED <<args, parser, peek, argIndex, keyIndex, stored, cbFailed,
                   printed>>

ArgNext ==
    \/ Validate
    \/ ShortArgument
    \/ ShortKey
    \/ LongArgument
    \/ CompleteDash
    \/ EndOfOptions

-----------------------------------------------------------------------------
(***************************************************************************)
(* The grammar, without the order in which the parser reads. Each argument *)
(* has one role, which depends on its form and on the role before it.      *)
(***************************************************************************)
TakesNext(i) ==
    /\ args[i].form = "short"
    /\ LET o == find_key(Last(args[i].keys)) IN o # 0 /\ Optv[o].req # "NOVAL"

HasRoles(role) ==
    \A i \in 1 .. Len(args) :
        LET open == i = 1 \/ role[i - 1] \in {"option", "value"}
            value == /\ i > 1 /\ role[i - 1] = "option"
                     /\ TakesNext(i - 1) /\ ~is_arg_an_option(args[i])
        IN  role[i] = CASE value -> "value"
                        [] ~value /\ open /\ args[i].form \in {"short", "long"} -> "option"
                        [] ~value /\ open /\ args[i].form = "dashdash" -> "end"
                        [] OTHER -> "operand"

Roles == CHOOSE role \in [1 .. Len(args) -> {"option", "value", "operand", "end"}] :
            HasRoles(role)

\* An option as it was given: the argument and the position in its cluster.
Given ==
    {<<i, k>> \in (1 .. Len(args)) \X (1 .. 3) :
        Roles[i] = "option" /\ k <= IF args[i].form = "short" THEN Len(args[i].keys)
                                    ELSE 1}
OptionOf(g) ==
    IF args[g[1]].form = "short" THEN find_key(args[g[1]].keys[g[2]])
    ELSE find_name(args[g[1]].name)
ValueOf(g) ==
    LET i == g[1]
    IN  CASE args[i].form = "long" -> args[i].val
          [] /\ args[i].form = "short" /\ g[2] = Len(args[i].keys)
             /\ i < Len(args) /\ Roles[i + 1] = "value" -> AsValue(args[i + 1])
          [] OTHER -> NoText

Low(type) == CASE type = "INT" -> INT_MIN [] type = "LLONG" -> LLONG_MIN [] OTHER -> 0
High(type) == CASE type = "INT" -> IntMax [] type = "UINT" -> UINT_MAX
                [] type = "LLONG" -> LLongMax [] OTHER -> ULLONG_MAX

\* What the option receives, and whether it can be given so.
Meant(g) == IF ValueOf(g).kind = "null" THEN Optv[OptionOf(g)].defval ELSE ValueOf(g)
Acceptable(g) ==
    /\ OptionOf(g) # 0
    /\ LET o == Optv[OptionOf(g)]
       IN  \/ OptionOf(g) = HelpIndex
           \/ /\ o.req = "NOVAL" => ValueOf(g).kind = "null"
              /\ o.req = "NEEDVAL" => ValueOf(g).kind # "null"
              /\ \/ IsString(o)
                 \/ /\ Meant(g).kind = "number"
                    /\ Meant(g).n \in Low(o.type) .. High(o.type)

LaterGiven(g, h) == h[1] > g[1] \/ (h[1] = g[1] /\ h[2] > g[2])
Meaning(i) ==
    LET of == {g \in Given : OptionOf(g) = i}
    IN  IF of = {} THEN Unset
        ELSE Meant(CHOOSE g \in of : \A h \in of : h = g \/ ~LaterGiven(g, h))

FirstOperand ==
    IF \E i \in 1 .. Len(args) : Roles[i] \in {"operand", "end"}
    THEN LET i == CHOOSE i \in 1 .. Len(args) :
                    /\ Roles[i] \in {"operand", "end"}
                    /\ \A j \in 1 .. i - 1 : Roles[j] \notin {"operand", "end"}
         IN  IF Roles[i] = "end" THEN i + 1 ELSE i
    ELSE argc

Succeeded == argAt = "done" /\ ~parsed.exited /\ parsed.rv >= 0
Failed    == argAt = "done" /\ parsed = [exited |-> ~parser.noexit,
                                        rv |-> IF parser.noexit THEN ERROR ELSE 1]

\* What completion proposes in place of the last argument continues it, and is
\* an option of the table or the help; and no option that would continue it is
\* missing (complete_longopts(), complete_shortopts()).
CompletionFits ==
    (argAt = "done" /\ parser.completing /\ args # <<>>) =>
        LET last == Last(args)
            proposed == printed \ {<<"help">>}
        IN  /\ \A c \in proposed :
                /\ c[1] = "--" => /\ IsPrefix(last.name, c[2])
                                  /\ find_name(c[2]) # 0
                /\ c[1] = "-" => /\ IsPrefix(last.keys, c[2])
                                 /\ \A i \in 1 .. Len(c[2]) : find_key(c[2][i]) # 0
            /\ \A o \in Range(Optv) :
                (/\ \E c \in proposed : c[1] = "--"
                 /\ IsPrefix(last.name, o.name) /\ o.name # <<>>) =>
                    \E c \in proposed : c[1] = "--" /\ c[2] = o.name

\* mm_arg_parse() meets the grammar of the documentation of mm_arg_parse() and
\* struct mm_arg_opt: it succeeds only if every option given is known and has a
\* value of its type, it then returns the index of the first operand, and each
\* option holds, not truncated, the last value it was given; it fails only with
\* a cause; help is printed only if it was asked for; and completion proposes
\* what fits.
ParseMeetsGrammar ==
    /\ Succeeded =>
        /\ \A g \in Given : Acceptable(g)
        /\ \A g \in Given : OptionOf(g) = HelpIndex => parser.completing
        /\ parsed.rv = FirstOperand
        /\ \A i \in 1 .. Len(parser.optv) : stored[i] = Meaning(i)
    /\ Failed =>
        \/ ~validate_options(parser.optv)
        \/ cbFailed
        \/ \E g \in Given : ~Acceptable(g)
    /\ <<"help">> \in printed =>
        \E g \in Given : OptionOf(g) = HelpIndex /\ ~parser.completing
    /\ CompletionFits

-----------------------------------------------------------------------------
(***************************************************************************)
(* Instances: command lines of up to three arguments over every form, and  *)
(* parsers with and without completion, exit and callback. The second      *)
(* table defines help itself, the third has an option that is not valid.   *)
(***************************************************************************)
PlainTable ==
    <<Opt("n", <<"n", "u">>, "NEEDVAL", "INT", NoText),
      Opt("o", <<"n", "o">>, "OPTVAL", "STR", Word),
      Opt("v", <<>>, "NOVAL", "STR", Empty),
      Opt(NoKey, <<"u", "i">>, "OPTVAL", "UINT", Num(2))>>
PathTable ==
    <<Opt("h", <<"h", "e">>, "NOVAL", "STR", Word),
      Opt("o", <<"u", "i">>, "NEEDVAL", "DIR", NoText),
      Opt("n", <<"n", "u">>, "OPTVAL", "ULLONG", NoText),
      Opt("v", <<>>, "OPTVAL", "LLONG", Num(1))>>
BrokenTable == <<Opt("1", <<"n", "u">>, "NOVAL", "STR", NoText)>>

ParserWith(optv, completing, noexit, hascb) ==
    [optv |-> optv, completing |-> completing, noexit |-> noexit,
     hascb |-> hascb]
SomeParsers ==
    {ParserWith(PlainTable, FALSE, TRUE, TRUE),
     ParserWith(PlainTable, TRUE, TRUE, FALSE),
     ParserWith(PathTable, TRUE, FALSE, TRUE),
     ParserWith(PathTable, FALSE, FALSE, FALSE),
     ParserWith(BrokenTable, FALSE, TRUE, FALSE)}

SomeArguments ==
    {Short(<<"n">>), Short(<<"v", "o">>), Short(<<"h">>), Short(<<"x">>),
     Long(<<"n">>), Long(<<"n", "u">>), LongEq(<<"u", "i">>, Num(4)),
     LongEq(<<"u", "i">>, Path(<<"a">>)), Plain(Num(1)), Plain(Path(<<"a">>)),
     Odd(Num(-3)), Dash, DashDash}
SomeCommandLines == BoundedSeq(SomeArguments, 3)
SomeEntries ==
    {[name |-> <<".">>, isdir |-> TRUE], [name |-> <<"a">>, isdir |-> TRUE],
     [name |-> <<"a", "b">>, isdir |-> FALSE], [name |-> <<"c">>, isdir |-> TRUE]}
=============================================================================
