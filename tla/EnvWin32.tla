------------------------------ MODULE EnvWin32 ------------------------------
(***************************************************************************)
(* The environment on Windows: mm_getenv(), mm_setenv(), mm_unsetenv() and *)
(* mm_get_environ() (src/utils.c) over a cache of UTF-8 strings            *)
(* (src/env-win32.c), which stands in front of the UTF-16 environment of   *)
(* the C runtime and of the system.                                        *)
(*                                                                         *)
(* The environment of the runtime is external; it takes names that differ  *)
(* in case for one, the cache does not. A value is a sequence of words     *)
(* that the delimiter joins, its length their number. A string of the      *)
(* cache lives in an allocated block. One step is one call: the code takes *)
(* no lock and is for one thread at a time. The sizes in bytes of the      *)
(* temporary strings are not modelled: the one that joins values is one    *)
(* byte too small (utils.c:96) and mm_unsetenv() allocates half of what it *)
(* writes, counting UTF-16 units as bytes (env-win32.c:569).               *)
(***************************************************************************)
EXTENDS Integers, Sequences, FiniteSets, SequencesExt

CONSTANTS
    EnvName,        \* names of variables
    Folded,         \* what the system makes of a name
    EnvWord,        \* values given to mm_setenv(), one word each
    EnvRoom,        \* length of value that fits the first block of a string
    EnvCalls,       \* bound: calls that change the environment
    EnvFaults       \* what may fail: "create", "resize", "putenv"; "environ", an
                    \* allocation of mm_get_environ(); "peek", one of the reading
                    \* that precedes PREPEND and APPEND

ASSUME EnvAssumption ==
    /\ IsFiniteSet(EnvName) /\ DOMAIN Folded = EnvName /\ EnvRoom \in Nat
    /\ EnvFaults \subseteq {"create", "resize", "putenv", "environ", "peek"}

VARIABLES
    crt,        \* the environment of the runtime, by folded name
    envCache,   \* the array of utf8_env_cache
    envp,       \* the array mm_get_environ() has returned last: its blocks
    blocks,     \* how many blocks have been allocated
    envFresh,   \* history: no call has changed the environment since
    ideal,      \* history: what the calls that succeeded have made of it
    envDone     \* calls made

envVars == <<crt, envCache, envp, blocks, envFresh, ideal, envDone>>

NotSet == <<"unset">>
Variable == {Folded[n] : n \in EnvName}
May(fault) == IF fault \in EnvFaults THEN BOOLEAN ELSE {TRUE}

EnvInit ==
    /\ crt \in [Variable -> {[name |-> n, value |-> v] :
                    n \in EnvName, v \in {NotSet, <<"system">>}}]
    /\ \A x \in Variable : Folded[crt[x].name] = x
    /\ envCache = <<>> /\ envp = <<>> /\ blocks = 0 /\ envFresh = FALSE
    /\ ideal = [x \in Variable |-> crt[x].value]
    /\ envDone = 0

-----------------------------------------------------------------------------
(***************************************************************************)
(* struct envstr and struct envcache. c is the cache and n the number of   *)
(* blocks allocated so far.                                                *)
(***************************************************************************)
\* envstr_init() makes the string "name=".
envstr_init(name, n) ==
    [name |-> name, value |-> <<>>, str |-> n + 1, maxlen |-> EnvRoom]

envcache_find_entry(c, name) == {i \in DOMAIN c : c[i].name = name}
Found(c, name) == CHOOSE i \in envcache_find_entry(c, name) : TRUE

\* The cache in which the name has an entry.
envcache_create_entry(c, n, name) ==
    IF envcache_find_entry(c, name) # {} THEN [c |-> c, n |-> n]
    ELSE [c |-> Append(c, envstr_init(name, n)), n |-> n + 1]

\* envstr_resize_value() and the copy of the value; a larger block is another.
envstr_set_value(s, name, value) ==
    LET i == Found(s.c, name)
        grows == s.c[i].maxlen < Len(value)
    IN  [c |-> [s.c EXCEPT ![i].value = value,
                           ![i].str = IF grows THEN s.n + 1 ELSE @,
                           ![i].maxlen = IF grows THEN Len(value) ELSE @],
         n |-> IF grows THEN s.n + 1 ELSE s.n]

Grows(s, name, value) == s.c[Found(s.c, name)].maxlen < Len(value)

\* Mutant of envcache_remove_entry: nothing is removed.
envcache_remove_entry_Not(c, name) == c

envcache_remove_entry(c, name) ==
    IF envcache_find_entry(c, name) = {} THEN c ELSE RemoveAt(c, Found(c, name))

get_u16env(name) == crt[Folded[name]].value
_wputenv(name, value) ==
    [crt EXCEPT ![Folded[name]] = [name |-> name, value |-> value]]

\* What getenv_utf8() finds: the cache is looked at first.
LookUp(name) ==
    IF envcache_find_entry(envCache, name) # {}
    THEN envCache[Found(envCache, name)].value
    ELSE get_u16env(name)

-----------------------------------------------------------------------------
\* getenv_utf8() of a name that is not in the cache yet.
getenv_utf8(name) ==
    /\ envcache_find_entry(envCache, name) = {} /\ get_u16env(name) # NotSet
    /\ \E created \in May("create"), resized \in May("resize") :
        LET made == envcache_create_entry(envCache, blocks, name)
            s == IF resized \/ ~Grows(made, name, get_u16env(name))
                 THEN envstr_set_value(made, name, get_u16env(name)) ELSE made
        IN  IF created THEN envCache' = s.c /\ blocks' = s.n
            ELSE UNCHANGED <<envCache, blocks>>
    /\ UNCHANGED <<crt, envp, envFresh, ideal, envDone>>

\* setenv_utf8() on the cache s. wanted is what the caller means to set.
setenv_utf8(s, name, value, wanted, overwrite) ==
    IF ~overwrite /\ get_u16env(name) # NotSet
    THEN /\ envCache' = s.c /\ blocks' = s.n
         /\ UNCHANGED <<crt, ideal, envFresh>>
    ELSE \E created \in May("create"), resized \in May("resize"),
            put \in May("putenv") :
        LET made == envcache_create_entry(s.c, s.n, name)
            set  == envstr_set_value(made, name, value)
            mayCreate == created \/ envcache_find_entry(s.c, name) # {}
        IN  /\ envFresh' = (envFresh /\ ~mayCreate)
            /\ CASE ~mayCreate ->
                        /\ envCache' = s.c /\ blocks' = s.n
                        /\ UNCHANGED <<crt, ideal>>
                 [] mayCreate /\ ~resized /\ Grows(made, name, value) ->
                        /\ envCache' = made.c /\ blocks' = made.n
                        /\ UNCHANGED <<crt, ideal>>
                 [] OTHER ->
                        /\ blocks' = set.n
                        /\ envCache' = IF put THEN set.c
                                       ELSE envcache_remove_entry(set.c, name)
                        /\ crt' = IF put THEN _wputenv(name, value) ELSE crt
                        /\ ideal' = IF put THEN [ideal EXCEPT ![Folded[name]] = wanted]
                                    ELSE ideal

Joined(action, word, old) ==
    CASE action = "PREPEND" /\ old # NotSet -> <<word>> \o old
      [] action = "APPEND" /\ old # NotSet  -> Append(old, word)
      [] OTHER                              -> <<word>>

\* PREPEND and APPEND read the variable, which enters it into the cache, and are
\* passed on as overwrite.
mm_setenv(name, word, action) ==
    /\ envDone < EnvCalls /\ envDone' = envDone + 1
    /\ \E seen \in IF action \in {"PREPEND", "APPEND"} THEN May("peek") ELSE {FALSE} :
        LET cached == envcache_find_entry(envCache, name) # {}
            old == IF seen \/ cached THEN LookUp(name) ELSE NotSet
            before == [c |-> envCache, n |-> blocks]
            s == IF ~seen \/ cached \/ old = NotSet THEN before
                 ELSE envstr_set_value(
                        envcache_create_entry(envCache, blocks, name), name, old)
        IN  setenv_utf8(s, name, Joined(action, word, old),
                        Joined(action, word, ideal[Folded[name]]), action # "ADD")
    /\ UNCHANGED envp

\* The entry goes from the cache before the runtime is asked.
mm_unsetenv(name) ==
    /\ envDone < EnvCalls /\ envDone' = envDone + 1
    /\ envCache' = envcache_remove_entry(envCache, name)
    /\ envFresh' = FALSE
    /\ \E put \in May("putenv") :
        /\ crt' = IF put THEN _wputenv(name, NotSet) ELSE crt
        /\ ideal' = IF put THEN [ideal EXCEPT ![Folded[name]] = NotSet] ELSE ideal
    /\ UNCHANGED <<envp, blocks>>

\* One string of the system enters the cache s.
update_environment_cache(s, e) ==
    envstr_set_value(envcache_create_entry(s.c, s.n, e.name), e.name, e.value)

\* The cache after each of the strings.
CacheRun(strings) ==
    LET run[k \in 0 .. Len(strings)] ==
            IF k = 0 THEN [c |-> envCache, n |-> blocks]
            ELSE update_environment_cache(run[k - 1], strings[k])
    IN  run

InSomeOrder(S) == {s \in [1 .. Cardinality(S) -> S] : Range(s) = S}

\* get_environ_utf8(): update_environment_cache() with each string of the
\* system, unnoticed if it fails, then envcache_update_envp().
mm_get_environ ==
  \E skipped \in IF "environ" \in EnvFaults THEN SUBSET Range(crt) ELSE {{}} :
  \E strings \in InSomeOrder({e \in Range(crt) : e.value # NotSet} \ skipped) :
    LET s == CacheRun(strings)[Len(strings)]
    IN  /\ envCache' = s.c /\ blocks' = s.n
        /\ envp' = [i \in DOMAIN s.c |-> s.c[i].str]
        /\ envFresh' = TRUE
        /\ UNCHANGED <<crt, ideal, envDone>>

EnvNext ==
    \/ \E n \in EnvName : getenv_utf8(n) \/ mm_unsetenv(n)
    \/ \E n \in EnvName, w \in EnvWord, a \in {"ADD", "OVERWRITE", "PREPEND", "APPEND"} :
            mm_setenv(n, w, a)
    \/ mm_get_environ

-----------------------------------------------------------------------------
(***************************************************************************)
(* The cache never hides the environment: after any sequence of calls,     *)
(* those that fail half way included, mm_getenv() returns what the last    *)
(* successful mm_setenv() or mm_unsetenv() has made of the variable, and   *)
(* the C runtime agrees. An array that mm_get_environ() has returned holds *)
(* every variable, in blocks that are still allocated, until a call        *)
(* changes the environment: calls of mm_getenv() do not disturb it.        *)
(***************************************************************************)
EnvAgrees ==
    /\ \A n \in EnvName :
        /\ LookUp(n) = ideal[Folded[n]]
        /\ get_u16env(n) = ideal[Folded[n]]
    /\ \A i, j \in DOMAIN envCache : envCache[i].name = envCache[j].name => i = j
    /\ envFresh =>
        \A x \in Variable : ideal[x] # NotSet =>
            \E i \in DOMAIN envp, j \in DOMAIN envCache :
                /\ envp[i] = envCache[j].str
                /\ Folded[envCache[j].name] = x /\ envCache[j].value = ideal[x]

\* Instances: names that the system tells apart, and two spellings of one.
Distinct   == [n \in EnvName |-> n]
OneFolding == [n \in EnvName |-> "a"]
=============================================================================
