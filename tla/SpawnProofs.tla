---------------------------- MODULE SpawnProofs ----------------------------
(***************************************************************************)
(* Theorems about mm_spawn() on POSIX systems (SpawnPosix): it tells the   *)
(* truth about exec, the program finds the descriptors asked for, and      *)
(* nothing is left behind, for any number of threads that spawn at the     *)
(* same time. And about mm_spawn(), mm_wait_process() and mm_execv() on    *)
(* Windows (ProcessWin32): a wait is answered for the caller's own child,  *)
(* every handle is accounted for, and a child has the files asked for.     *)
(***************************************************************************)
EXTENDS SpawnPosix, ProcessWin32, FiniteSetTheorems, WellFoundedInduction, SequenceTheorems, TLAPS

-----------------------------------------------------------------------------
(***************************************************************************)
(* Induction, stated with sets in place of predicates                      *)
(***************************************************************************)

\* A set that holds 0 and the successor of each of its numbers holds all.
LEMMA SetInduction ==
    ASSUME NEW T, 0 \in T, \A n \in Nat : n \in T => n + 1 \in T
    PROVE  Nat \subseteq T
<1> DEFINE R == {p \in Nat \X Nat : p[1] < p[2]}
           Bad == Nat \ T
<1> SUFFICES ASSUME Bad # {} PROVE FALSE
  OBVIOUS
<1>1. IsWellFoundedOn(R, Nat)
  BY NatLessThanWellFounded DEF OpToRel
<1>2. Bad \subseteq Nat
  OBVIOUS
<1> HIDE DEF R, Bad
<1>3. PICK x \in Bad : \A y \in Bad : ~(<<y, x>> \in R)
  BY <1>1, <1>2, WFMin
<1>4. x \in Nat /\ x # 0
  BY DEF Bad
<1>5. x - 1 \in Nat /\ <<x - 1, x>> \in R
  BY <1>4 DEF R
<1>6. x - 1 \in T
  BY <1>3, <1>5 DEF Bad
<1>7. (x - 1) + 1 = x
  BY <1>4
<1> QED
  BY <1>3, <1>5, <1>6, <1>7 DEF Bad

\* A nonempty set of numbers below a bound has a largest one.
LEMMA LargestExists ==
    ASSUME NEW n \in Nat, NEW S \in SUBSET (1 .. n), S # {}
    PROVE  Max(S) \in S /\ \A i \in S : i <= Max(S)
<1> DEFINE T == {k \in Nat : \A Q \in SUBSET (1 .. k) :
                    Q # {} => \E x \in Q : \A i \in Q : x >= i}
<1>1. 0 \in T
  <2>1. 1 .. 0 = {}
    OBVIOUS
  <2> QED
    BY <2>1
<1>2. ASSUME NEW k \in Nat, k \in T PROVE k + 1 \in T
  <2> SUFFICES ASSUME NEW Q \in SUBSET (1 .. k + 1), Q # {}
               PROVE  \E x \in Q : \A i \in Q : x >= i
    OBVIOUS
  <2>1. CASE k + 1 \in Q
    BY <2>1
  <2>2. CASE k + 1 \notin Q
    <3>1. Q \in SUBSET (1 .. k)
      BY <2>2
    <3> QED
      BY <1>2, <3>1
  <2> QED
    BY <2>1, <2>2
<1> HIDE DEF T
<1>3. n \in T
  BY <1>1, <1>2, SetInduction
<1>4. \E x \in S : \A i \in S : x >= i
  BY <1>3 DEF T
<1> DEFINE m == CHOOSE x \in S : \A i \in S : x >= i
<1>5. m \in S /\ \A i \in S : m >= i
  BY <1>4
<1>6. Max(S) = m
  BY DEF Max
<1> HIDE DEF m
<1> QED
  BY <1>5, <1>6

\* A sequence of values can be computed one after the other.
RunOf(f, D, base, G, n) ==
    /\ f \in [0 .. n -> D] /\ f[0] = base
    /\ \A k \in 1 .. n : f[k] = G[<<k, f[k - 1]>>]

\* A function that is given by its first value and by steps exists.
LEMMA RunExists ==
    ASSUME NEW D, NEW base \in D, NEW G \in [Nat \X D -> D], NEW n \in Nat
    PROVE  \E f : RunOf(f, D, base, G, n)
<1> DEFINE IsRun(f, k) == f[0] = base /\ \A j \in 1 .. k : f[j] = G[<<j, f[j - 1]>>]
           T == {k \in Nat : \E f \in [0 .. k -> D] : IsRun(f, k)}
<1>1. 0 \in T
  <2> DEFINE g == [i \in 0 .. 0 |-> base]
  <2>1. g \in [0 .. 0 -> D] /\ IsRun(g, 0)
    OBVIOUS
  <2> QED
    BY <2>1
<1>2. ASSUME NEW k \in Nat, k \in T PROVE k + 1 \in T
  <2>1. PICK f \in [0 .. k -> D] : IsRun(f, k)
    BY <1>2
  <2> DEFINE g == [i \in 0 .. k + 1 |-> IF i = k + 1 THEN G[<<k + 1, f[k]>>] ELSE f[i]]
  <2>2. G[<<k + 1, f[k]>>] \in D
    <3>1. f[k] \in D /\ <<k + 1, f[k]>> \in Nat \X D
      OBVIOUS
    <3> QED
      BY <3>1
  <2>3. g \in [0 .. k + 1 -> D]
    BY <2>2
  <2>4. g[0] = base
    BY <2>1
  <2>5. ASSUME NEW j \in 1 .. k + 1 PROVE g[j] = G[<<j, g[j - 1]>>]
    <3>1. CASE j = k + 1
      <4>1. j - 1 = k /\ k \in 0 .. k + 1 /\ k # k + 1 /\ k + 1 \in 0 .. k + 1
        BY <3>1
      <4>2. g[k] = f[k] /\ g[k + 1] = G[<<k + 1, f[k]>>]
        BY <4>1
      <4> QED
        BY <3>1, <4>1, <4>2
    <3>2. CASE j # k + 1
      <4>1. j \in 1 .. k /\ j - 1 \in 0 .. k
        BY <3>2
      <4>2. g[j] = f[j] /\ g[j - 1] = f[j - 1]
        BY <3>2, <4>1
      <4> QED
        BY <2>1, <4>1, <4>2
    <3> QED
      BY <3>1, <3>2
  <2> HIDE DEF g
  <2>6. IsRun(g, k + 1)
    BY <2>4, <2>5
  <2> QED
    BY <2>3, <2>6
<1> HIDE DEF T
<1>3. n \in T
  BY <1>1, <1>2, SetInduction
<1>4. PICK f \in [0 .. n -> D] : IsRun(f, n)
  BY <1>3 DEF T
<1>5. RunOf(f, D, base, G, n)
  BY <1>4 DEF RunOf
<1> QED
  BY <1>5

-----------------------------------------------------------------------------
(***************************************************************************)
(* What remap_file_descriptors() makes of a table                          *)
(***************************************************************************)

\* The numbers that are open in the calling process when it spawns.
Own == 0 .. 4

\* A map that names only them: every element redirects one of them, to one of
\* them or to a number that no table has, and no element takes its file from
\* a number that an earlier one has redirected. (Other maps reach the pipe of
\* the call, or pass a file on to a number after another.)
Ordinary(m) ==
    /\ \A i \in DOMAIN m : m[i].child_fd \in Own /\ m[i].parent_fd \in Own \cup (Nat \ Fd)
    /\ \A i, j \in DOMAIN m :
            (i < j /\ m[i].child_fd = m[j].parent_fd) => m[i].parent_fd = m[i].child_fd

Names == {NoFile} \cup {File(fd) : fd \in Own}
            \cup {Watch(c) : c \in Caller} \cup {Report(c) : c \in Caller}
EntryRec == [file : Names, cloexec : BOOLEAN]
Table == [Fd -> EntryRec]
Result == [ok : BOOLEAN, table : Table]

\* The table that remapping starts from.
Marked(t, l) == set_cloexec_all_fds(t, 3, l)

\* The calling process's own numbers are numbers of every table.
LEMMA FdNumbers == /\ Own \subseteq Fd /\ Fd \subseteq Nat /\ -1 \notin Fd
                   /\ 0 \in Own /\ 1 \in Own /\ 2 \in Own /\ 3 \in Own /\ 4 \in Own
<1>1. Cardinality(Caller) \in Nat
  BY SpawnAssumption, FS_CardinalityType
<1> QED
  BY <1>1 DEF Own, Fd

\* Files are told apart.
LEMMA FilesDiffer ==
    ASSUME NEW c, NEW d, NEW i, NEW j
    PROVE  /\ (Watch(c) = Watch(d)) => c = d
           /\ (Report(c) = Report(d)) => c = d
           /\ (File(i) = File(j)) => i = j
           /\ Watch(c) # Report(d) /\ Watch(c) # File(i) /\ Report(c) # File(i)
           /\ Watch(c) # NoFile /\ Report(c) # NoFile /\ File(i) # NoFile
<1>1. "watch" # "report" /\ "watch" # "file" /\ "report" # "file"
  OBVIOUS
<1>2. Len(<<"watch", c>>) = 2 /\ Len(<<"report", c>>) = 2 /\ Len(<<"file", i>>) = 2 /\ Len(<<>>) = 0
  OBVIOUS
<1> QED
  BY <1>1, <1>2 DEF Watch, Report, File, NoFile

\* An entry that is free.
LEMMA NoEntryType == NoEntry \in EntryRec /\ NoEntry.file = NoFile /\ NoEntry.cloexec = FALSE
  BY DEF Entry, NoEntry, EntryRec, Names

\* The table of the calling process before the calls.
LEMMA InitialEntries ==
    /\ InitialTable \in Table
    /\ \A fd \in 0 .. 3 : InitialTable[fd] = Entry(File(fd), FALSE)
    /\ InitialTable[4] = Entry(File(4), TRUE)
    /\ \A fd \in Fd \ Own : InitialTable[fd] = NoEntry
    /\ \A fd \in Own : InitialTable[fd] # NoEntry /\ InitialTable[fd].file = File(fd)
<1>1. ASSUME NEW fd \in 0 .. 3 PROVE InitialTable[fd] = Entry(File(fd), FALSE)
  <2>1. fd \in Fd
    BY FdNumbers DEF Own
  <2> QED
    BY <2>1 DEF InitialTable
<1>2. InitialTable[4] = Entry(File(4), TRUE)
  <2>1. 4 \in Fd /\ 4 \notin 0 .. 3
    BY FdNumbers
  <2> QED
    BY <2>1 DEF InitialTable
<1>3. ASSUME NEW fd \in Fd \ Own PROVE InitialTable[fd] = NoEntry
  <2>1. fd \in Fd /\ fd \notin 0 .. 3 /\ fd # 4
    BY FdNumbers DEF Own
  <2> QED
    BY <2>1 DEF InitialTable
<1>4. ASSUME NEW fd \in Own
      PROVE  /\ InitialTable[fd] # NoEntry /\ InitialTable[fd] \in EntryRec
             /\ InitialTable[fd].file = File(fd)
  <2>1. File(fd) \in Names /\ File(fd) # NoFile
    BY FilesDiffer DEF Names
  <2>2. fd \in 0 .. 3 \/ fd = 4
    BY DEF Own
  <2>3. InitialTable[fd] = Entry(File(fd), FALSE) \/ InitialTable[fd] = Entry(File(fd), TRUE)
    BY <1>1, <1>2, <2>2
  <2>4. QED
    <3>1. CASE InitialTable[fd] = Entry(File(fd), FALSE)
      BY <2>1, <3>1 DEF Entry, NoEntry, EntryRec
    <3>2. CASE InitialTable[fd] = Entry(File(fd), TRUE)
      BY <2>1, <3>2 DEF Entry, NoEntry, EntryRec
    <3> QED
      BY <2>3, <3>1, <3>2
<1>5. \A fd \in Fd : InitialTable[fd] \in EntryRec
  BY <1>3, <1>4, NoEntryType
<1>6. InitialTable = [fd \in Fd |-> InitialTable[fd]]
  BY DEF InitialTable
<1> QED
  BY <1>1, <1>2, <1>3, <1>4, <1>5, <1>6 DEF Table

\* What set_cloexec_all_fds() leaves.
LEMMA MarkedEntries ==
    ASSUME NEW t \in Table, \A fd \in Own : t[fd] = InitialTable[fd], NEW l \in BOOLEAN,
           \A fd \in Fd \ Own : t[fd] = NoEntry \/ t[fd].cloexec = TRUE
    PROVE  /\ Marked(t, l) \in Table
           /\ \A fd \in Own : /\ Marked(t, l)[fd].file = File(fd)
                              /\ Marked(t, l)[fd].cloexec <=> fd = 4 \/ (l = TRUE /\ fd = 3)
           /\ \A fd \in Fd : Marked(t, l)[fd].file = t[fd].file
           /\ \A fd \in Fd \ Own : Marked(t, l)[fd] = NoEntry \/ Marked(t, l)[fd].cloexec
<1>1. ASSUME NEW fd \in Fd
      PROVE  /\ Marked(t, l)[fd] = IF l = TRUE /\ fd >= 3 /\ t[fd] # NoEntry
                                THEN [t[fd] EXCEPT !.cloexec = TRUE] ELSE t[fd]
             /\ t[fd] \in EntryRec
  BY <1>1 DEF Marked, set_cloexec_all_fds, set_fd_cloexec, IsOpen, Table
<1>2. ASSUME NEW fd \in Fd
      PROVE  /\ Marked(t, l)[fd] \in EntryRec /\ Marked(t, l)[fd].file = t[fd].file
             /\ (l = TRUE /\ fd >= 3 /\ t[fd] # NoEntry) => Marked(t, l)[fd].cloexec = TRUE
             /\ ~(l = TRUE /\ fd >= 3 /\ t[fd] # NoEntry) => Marked(t, l)[fd] = t[fd]
  BY <1>1, <1>2 DEF EntryRec
<1>3. Marked(t, l) = [fd \in Fd |-> Marked(t, l)[fd]]
  BY DEF Marked, set_cloexec_all_fds
<1>4. Marked(t, l) \in Table
  BY <1>2, <1>3 DEF Table
<1>5. ASSUME NEW fd \in Own
      PROVE  /\ Marked(t, l)[fd].file = File(fd)
             /\ Marked(t, l)[fd].cloexec <=> fd = 4 \/ (l = TRUE /\ fd = 3)
  <2>1. fd \in Fd /\ t[fd] # NoEntry /\ t[fd].file = File(fd)
    BY FdNumbers, InitialEntries
  <2>2. fd \in 0 .. 3 => t[fd].cloexec = FALSE
    BY InitialEntries DEF Entry
  <2>3. fd >= 3 <=> fd \in {3, 4}
    BY DEF Own
  <2>4. QED
    <3>1. (l = TRUE /\ fd \in {3, 4}) => Marked(t, l)[fd].cloexec = TRUE
      BY <1>2, <2>1, <2>3
    <3>2. fd = 4 => Marked(t, l)[fd].cloexec = TRUE
      <4>1. t[4].cloexec = TRUE
        BY InitialEntries DEF Entry, Own
      <4> QED
        BY <1>2, <2>1, <2>3, <3>1, <4>1
    <3>4. (fd # 4 /\ ~(l = TRUE /\ fd = 3)) => Marked(t, l)[fd].cloexec = FALSE
      <4>1. fd # 4 => fd \in 0 .. 3
        BY DEF Own
      <4> QED
        BY <1>2, <2>1, <2>2, <2>3, <4>1
    <3>3. Marked(t, l)[fd].file = File(fd)
      BY <1>2, <2>1, <2>2
    <3> QED
      BY <3>1, <3>2, <3>3, <3>4
<1>6. ASSUME NEW fd \in Fd \ Own PROVE Marked(t, l)[fd] = NoEntry \/ Marked(t, l)[fd].cloexec
  <2>1. fd >= 3
    BY FdNumbers DEF Own
  <2> QED
    BY <1>2, <2>1
<1> QED
  BY <1>2, <1>4, <1>5, <1>6

\* The tables that the steps make.
LEMMA TableChanges ==
    ASSUME NEW t \in Table, NEW fd \in Fd
    PROVE  /\ t[fd] \in EntryRec /\ Close(t, fd) \in Table
           /\ Close(t, fd)[fd] = NoEntry
           /\ \A i \in Fd : i # fd => Close(t, fd)[i] = t[i]
  BY NoEntryType DEF Table, Close

\* set_fd_cloexec() keeps a table a table.
LEMMA CloexecType ==
    ASSUME NEW t \in Table, NEW fd
    PROVE  set_fd_cloexec(t, fd, TRUE) \in Table /\ set_fd_cloexec(t, fd, FALSE) \in Table
<1>1. CASE fd \in Fd /\ t[fd] # NoEntry
  <2>1. /\ set_fd_cloexec(t, fd, TRUE) = [t EXCEPT ![fd].cloexec = TRUE]
        /\ set_fd_cloexec(t, fd, FALSE) = [t EXCEPT ![fd].cloexec = FALSE]
    BY <1>1 DEF set_fd_cloexec, IsOpen
  <2>2. t[fd] \in EntryRec
    BY <1>1 DEF Table
  <2>3. /\ [t[fd] EXCEPT !.cloexec = TRUE] \in EntryRec
        /\ [t[fd] EXCEPT !.cloexec = FALSE] \in EntryRec
    BY <2>2 DEF EntryRec
  <2> QED
    BY <1>1, <2>1, <2>3 DEF Table
<1>2. CASE ~(fd \in Fd /\ t[fd] # NoEntry)
  BY <1>2 DEF set_fd_cloexec, IsOpen
<1> QED
  BY <1>1, <1>2

\* One element of a map.
LEMMA RemapOneType ==
    ASSUME NEW d \in Result, NEW m \in MapElem
    PROVE  RemapOne(d, m) \in Result
<1>1. d.ok \in BOOLEAN /\ d.table \in Table
  BY DEF Result
<1> DEFINE marked == MarkClosed(d.table, m)
<1>2. marked \in Table
  BY <1>1, CloexecType DEF MarkClosed
<1> HIDE DEF marked
<1>3. Remapped(TRUE, set_fd_cloexec(marked, m.child_fd, FALSE)) \in Result
  BY <1>2, CloexecType DEF Remapped, Result
<1>4. dup2(marked, m.parent_fd, m.child_fd) \in Result
  <2>1. CASE m.parent_fd \in Fd /\ marked[m.parent_fd] # NoEntry
    <3> DEFINE u == [marked EXCEPT ![m.child_fd] = [file |-> marked[m.parent_fd].file, cloexec |-> FALSE]]
    <3>1. dup2(marked, m.parent_fd, m.child_fd) = [ok |-> TRUE, table |-> u]
      BY <2>1 DEF dup2, Remapped, IsOpen, Entry
    <3>2. u \in Table
      BY <1>2, <2>1 DEF Table, EntryRec
    <3> HIDE DEF u
    <3> QED
      BY <3>1, <3>2 DEF Result
  <2>2. CASE ~(m.parent_fd \in Fd /\ marked[m.parent_fd] # NoEntry)
    BY <1>2, <2>2 DEF dup2, Remapped, IsOpen, Result
  <2> QED
    BY <2>1, <2>2
<1> QED
  BY <1>3, <1>4 DEF RemapOne, marked

\* What one element does: nothing after a failure; a failure if its file is not
\* open; else its number refers to that file and survives exec.
LEMMA RemapOneEffect ==
    ASSUME NEW d \in Result, NEW m \in MapElem, m.child_fd \in Own,
           m.parent_fd \in Own \cup (Nat \ Fd), \A fd \in Own : d.table[fd] # NoEntry
    PROVE  /\ d.ok = FALSE => RemapOne(d, m) = d
           /\ (d.ok = TRUE /\ m.parent_fd \notin Own) =>
                    RemapOne(d, m).ok = FALSE /\ RemapOne(d, m).table = d.table
           /\ (d.ok = TRUE /\ m.parent_fd \in Own) =>
                    /\ RemapOne(d, m).ok = TRUE
                    /\ \A fd \in Fd : fd # m.child_fd => RemapOne(d, m).table[fd] = d.table[fd]
                    /\ RemapOne(d, m).table[m.child_fd].file = d.table[m.parent_fd].file
                    /\ RemapOne(d, m).table[m.child_fd].cloexec = FALSE
<1>1. d.ok \in BOOLEAN /\ d.table \in Table
  BY DEF Result
<1>2. m.parent_fd # -1 /\ m.child_fd \in Fd /\ m.parent_fd \in Nat
  BY FdNumbers DEF Own
<1>3. MarkClosed(d.table, m) = d.table
  BY <1>2 DEF MarkClosed
<1>4. CASE d.ok = FALSE
  BY <1>4 DEF RemapOne
<1>5. CASE d.ok = TRUE /\ m.parent_fd \notin Own
  <2>1. m.parent_fd \notin Fd /\ m.parent_fd # m.child_fd
    BY <1>5
  <2> QED
    BY <1>3, <1>5, <2>1 DEF RemapOne, dup2, IsOpen, Remapped
<1>6. CASE d.ok = TRUE /\ m.parent_fd \in Own /\ m.parent_fd # m.child_fd
  <2>1. RemapOne(d, m) = dup2(d.table, m.parent_fd, m.child_fd)
    BY <1>3, <1>6 DEF RemapOne
  <2>2. m.parent_fd \in Fd /\ d.table[m.parent_fd] # NoEntry
    BY <1>6, FdNumbers
  <2> DEFINE r == dup2(d.table, m.parent_fd, m.child_fd)
  <2>3. /\ r.ok = TRUE
        /\ \A fd \in Fd : fd # m.child_fd => r.table[fd] = d.table[fd]
        /\ r.table[m.child_fd].file = d.table[m.parent_fd].file
        /\ r.table[m.child_fd].cloexec = FALSE
    <3> DEFINE e == [file |-> d.table[m.parent_fd].file, cloexec |-> FALSE]
    <3>1. r = [ok |-> TRUE, table |-> [d.table EXCEPT ![m.child_fd] = e]]
      BY <2>2 DEF dup2, IsOpen, Remapped, Entry
    <3>2. e.file = d.table[m.parent_fd].file /\ e.cloexec = FALSE
      OBVIOUS
    <3> HIDE DEF r, e
    <3>3. r.ok = TRUE /\ r.table = [d.table EXCEPT ![m.child_fd] = e]
      BY <3>1
    <3> QED
      BY <1>1, <1>2, <3>2, <3>3 DEF Table
  <2> HIDE DEF r
  <2>4. RemapOne(d, m) = r
    BY <2>1 DEF r
  <2> QED
    BY <1>6, <2>3, <2>4
<1>7. CASE d.ok = TRUE /\ m.parent_fd \in Own /\ m.parent_fd = m.child_fd
  <2>1. RemapOne(d, m) = Remapped(TRUE, set_fd_cloexec(d.table, m.child_fd, FALSE))
    BY <1>3, <1>7 DEF RemapOne
  <2>2. /\ RemapOne(d, m).ok = TRUE
        /\ RemapOne(d, m).table = set_fd_cloexec(d.table, m.child_fd, FALSE)
    BY <2>1 DEF Remapped
  <2> DEFINE r == set_fd_cloexec(d.table, m.child_fd, FALSE)
  <2>3. d.table[m.child_fd] # NoEntry
    OBVIOUS
  <2>4. /\ \A fd \in Fd : fd # m.child_fd => r[fd] = d.table[fd]
        /\ r[m.child_fd].file = d.table[m.child_fd].file
        /\ r[m.child_fd].cloexec = FALSE
    <3> DEFINE e == [d.table[m.child_fd] EXCEPT !.cloexec = FALSE]
    <3>1. r = [d.table EXCEPT ![m.child_fd] = e]
      BY <1>1, <1>2, <2>3 DEF set_fd_cloexec, IsOpen, Table
    <3>2. e.file = d.table[m.child_fd].file /\ e.cloexec = FALSE
      BY <1>1, <1>2 DEF Table, EntryRec
    <3> HIDE DEF r, e
    <3> QED
      BY <1>1, <1>2, <3>1, <3>2 DEF Table
  <2> HIDE DEF r
  <2>5. RemapOne(d, m).table = r
    BY <2>2 DEF r
  <2> QED
    BY <1>7, <2>2, <2>4, <2>5
<1> QED
  BY <1>1, <1>4, <1>5, <1>6, <1>7

\* The loop over the elements is what it says.
LEMMA RemapRuns ==
    ASSUME NEW t \in Table, NEW l \in BOOLEAN, Marked(t, l) \in Table, NEW m \in Seq(MapElem)
    PROVE  /\ RemapRun(t, m, l) \in [0 .. Len(m) -> Result]
           /\ RemapRun(t, m, l)[0] = Remapped(TRUE, Marked(t, l))
           /\ \A k \in 1 .. Len(m) : RemapRun(t, m, l)[k] = RemapOne(RemapRun(t, m, l)[k - 1], m[k])
<1> DEFINE base == Remapped(TRUE, Marked(t, l))
           n == Len(m)
           IsRun(f) == f = [k \in 0 .. n |-> IF k = 0 THEN base ELSE RemapOne(f[k - 1], m[k])]
           G == [p \in Nat \X Result |-> IF p[1] \in 1 .. n THEN RemapOne(p[2], m[p[1]]) ELSE p[2]]
<1>1. base \in Result /\ n \in Nat /\ \A k \in 1 .. n : m[k] \in MapElem
  BY DEF Remapped, Result
<1>2. G \in [Nat \X Result -> Result]
  BY <1>1, RemapOneType
<1>3. \A k \in 1 .. n, r \in Result : G[<<k, r>>] = RemapOne(r, m[k])
  BY <1>1
<1>4. RemapRun(t, m, l) = CHOOSE f : IsRun(f)
  BY DEF RemapRun, Marked
<1> HIDE DEF base, n, G
<1>5. PICK f \in [0 .. n -> Result] :
          f[0] = base /\ \A k \in 1 .. n : f[k] = G[<<k, f[k - 1]>>]
  <2>1. base \in Result /\ n \in Nat
    BY <1>1
  <2>2. PICK f : RunOf(f, Result, base, G, n)
    BY <1>2, <2>1, RunExists
  <2> QED
    BY <2>2 DEF RunOf
<1>6. \A k \in 1 .. n : f[k] = RemapOne(f[k - 1], m[k])
  <2> SUFFICES ASSUME NEW k \in 1 .. n PROVE f[k] = RemapOne(f[k - 1], m[k])
    OBVIOUS
  <2>1. k - 1 \in 0 .. n
    BY <1>1
  <2> QED
    BY <1>3, <1>5, <2>1
<1>7. IsRun(f)
  BY <1>1, <1>5, <1>6
<1> DEFINE g == RemapRun(t, m, l)
<1>8. IsRun(g)
  BY <1>4, <1>7
<1>9. g[0] = base /\ \A k \in 1 .. n : g[k] = RemapOne(g[k - 1], m[k])
  BY <1>1, <1>8
<1> HIDE DEF g
<1> DEFINE T == {k \in Nat : k \in 0 .. n => g[k] = f[k]}
<1>10. 0 \in T
  BY <1>5, <1>9
<1>11. ASSUME NEW k \in Nat, k \in T PROVE k + 1 \in T
  <2> SUFFICES ASSUME k + 1 \in 0 .. n PROVE g[k + 1] = f[k + 1]
    OBVIOUS
  <2>1. k \in 0 .. n /\ k + 1 \in 1 .. n /\ (k + 1) - 1 = k
    BY <1>1
  <2> QED
    BY <1>6, <1>9, <1>11, <2>1
<1> HIDE DEF T
<1>12. \A k \in 0 .. n : g[k] = f[k]
  <2>1. Nat \subseteq T
    BY <1>10, <1>11, SetInduction
  <2> QED
    BY <1>1, <2>1 DEF T
<1>13. g = [k \in 0 .. n |-> g[k]]
  BY <1>8
<1>14. g \in [0 .. n -> Result]
  BY <1>12, <1>13
<1> QED
  BY <1>9, <1>14 DEF g, n, base

\* What the first k elements of a map have done: nothing outside the map has
\* changed, no number of the caller is closed, the loop has stopped exactly if
\* an element names a number that is not open, and the last element for a
\* number decides what is there.
Untouched(m, k, fd) == \A i \in 1 .. k : m[i].child_fd # fd
Intact(m, k, fd) == \A i \in 1 .. k : m[i].child_fd = fd => m[i].parent_fd = fd
LastFor(m, k, fd, j) ==
    j \in 1 .. k /\ m[j].child_fd = fd /\ \A i \in 1 .. k : i > j => m[i].child_fd # fd
AllOpen(m, k) == \A i \in 1 .. k : m[i].parent_fd \in Own

Decided(table, t, l, m, k, fd) ==
    /\ Untouched(m, k, fd) => table[fd] = Marked(t, l)[fd]
    /\ Intact(m, k, fd) => table[fd].file = File(fd)
    /\ \A j \in 1 .. k : LastFor(m, k, fd, j) =>
            table[fd].file = File(m[j].parent_fd) /\ table[fd].cloexec = FALSE

RemapDone(d, t, l, m, k) ==
    /\ d \in Result
    /\ \A fd \in Fd \ Own : d.table[fd] = Marked(t, l)[fd]
    /\ \A fd \in Own : d.table[fd] # NoEntry
    /\ AllOpen(m, k) => d.ok = TRUE
    /\ ~AllOpen(m, k) => d.ok = FALSE
    /\ d.ok = TRUE => \A fd \in Own : Decided(d.table, t, l, m, k, fd)

\* One more element.
LEMMA RemapStep ==
    ASSUME NEW t \in Table, NEW l \in BOOLEAN, NEW m \in Seq(MapElem), Ordinary(m), NEW k \in Nat, k + 1 \in 1 .. Len(m),
           NEW d, RemapDone(d, t, l, m, k)
    PROVE  RemapDone(RemapOne(d, m[k + 1]), t, l, m, k + 1)
<1> DEFINE e == m[k + 1]
           r == RemapOne(d, e)
<1>1. /\ e \in MapElem /\ e.child_fd \in Own /\ e.parent_fd \in Own \cup (Nat \ Fd)
      /\ \A i \in 1 .. k : i \in DOMAIN m /\ i < k + 1 /\ i \in 1 .. k + 1
      /\ k + 1 \in DOMAIN m /\ \A i \in 1 .. k + 1 : i \in 1 .. k \/ i = k + 1
  BY DEF Ordinary
<1>2. \A i \in 1 .. k : m[i].child_fd = e.parent_fd => m[i].parent_fd = m[i].child_fd
  BY <1>1 DEF Ordinary
<1>3. d \in Result /\ d.ok \in BOOLEAN /\ d.table \in Table /\ \A fd \in Own : d.table[fd] # NoEntry
  BY DEF RemapDone, Result
<1>4. r \in Result
  BY <1>1, <1>3, RemapOneType
<1>5. AllOpen(m, k + 1) <=> AllOpen(m, k) /\ e.parent_fd \in Own
  BY <1>1 DEF AllOpen
<1>6. Own \subseteq Fd
  BY FdNumbers
<1>7. /\ d.ok = FALSE => r = d
      /\ (d.ok = TRUE /\ e.parent_fd \notin Own) => r.ok = FALSE /\ r.table = d.table
      /\ (d.ok = TRUE /\ e.parent_fd \in Own) =>
            /\ r.ok = TRUE
            /\ \A fd \in Fd : fd # e.child_fd => r.table[fd] = d.table[fd]
            /\ r.table[e.child_fd].file = d.table[e.parent_fd].file
            /\ r.table[e.child_fd].cloexec = FALSE
  BY <1>1, <1>3, RemapOneEffect
<1> HIDE DEF e, r
<1>8. CASE d.ok = FALSE
  <2>1. ~AllOpen(m, k + 1)
    BY <1>5, <1>8 DEF RemapDone
  <2> QED
    BY <1>4, <1>7, <1>8, <2>1 DEF RemapDone, r, e
<1>9. CASE d.ok = TRUE /\ e.parent_fd \notin Own
  <2>1. ~AllOpen(m, k + 1) /\ r.ok = FALSE /\ r.table = d.table
    BY <1>5, <1>7, <1>9
  <2>2. RemapDone(r, t, l, m, k + 1)
    BY <1>4, <2>1 DEF RemapDone
  <2> QED
    BY <2>2 DEF r, e
<1>10. CASE d.ok = TRUE /\ e.parent_fd \in Own
  <2>1. AllOpen(m, k + 1)
    BY <1>5, <1>10 DEF RemapDone
  <2>2. /\ \A fd \in Fd : fd # e.child_fd => r.table[fd] = d.table[fd]
        /\ r.table[e.child_fd].file = d.table[e.parent_fd].file
        /\ r.table[e.child_fd].cloexec = FALSE /\ r.ok = TRUE
    BY <1>7, <1>10
  <2>3. Decided(d.table, t, l, m, k, e.parent_fd) /\ \A fd \in Own : Decided(d.table, t, l, m, k, fd)
    BY <1>10 DEF RemapDone
  <2>4. Intact(m, k, e.parent_fd)
    BY <1>2 DEF Intact
  <2>5. r.table[e.child_fd].file = File(e.parent_fd)
    BY <2>2, <2>3, <2>4 DEF Decided
  <2>6. \A fd \in Own : r.table[fd] # NoEntry
    <3>1. r.table[e.child_fd] # NoEntry
      BY <2>5, FilesDiffer, NoEntryType
    <3> QED
      BY <1>3, <1>6, <2>2, <3>1
  <2>7. \A fd \in Fd \ Own : r.table[fd] = Marked(t, l)[fd]
    BY <1>1, <2>2 DEF RemapDone
  <2>8. ASSUME NEW fd \in Own PROVE Decided(r.table, t, l, m, k + 1, fd)
    <3>1. CASE fd = e.child_fd
      <4>1. ~Untouched(m, k + 1, fd)
        BY <1>1, <3>1 DEF Untouched, e
      <4>2. Intact(m, k + 1, fd) => e.parent_fd = fd
        BY <1>1, <3>1 DEF Intact, e
      <4>3. \A j \in 1 .. k + 1 : LastFor(m, k + 1, fd, j) => j = k + 1
        BY <1>1, <3>1 DEF LastFor, e
      <4>4. r.table[fd].file = File(e.parent_fd) /\ r.table[fd].cloexec = FALSE
        BY <2>2, <2>5, <3>1
      <4> QED
        BY <4>1, <4>2, <4>3, <4>4 DEF Decided, e
    <3>2. CASE fd # e.child_fd
      <4>1. r.table[fd] = d.table[fd]
        BY <1>6, <2>2, <3>2
      <4>2. /\ Untouched(m, k + 1, fd) => Untouched(m, k, fd)
            /\ Intact(m, k + 1, fd) => Intact(m, k, fd)
        BY <1>1 DEF Untouched, Intact
      <4>3. \A j \in 1 .. k + 1 : LastFor(m, k + 1, fd, j) => j \in 1 .. k /\ LastFor(m, k, fd, j)
        BY <1>1, <3>2 DEF LastFor, e
      <4>4. Decided(d.table, t, l, m, k, fd)
        BY <2>3
      <4> QED
        BY <4>1, <4>2, <4>3, <4>4 DEF Decided
    <3> QED
      BY <3>1, <3>2
  <2>9. RemapDone(r, t, l, m, k + 1)
    BY <1>4, <2>1, <2>2, <2>6, <2>7, <2>8 DEF RemapDone
  <2> QED
    BY <2>9 DEF r, e
<1> QED
  BY <1>3, <1>8, <1>9, <1>10

\* remap_file_descriptors() as a whole.
LEMMA RemapMeets ==
    ASSUME NEW t \in Table, \A fd \in Own : t[fd] = InitialTable[fd], NEW l \in BOOLEAN,
           \A fd \in Fd \ Own : t[fd] = NoEntry \/ t[fd].cloexec = TRUE,
           NEW m \in Seq(MapElem), Ordinary(m)
    PROVE  RemapDone(remap_file_descriptors(t, m, l), t, l, m, Len(m))
<1> DEFINE f == RemapRun(t, m, l)
           n == Len(m)
           T == {k \in Nat : k \in 0 .. n => RemapDone(f[k], t, l, m, k)}
<1>1. /\ Marked(t, l) \in Table
      /\ \A fd \in Own : Marked(t, l)[fd].file = File(fd)
  BY MarkedEntries
<1>2. /\ f \in [0 .. n -> Result] /\ f[0] = Remapped(TRUE, Marked(t, l))
      /\ \A k \in 1 .. n : f[k] = RemapOne(f[k - 1], m[k])
  BY <1>1, RemapRuns
<1>3. n \in Nat
  OBVIOUS
<1> HIDE DEF f, n
<1>4. RemapDone(f[0], t, l, m, 0)
  <2>0. f[0] \in Result
    <3>1. 0 \in 0 .. n
      BY <1>3
    <3>2. f \in [0 .. n -> Result]
      BY <1>2
    <3> QED
      BY <3>1, <3>2
  <2>1. f[0].ok = TRUE /\ f[0].table = Marked(t, l)
    BY <1>2 DEF Remapped
  <2>2. 1 .. 0 = {}
    OBVIOUS
  <2>3. \A fd \in Own : Marked(t, l)[fd] # NoEntry
    BY <1>1, FilesDiffer, NoEntryType
  <2>4. \A fd \in Own : Decided(Marked(t, l), t, l, m, 0, fd)
    BY <1>1, <2>2 DEF Decided
  <2>5. AllOpen(m, 0)
    BY <2>2 DEF AllOpen
  <2> QED
    BY <2>0, <2>1, <2>3, <2>4, <2>5 DEF RemapDone
<1>5. 0 \in T
  BY <1>4
<1>6. ASSUME NEW k \in Nat, k \in T PROVE k + 1 \in T
  <2> SUFFICES ASSUME k + 1 \in 0 .. n PROVE RemapDone(f[k + 1], t, l, m, k + 1)
    OBVIOUS
  <2>1. k \in 0 .. n /\ k + 1 \in 1 .. n /\ (k + 1) - 1 = k
    BY <1>3
  <2>2. RemapDone(f[k], t, l, m, k) /\ f[k + 1] = RemapOne(f[k], m[k + 1])
    BY <1>2, <1>6, <2>1
  <2>3. k + 1 \in 1 .. Len(m)
    BY <2>1 DEF n
  <2> QED
    BY <2>2, <2>3, RemapStep
<1> HIDE DEF T
<1>7. n \in T
  BY <1>3, <1>5, <1>6, SetInduction
<1>8. RemapDone(f[n], t, l, m, n)
  BY <1>3, <1>7 DEF T
<1> QED
  BY <1>8 DEF remap_file_descriptors, f, n

-----------------------------------------------------------------------------
(***************************************************************************)
(* The inductive invariant                                                 *)
(***************************************************************************)
CallerAt == {"begin", "fork", "close_report", "wait_middle", "read", "close_watch", "reap",
             "returned"}
ChildAt  == {"none", "forked", "load", "exec", "failed", "exit", "running", "zombie"}
MiddleAt == {"none", "forked", "setup", "failed", "exit", "zombie"}
DaemonAt == {"none", "load", "exec", "failed", "exit", "running"}
ProcRec  == [at : ChildAt \cup MiddleAt, table : Table \cup {NoTable}]

SpawnTypes ==
    /\ at \in [Caller -> CallerAt] /\ opts \in Options
    /\ ret \in [Caller -> {"none", "0", "-1"}]
    /\ fault \in [Caller -> BOOLEAN] /\ report \in [Caller -> BOOLEAN]
    /\ ends \in [Caller -> Fd \X Fd] /\ parent \in Table
    /\ proc \in [Caller -> [Role -> ProcRec]]
    /\ image \in [Caller -> Table \cup {NoTable}]

\* The calling process: its own files, and the ends of the calls under way.
HoldsWatch(c)  == at[c] \in {"fork", "close_report", "wait_middle", "read", "close_watch"}
HoldsReport(c) == at[c] \in {"fork", "close_report"}
ParentInv ==
    /\ \A fd \in Own : parent[fd] = InitialTable[fd]
    /\ \A c \in Caller : HoldsWatch(c) =>
            /\ ends[c][1] \in Fd \ Own
            /\ parent[ends[c][1]].file = Watch(c) /\ parent[ends[c][1]].cloexec = TRUE
    /\ \A c \in Caller : HoldsReport(c) =>
            /\ ends[c][2] \in Fd \ Own
            /\ parent[ends[c][2]].file = Report(c) /\ parent[ends[c][2]].cloexec = TRUE
    /\ \A fd \in Fd \ Own : parent[fd] # NoEntry =>
            \E c \in Caller : \/ HoldsWatch(c) /\ fd = ends[c][1]
                              \/ HoldsReport(c) /\ fd = ends[c][2]

\* A forked process on its way to exec, or to the report that it cannot: it
\* holds the pipe of its call at the number the code writes to, and marks all
\* pipes to be closed.
InLoad(c, r) == proc[c][r].at \in {"forked", "setup", "load", "exec", "failed"}
LoadInv(c, r) ==
    /\ proc[c][r].table \in Table
    /\ ends[c][1] \in Fd \ Own /\ ends[c][2] \in Fd \ Own /\ ends[c][1] # ends[c][2]
    /\ proc[c][r].table[ends[c][2]].file = Report(c)
    /\ \A fd \in Fd \ Own : \/ proc[c][r].table[fd] = NoEntry
                            \/ proc[c][r].table[fd].cloexec = TRUE
    /\ proc[c][r].at \in {"forked", "setup", "load"} =>
            \A fd \in Own : proc[c][r].table[fd] = InitialTable[fd]
    /\ proc[c][r].at = "exec" =>
            \A fd \in Fd : AfterExec(proc[c][r].table)[fd].file = Wanted(c, fd)
    /\ proc[c][r].at = "failed" => fault[c] = TRUE

\* Which processes there are.
ShapeInv(c) ==
    /\ proc[c]["child"].at \in ChildAt /\ proc[c]["middle"].at \in MiddleAt
    /\ proc[c]["daemon"].at \in DaemonAt
    /\ \A r \in Role : proc[c][r].at = "none" => proc[c][r] = NoProc
    /\ at[c] \in {"begin", "fork"} => \A r \in Role : proc[c][r] = NoProc
    /\ opts[c].daemon = TRUE => proc[c]["child"] = NoProc /\ at[c] # "reap"
    /\ opts[c].daemon = FALSE => /\ proc[c]["middle"] = NoProc /\ proc[c]["daemon"] = NoProc
                                 /\ at[c] # "wait_middle"
    /\ proc[c]["daemon"].at # "none" => proc[c]["middle"].at \in {"none", "exit", "zombie"}
    /\ at[c] \in {"read", "close_watch", "reap", "returned"} => proc[c]["middle"] = NoProc
    /\ (at[c] = "returned" /\ ret[c] = "-1") => proc[c]["child"] = NoProc

\* What the caller is told: the call is answered by a report, by an image, or
\* still has a process on its way.
TruthInv(c) ==
    /\ ret[c] = "none" <=> at[c] \in {"begin", "fork", "close_report", "wait_middle", "read"}
    /\ at[c] = "reap" => ret[c] = "-1"
    /\ at[c] \in {"begin", "fork"} => image[c] = NoTable /\ report[c] = FALSE
    /\ at[c] \in {"close_report", "wait_middle", "read"} =>
            report[c] = TRUE \/ image[c] # NoTable \/ \E r \in Role : InLoad(c, r)
    /\ image[c] # NoTable =>
            /\ report[c] = FALSE /\ \A r \in Role : ~InLoad(c, r)
            /\ \A fd \in Fd : image[c][fd].file = Wanted(c, fd)
    /\ report[c] = TRUE =>
            fault[c] = TRUE /\ image[c] = NoTable /\ \A r \in Role : ~InLoad(c, r)
    /\ ret[c] = "0" => image[c] # NoTable
    /\ ret[c] = "-1" => fault[c] = TRUE
    /\ (ret[c] = "-1" /\ opts[c].reads = TRUE) =>
            image[c] = NoTable /\ \A r \in Role : ~InLoad(c, r)

\* Where the caller of a process on its way can be: it waits, or it has given up
\* because its read failed.
OnItsWay(c) ==
    \/ ret[c] = "none" /\ at[c] \in {"close_report", "wait_middle", "read"}
    \/ /\ ret[c] = "-1" /\ at[c] \in {"close_watch", "reap", "returned"}
       /\ opts[c].reads = FALSE /\ fault[c] = TRUE

CallInv(c) ==
    /\ ShapeInv(c) /\ TruthInv(c)
    /\ \A r \in Role : InLoad(c, r) => LoadInv(c, r)

SpawnInv == SpawnTypes /\ ParentInv /\ \A c \in Caller : CallInv(c)

\* The options of calls the theorems are about: an ordinary map, and none if
\* the descriptors are kept.
OrdinaryOptions ==
    \A o \in Options, c \in Caller :
        Ordinary(o[c].fd_map) /\ (o[c].keep = TRUE => o[c].fd_map = <<>>)

-----------------------------------------------------------------------------
(***************************************************************************)
(* What steps leave alone                                                  *)
(***************************************************************************)

\* A step of the call of c does nothing to the other calls.
Elsewhere(c) ==
    /\ opts' = opts
    /\ \A d \in Caller : d # c =>
            /\ at'[d] = at[d] /\ ret'[d] = ret[d] /\ fault'[d] = fault[d] /\ ends'[d] = ends[d]
            /\ report'[d] = report[d] /\ proc'[d] = proc[d] /\ image'[d] = image[d]

\* The other calls keep their part of the invariant.
LEMMA CallUntouched ==
    ASSUME NEW c, NEW d \in Caller, d # c, Elsewhere(c), CallInv(d)
    PROVE  CallInv(d)'
<1>1. /\ at'[d] = at[d] /\ ret'[d] = ret[d] /\ fault'[d] = fault[d] /\ ends'[d] = ends[d]
      /\ report'[d] = report[d] /\ proc'[d] = proc[d] /\ image'[d] = image[d] /\ opts' = opts
  BY DEF Elsewhere
<1>2. \A fd : Wanted(d, fd)' = Wanted(d, fd)
  BY <1>1 DEF Wanted
<1>3. \A r \in Role : InLoad(d, r)' <=> InLoad(d, r)
  BY <1>1 DEF InLoad
<1>4. ShapeInv(d)'
  BY <1>1 DEF CallInv, ShapeInv
<1>5. TruthInv(d)'
  BY <1>1, <1>2, <1>3 DEF CallInv, TruthInv
<1>6. ASSUME NEW r \in Role, InLoad(d, r)' PROVE LoadInv(d, r)'
  <2>1. LoadInv(d, r)
    BY <1>3, <1>6 DEF CallInv
  <2>2. \A t : AfterExec(t)' = AfterExec(t)
    BY DEF AfterExec
  <2> QED
    BY <1>1, <1>2, <2>1 DEF LoadInv
<1> QED
  BY <1>4, <1>5, <1>6 DEF CallInv

\* It keeps what is true of a process it does not touch.
LEMMA LoadKept ==
    ASSUME NEW c \in Caller, NEW r \in Role, InLoad(c, r) => LoadInv(c, r), opts' = opts,
           ends'[c] = ends[c], proc'[c][r] = proc[c][r], fault[c] = TRUE => fault'[c] = TRUE
    PROVE  /\ InLoad(c, r)' <=> InLoad(c, r)
           /\ InLoad(c, r)' => LoadInv(c, r)'
<1>1. \A fd : Wanted(c, fd)' = Wanted(c, fd)
  BY DEF Wanted
<1>2. InLoad(c, r)' <=> InLoad(c, r)
  BY DEF InLoad
<1>3. InLoad(c, r) => LoadInv(c, r)'
  BY <1>1 DEF LoadInv
<1> QED
  BY <1>2, <1>3

\* The table of the calling process is not touched.
LEMMA ParentKept ==
    ASSUME ParentInv, parent' = parent,
           \A d \in Caller : /\ HoldsWatch(d)' <=> HoldsWatch(d)
                             /\ HoldsReport(d)' <=> HoldsReport(d)
                             /\ HoldsWatch(d) \/ HoldsReport(d) => ends'[d] = ends[d]
    PROVE  ParentInv'
  BY DEF ParentInv

\* The ends of the calls under way are different numbers.
LEMMA EndsDiffer ==
    ASSUME ParentInv, NEW c \in Caller, NEW d \in Caller
    PROVE  /\ (HoldsWatch(c) /\ HoldsWatch(d) /\ c # d) => ends[c][1] # ends[d][1]
           /\ (HoldsWatch(c) /\ HoldsReport(d)) => ends[c][1] # ends[d][2]
           /\ (HoldsReport(c) /\ HoldsReport(d) /\ c # d) => ends[c][2] # ends[d][2]
  BY FilesDiffer DEF ParentInv

\* Tables are not the absence of one, and processes that do not exist do not
\* load.
LEMMA NoTableNoProc ==
    /\ \A t \in Table : t # NoTable
    /\ NoProc.at = "none" /\ NoProc.table = NoTable /\ NoProc \in ProcRec
    /\ \A c, r : proc[c][r] = NoProc => ~InLoad(c, r)
<1>1. \A t \in Table : t # NoTable
  <2> SUFFICES ASSUME NEW t \in Table, t = <<>> PROVE FALSE
    BY DEF NoTable
  <2>1. DOMAIN t = Fd
    BY DEF Table
  <2>2. DOMAIN <<>> = {}
    OBVIOUS
  <2> QED
    BY <2>1, <2>2, FdNumbers
<1>2. NoProc.at = "none" /\ NoProc.table = NoTable /\ NoProc \in ProcRec
  BY DEF NoProc, ProcRec, ChildAt
<1> QED
  BY <1>1, <1>2 DEF InLoad

-----------------------------------------------------------------------------
(***************************************************************************)
(* Steps of the calling thread                                             *)
(***************************************************************************)

\* What a step of the call of c is to show.
StepKeeps(c) == SpawnTypes' /\ ParentInv' /\ CallInv(c)' /\ Elsewhere(c)

\* The call fails before anything was made.
LEMMA EarlyFailure ==
    ASSUME SpawnInv, NEW c \in Caller, at[c] = "begin", Fails(c), Return(c, "-1"),
           UNCHANGED <<opts, ends, report, parent, proc, image>>
    PROVE  StepKeeps(c)
<1>1. /\ at' = [at EXCEPT ![c] = "returned"] /\ ret' = [ret EXCEPT ![c] = "-1"]
      /\ fault' = [fault EXCEPT ![c] = TRUE]
      /\ UNCHANGED <<opts, ends, report, parent, proc, image>>
  BY DEF Fails, Return, Goto
<1>2. /\ at'[c] = "returned" /\ ret'[c] = "-1" /\ fault'[c] = TRUE
      /\ \A d \in Caller : d # c => at'[d] = at[d] /\ ret'[d] = ret[d] /\ fault'[d] = fault[d]
  BY <1>1 DEF SpawnInv, SpawnTypes
<1>3. SpawnTypes'
  BY <1>1 DEF SpawnInv, SpawnTypes, CallerAt
<1>4. ParentInv'
  <2>1. \A d \in Caller : (HoldsWatch(d)' <=> HoldsWatch(d)) /\ (HoldsReport(d)' <=> HoldsReport(d))
    BY <1>2 DEF HoldsWatch, HoldsReport
  <2> QED
    BY <1>1, <2>1, ParentKept DEF SpawnInv
<1>5. Elsewhere(c)
  BY <1>1, <1>2 DEF Elsewhere
<1>6. /\ \A r \in Role : proc[c][r] = NoProc /\ proc'[c][r] = NoProc
      /\ image[c] = NoTable /\ report[c] = FALSE
  BY <1>1 DEF SpawnInv, CallInv, ShapeInv, TruthInv
<1>7. \A r \in Role : ~InLoad(c, r)'
  BY <1>6, NoTableNoProc DEF InLoad
<1>8. ShapeInv(c)'
  BY <1>1, <1>2, <1>6, NoTableNoProc DEF ShapeInv, Role, ChildAt, MiddleAt, DaemonAt
<1>9. TruthInv(c)'
  BY <1>1, <1>2, <1>6, <1>7 DEF TruthInv
<1> QED
  BY <1>3, <1>4, <1>5, <1>7, <1>8, <1>9 DEF StepKeeps, CallInv

\* mm_spawn() refuses its arguments.
LEMMA RefuseStep ==
    ASSUME SpawnInv, NEW c \in Caller, RefuseArguments(c)
    PROVE  StepKeeps(c)
  BY EarlyFailure DEF RefuseArguments

\* pipe2(): the two numbers were free, and are nobody else's end.
LEMMA PipeStep ==
    ASSUME SpawnInv, NEW c \in Caller, Pipe(c)
    PROVE  StepKeeps(c)
<1>1. CASE Fails(c) /\ Return(c, "-1") /\ UNCHANGED <<ends, parent>>
  <2>1. at[c] = "begin" /\ UNCHANGED <<opts, ends, report, parent, proc, image>>
    BY <1>1 DEF Pipe
  <2> QED
    BY <1>1, <2>1, EarlyFailure
<1>2. ASSUME NEW w \in Free(parent), NEW r \in Free(parent), LowestTwo(w, r, Free(parent)),
             ends' = [ends EXCEPT ![c] = <<w, r>>],
             parent' = [parent EXCEPT ![w] = Entry(Watch(c), TRUE), ![r] = Entry(Report(c), TRUE)],
             Goto(c, "fork"), UNCHANGED <<ret, fault>>
      PROVE  StepKeeps(c)
  <2>1. at[c] = "begin" /\ at' = [at EXCEPT ![c] = "fork"]
        /\ UNCHANGED <<opts, ret, fault, report, proc, image>>
    BY <1>2 DEF Pipe, Goto
  <2>2. /\ w \in Fd \ Own /\ r \in Fd \ Own /\ w # r /\ parent[w] = NoEntry /\ parent[r] = NoEntry
    <3>1. w \in Fd /\ r \in Fd /\ parent[w] = NoEntry /\ parent[r] = NoEntry
      BY DEF Free, IsOpen
    <3>2. w # r
      BY <1>2, <3>1, FdNumbers DEF LowestTwo
    <3>3. \A fd \in Own : parent[fd] # NoEntry
      BY InitialEntries DEF SpawnInv, ParentInv
    <3> QED
      BY <3>1, <3>2, <3>3
  <2>3. /\ at'[c] = "fork" /\ ends'[c] = <<w, r>> /\ ends'[c][1] = w /\ ends'[c][2] = r
        /\ \A d \in Caller : d # c => at'[d] = at[d] /\ ends'[d] = ends[d]
    BY <1>2, <2>1 DEF SpawnInv, SpawnTypes
  <2> DEFINE ew == Entry(Watch(c), TRUE)
             er == Entry(Report(c), TRUE)
  <2>4. /\ ew \in EntryRec /\ ew.file = Watch(c) /\ ew.cloexec = TRUE
        /\ er \in EntryRec /\ er.file = Report(c) /\ er.cloexec = TRUE
    <3>1. Watch(c) \in Names /\ Report(c) \in Names
      BY DEF Names
    <3> QED
      BY <3>1 DEF Entry, EntryRec
  <2>5. parent' = [parent EXCEPT ![w] = ew, ![r] = er]
    BY <1>2
  <2> HIDE DEF ew, er
  <2>6. /\ parent' \in Table /\ parent'[w] = ew /\ parent'[r] = er
        /\ \A fd \in Fd : (fd # w /\ fd # r) => parent'[fd] = parent[fd]
    BY <2>2, <2>4, <2>5 DEF Table, SpawnInv, SpawnTypes
  <2>7. SpawnTypes'
    <3>1. at' \in [Caller -> CallerAt] /\ ends' \in [Caller -> Fd \X Fd]
      BY <1>2, <2>1, <2>2 DEF SpawnInv, SpawnTypes, CallerAt
    <3> QED
      BY <2>1, <2>6, <3>1 DEF SpawnInv, SpawnTypes
  <2>8. /\ HoldsWatch(c)' /\ HoldsReport(c)' /\ ~HoldsWatch(c) /\ ~HoldsReport(c)
        /\ \A d \in Caller : d # c => /\ HoldsWatch(d)' <=> HoldsWatch(d)
                                      /\ HoldsReport(d)' <=> HoldsReport(d)
    BY <2>1, <2>3 DEF HoldsWatch, HoldsReport
  <2>9. ParentInv'
    <3>1. \A fd \in Own : parent'[fd] = InitialTable[fd]
      BY <2>2, <2>6, FdNumbers DEF SpawnInv, ParentInv
    <3>2. ASSUME NEW d \in Caller, d # c, HoldsWatch(d)
          PROVE  ends[d][1] \in Fd \ Own /\ ends[d][1] # w /\ ends[d][1] # r
      BY <2>2, <3>2, FilesDiffer, NoEntryType DEF SpawnInv, ParentInv
    <3>3. ASSUME NEW d \in Caller, d # c, HoldsReport(d)
          PROVE  ends[d][2] \in Fd \ Own /\ ends[d][2] # w /\ ends[d][2] # r
      BY <2>2, <3>3, FilesDiffer, NoEntryType DEF SpawnInv, ParentInv
    <3>4. \A d \in Caller : HoldsWatch(d)' =>
            /\ ends'[d][1] \in Fd \ Own
            /\ parent'[ends'[d][1]].file = Watch(d) /\ parent'[ends'[d][1]].cloexec = TRUE
      BY <2>2, <2>3, <2>4, <2>6, <2>8, <3>2 DEF SpawnInv, ParentInv
    <3>5. \A d \in Caller : HoldsReport(d)' =>
            /\ ends'[d][2] \in Fd \ Own
            /\ parent'[ends'[d][2]].file = Report(d) /\ parent'[ends'[d][2]].cloexec = TRUE
      BY <2>2, <2>3, <2>4, <2>6, <2>8, <3>3 DEF SpawnInv, ParentInv
    <3>6. ASSUME NEW fd \in Fd \ Own, parent'[fd] # NoEntry
          PROVE  \E d \in Caller : \/ HoldsWatch(d)' /\ fd = ends'[d][1]
                                   \/ HoldsReport(d)' /\ fd = ends'[d][2]
      <4>1. CASE fd = w \/ fd = r
        BY <2>3, <2>8, <4>1
      <4>2. CASE fd # w /\ fd # r
        <5>1. PICK d \in Caller : \/ HoldsWatch(d) /\ fd = ends[d][1]
                                  \/ HoldsReport(d) /\ fd = ends[d][2]
          BY <2>6, <3>6, <4>2 DEF SpawnInv, ParentInv
        <5> QED
          BY <2>3, <2>8, <5>1
      <4> QED
        BY <4>1, <4>2
    <3> QED
      BY <3>1, <3>4, <3>5, <3>6 DEF ParentInv
  <2>10. Elsewhere(c)
    BY <2>1, <2>3 DEF Elsewhere
  <2>11. /\ \A q \in Role : proc[c][q] = NoProc /\ proc'[c][q] = NoProc
         /\ image[c] = NoTable /\ report[c] = FALSE /\ ret[c] = "none"
    BY <2>1 DEF SpawnInv, CallInv, ShapeInv, TruthInv
  <2>12. \A q \in Role : ~InLoad(c, q)'
    BY <2>11, NoTableNoProc DEF InLoad
  <2>13. ShapeInv(c)'
    BY <2>1, <2>3, <2>11, NoTableNoProc DEF ShapeInv, Role, ChildAt, MiddleAt, DaemonAt
  <2>14. TruthInv(c)'
    BY <2>1, <2>3, <2>11, <2>12 DEF TruthInv
  <2> QED
    BY <2>7, <2>9, <2>10, <2>12, <2>13, <2>14 DEF StepKeeps, CallInv
<1> QED
  BY <1>1, <1>2 DEF Pipe

\* The calling process closes an end: the others keep theirs.
LEMMA CloseEnd ==
    ASSUME SpawnInv, NEW c \in Caller, NEW k \in {1, 2},
           k = 1 => HoldsWatch(c), k = 2 => HoldsReport(c)
    PROVE  /\ ends[c][k] \in Fd \ Own /\ Close(parent, ends[c][k]) \in Table
           /\ \A fd \in Fd : fd # ends[c][k] => Close(parent, ends[c][k])[fd] = parent[fd]
           /\ Close(parent, ends[c][k])[ends[c][k]] = NoEntry
<1>1. ends[c][k] \in Fd \ Own /\ parent \in Table
  BY DEF SpawnInv, SpawnTypes, ParentInv
<1> QED
  BY <1>1, TableChanges

\* The caller closes the end it has forked away.
LEMMA CloseReportStep ==
    ASSUME SpawnInv, NEW c \in Caller, CloseReport(c)
    PROVE  StepKeeps(c)
<1> DEFINE label == IF opts[c].daemon THEN "wait_middle" ELSE "read"
<1>1. /\ at[c] = "close_report" /\ parent' = Close(parent, ends[c][2])
      /\ at' = [at EXCEPT ![c] = label]
      /\ UNCHANGED <<opts, ret, fault, ends, report, proc, image>>
  BY DEF CloseReport, Goto
<1>2. /\ label \in {"wait_middle", "read"} /\ opts[c].daemon \in BOOLEAN
      /\ opts[c].daemon = TRUE => label = "wait_middle"
      /\ opts[c].daemon = FALSE => label = "read"
  BY SpawnAssumption DEF SpawnInv, SpawnTypes, SpawnOpts
<1> HIDE DEF label
<1>3. at'[c] = label /\ \A d \in Caller : d # c => at'[d] = at[d]
  BY <1>1 DEF SpawnInv, SpawnTypes
<1>4. /\ HoldsWatch(c) /\ HoldsReport(c) /\ HoldsWatch(c)' /\ ~HoldsReport(c)'
      /\ \A d \in Caller : d # c => /\ HoldsWatch(d)' <=> HoldsWatch(d)
                                    /\ HoldsReport(d)' <=> HoldsReport(d)
  BY <1>1, <1>2, <1>3 DEF HoldsWatch, HoldsReport
<1>5. /\ ends[c][2] \in Fd \ Own /\ parent' \in Table /\ parent'[ends[c][2]] = NoEntry
      /\ \A fd \in Fd : fd # ends[c][2] => parent'[fd] = parent[fd]
  BY <1>1, <1>4, CloseEnd
<1>6. SpawnTypes'
  BY <1>1, <1>2, <1>5 DEF SpawnInv, SpawnTypes, CallerAt
<1>7. ParentInv'
  <2>1. \A fd \in Own : parent'[fd] = InitialTable[fd]
    BY <1>5, FdNumbers DEF SpawnInv, ParentInv
  <2>2. ASSUME NEW d \in Caller, HoldsWatch(d) PROVE ends[d][1] # ends[c][2]
    BY <1>4, <2>2, EndsDiffer DEF SpawnInv
  <2>3. ASSUME NEW d \in Caller, d # c, HoldsReport(d) PROVE ends[d][2] # ends[c][2]
    BY <1>4, <2>3, EndsDiffer DEF SpawnInv
  <2>4. \A d \in Caller : HoldsWatch(d)' =>
            /\ ends'[d][1] \in Fd \ Own
            /\ parent'[ends'[d][1]].file = Watch(d) /\ parent'[ends'[d][1]].cloexec = TRUE
    BY <1>1, <1>4, <1>5, <2>2 DEF SpawnInv, ParentInv
  <2>5. \A d \in Caller : HoldsReport(d)' =>
            /\ ends'[d][2] \in Fd \ Own
            /\ parent'[ends'[d][2]].file = Report(d) /\ parent'[ends'[d][2]].cloexec = TRUE
    BY <1>1, <1>4, <1>5, <2>3 DEF SpawnInv, ParentInv
  <2>6. ASSUME NEW fd \in Fd \ Own, parent'[fd] # NoEntry
        PROVE  \E d \in Caller : \/ HoldsWatch(d)' /\ fd = ends'[d][1]
                                 \/ HoldsReport(d)' /\ fd = ends'[d][2]
    <3>1. fd # ends[c][2] /\ parent[fd] # NoEntry
      BY <1>5, <2>6
    <3>2. PICK d \in Caller : \/ HoldsWatch(d) /\ fd = ends[d][1]
                              \/ HoldsReport(d) /\ fd = ends[d][2]
      BY <3>1 DEF SpawnInv, ParentInv
    <3> QED
      BY <1>1, <1>4, <3>1, <3>2
  <2> QED
    BY <2>1, <2>4, <2>5, <2>6 DEF ParentInv
<1>8. Elsewhere(c)
  BY <1>1, <1>3 DEF Elsewhere
<1>9. ASSUME NEW r \in Role
      PROVE  (InLoad(c, r)' <=> InLoad(c, r)) /\ (InLoad(c, r)' => LoadInv(c, r)')
  BY <1>1, LoadKept DEF SpawnInv, CallInv
<1>10. ShapeInv(c)'
  <2>1. at'[c] = "read" => proc[c]["middle"] = NoProc
    BY <1>1, <1>2, <1>3 DEF SpawnInv, CallInv, ShapeInv
  <2> QED
    BY <1>1, <1>2, <1>3, <2>1 DEF SpawnInv, CallInv, ShapeInv
<1>11. TruthInv(c)'
  <2>1. \A fd : Wanted(c, fd)' = Wanted(c, fd)
    BY <1>1 DEF Wanted
  <2> QED
    BY <1>1, <1>2, <1>3, <1>9, <2>1 DEF SpawnInv, CallInv, TruthInv
<1> QED
  BY <1>6, <1>7, <1>8, <1>9, <1>10, <1>11 DEF StepKeeps, CallInv

\* The caller closes the end it has read.
LEMMA CloseWatchStep ==
    ASSUME SpawnInv, NEW c \in Caller, CloseWatch(c)
    PROVE  StepKeeps(c)
<1> DEFINE label == IF ret[c] = "-1" /\ ~opts[c].daemon THEN "reap" ELSE "returned"
<1>1. /\ at[c] = "close_watch" /\ parent' = Close(parent, ends[c][1])
      /\ at' = [at EXCEPT ![c] = label]
      /\ UNCHANGED <<opts, ret, fault, ends, report, proc, image>>
  BY DEF CloseWatch, Goto
<1>2. /\ label \in {"reap", "returned"} /\ opts[c].daemon \in BOOLEAN
      /\ label = "reap" => opts[c].daemon = FALSE /\ ret[c] = "-1"
      /\ label = "returned" => opts[c].daemon = TRUE \/ ret[c] # "-1"
  BY SpawnAssumption DEF SpawnInv, SpawnTypes, SpawnOpts
<1> HIDE DEF label
<1>3. at'[c] = label /\ \A d \in Caller : d # c => at'[d] = at[d]
  BY <1>1 DEF SpawnInv, SpawnTypes
<1>4. /\ HoldsWatch(c) /\ ~HoldsReport(c) /\ ~HoldsWatch(c)' /\ ~HoldsReport(c)'
      /\ \A d \in Caller : d # c => /\ HoldsWatch(d)' <=> HoldsWatch(d)
                                    /\ HoldsReport(d)' <=> HoldsReport(d)
  BY <1>1, <1>2, <1>3 DEF HoldsWatch, HoldsReport
<1>5. /\ ends[c][1] \in Fd \ Own /\ parent' \in Table /\ parent'[ends[c][1]] = NoEntry
      /\ \A fd \in Fd : fd # ends[c][1] => parent'[fd] = parent[fd]
  BY <1>1, <1>4, CloseEnd
<1>6. SpawnTypes'
  BY <1>1, <1>2, <1>5 DEF SpawnInv, SpawnTypes, CallerAt
<1>7. ParentInv'
  <2>1. \A fd \in Own : parent'[fd] = InitialTable[fd]
    BY <1>5, FdNumbers DEF SpawnInv, ParentInv
  <2>2. ASSUME NEW d \in Caller, d # c, HoldsWatch(d) PROVE ends[d][1] # ends[c][1]
    BY <1>4, <2>2, EndsDiffer DEF SpawnInv
  <2>3. ASSUME NEW d \in Caller, HoldsReport(d) PROVE ends[d][2] # ends[c][1]
    BY <1>4, <2>3, EndsDiffer DEF SpawnInv
  <2>4. \A d \in Caller : HoldsWatch(d)' =>
            /\ ends'[d][1] \in Fd \ Own
            /\ parent'[ends'[d][1]].file = Watch(d) /\ parent'[ends'[d][1]].cloexec = TRUE
    BY <1>1, <1>4, <1>5, <2>2 DEF SpawnInv, ParentInv
  <2>5. \A d \in Caller : HoldsReport(d)' =>
            /\ ends'[d][2] \in Fd \ Own
            /\ parent'[ends'[d][2]].file = Report(d) /\ parent'[ends'[d][2]].cloexec = TRUE
    BY <1>1, <1>4, <1>5, <2>3 DEF SpawnInv, ParentInv
  <2>6. ASSUME NEW fd \in Fd \ Own, parent'[fd] # NoEntry
        PROVE  \E d \in Caller : \/ HoldsWatch(d)' /\ fd = ends'[d][1]
                                 \/ HoldsReport(d)' /\ fd = ends'[d][2]
    <3>1. fd # ends[c][1] /\ parent[fd] # NoEntry
      BY <1>5, <2>6
    <3>2. PICK d \in Caller : \/ HoldsWatch(d) /\ fd = ends[d][1]
                              \/ HoldsReport(d) /\ fd = ends[d][2]
      BY <3>1 DEF SpawnInv, ParentInv
    <3> QED
      BY <1>1, <1>4, <3>1, <3>2
  <2> QED
    BY <2>1, <2>4, <2>5, <2>6 DEF ParentInv
<1>8. Elsewhere(c)
  BY <1>1, <1>3 DEF Elsewhere
<1>9. ASSUME NEW r \in Role
      PROVE  (InLoad(c, r)' <=> InLoad(c, r)) /\ (InLoad(c, r)' => LoadInv(c, r)')
  BY <1>1, LoadKept DEF SpawnInv, CallInv
<1>10. ShapeInv(c)'
  BY <1>1, <1>2, <1>3 DEF SpawnInv, CallInv, ShapeInv
<1>11. TruthInv(c)'
  <2>1. \A fd : Wanted(c, fd)' = Wanted(c, fd)
    BY <1>1 DEF Wanted
  <2> QED
    BY <1>1, <1>2, <1>3, <1>9, <2>1 DEF SpawnInv, CallInv, TruthInv
<1> QED
  BY <1>6, <1>7, <1>8, <1>9, <1>10, <1>11 DEF StepKeeps, CallInv

\* fork() fails: both ends are closed.
LEMMA ForkFailure ==
    ASSUME SpawnInv, NEW c \in Caller, at[c] = "fork", Fails(c), Return(c, "-1"),
           parent' = Close(Close(parent, ends[c][1]), ends[c][2]),
           UNCHANGED <<opts, ends, report, proc, image>>
    PROVE  StepKeeps(c)
<1>1. /\ at' = [at EXCEPT ![c] = "returned"] /\ ret' = [ret EXCEPT ![c] = "-1"]
      /\ fault' = [fault EXCEPT ![c] = TRUE]
      /\ UNCHANGED <<opts, ends, report, proc, image>>
  BY DEF Fails, Return, Goto
<1>2. /\ at'[c] = "returned" /\ ret'[c] = "-1" /\ fault'[c] = TRUE
      /\ \A d \in Caller : d # c => at'[d] = at[d] /\ ret'[d] = ret[d] /\ fault'[d] = fault[d]
  BY <1>1 DEF SpawnInv, SpawnTypes
<1>3. /\ HoldsWatch(c) /\ HoldsReport(c) /\ ~HoldsWatch(c)' /\ ~HoldsReport(c)'
      /\ \A d \in Caller : d # c => /\ HoldsWatch(d)' <=> HoldsWatch(d)
                                    /\ HoldsReport(d)' <=> HoldsReport(d)
  BY <1>2 DEF HoldsWatch, HoldsReport
<1>4. ends[c][1] \in Fd \ Own /\ ends[c][2] \in Fd \ Own /\ ends[c][1] # ends[c][2]
  BY <1>3, EndsDiffer DEF SpawnInv, ParentInv
<1>5. /\ parent' \in Table /\ parent'[ends[c][1]] = NoEntry /\ parent'[ends[c][2]] = NoEntry
      /\ \A fd \in Fd : (fd # ends[c][1] /\ fd # ends[c][2]) => parent'[fd] = parent[fd]
  <2> DEFINE mid == Close(parent, ends[c][1])
  <2>1. /\ mid \in Table /\ mid[ends[c][1]] = NoEntry
        /\ \A fd \in Fd : fd # ends[c][1] => mid[fd] = parent[fd]
    BY <1>4, TableChanges DEF SpawnInv, SpawnTypes
  <2> HIDE DEF mid
  <2>2. parent' = Close(mid, ends[c][2])
    BY DEF mid
  <2>3. ends[c][2] \in Fd /\ ends[c][1] \in Fd
    BY <1>4
  <2>4. /\ Close(mid, ends[c][2]) \in Table /\ Close(mid, ends[c][2])[ends[c][2]] = NoEntry
        /\ \A fd \in Fd : fd # ends[c][2] => Close(mid, ends[c][2])[fd] = mid[fd]
    BY <2>1, <2>3, TableChanges
  <2>5. /\ parent' \in Table /\ parent'[ends[c][2]] = NoEntry
        /\ \A fd \in Fd : fd # ends[c][2] => parent'[fd] = mid[fd]
    BY <2>2, <2>4
  <2> QED
    BY <1>4, <2>1, <2>3, <2>5
<1>6. SpawnTypes'
  BY <1>1, <1>5 DEF SpawnInv, SpawnTypes, CallerAt
<1>7. ParentInv'
  <2>1. \A fd \in Own : parent'[fd] = InitialTable[fd]
    BY <1>4, <1>5, FdNumbers DEF SpawnInv, ParentInv
  <2>2. ASSUME NEW d \in Caller, d # c, HoldsWatch(d)
        PROVE  ends[d][1] # ends[c][1] /\ ends[d][1] # ends[c][2]
    BY <1>3, <2>2, EndsDiffer DEF SpawnInv
  <2>3. ASSUME NEW d \in Caller, d # c, HoldsReport(d)
        PROVE  ends[d][2] # ends[c][1] /\ ends[d][2] # ends[c][2]
    BY <1>3, <2>3, EndsDiffer DEF SpawnInv
  <2>4. \A d \in Caller : HoldsWatch(d)' =>
            /\ ends'[d][1] \in Fd \ Own
            /\ parent'[ends'[d][1]].file = Watch(d) /\ parent'[ends'[d][1]].cloexec = TRUE
    BY <1>1, <1>3, <1>5, <2>2 DEF SpawnInv, ParentInv
  <2>5. \A d \in Caller : HoldsReport(d)' =>
            /\ ends'[d][2] \in Fd \ Own
            /\ parent'[ends'[d][2]].file = Report(d) /\ parent'[ends'[d][2]].cloexec = TRUE
    BY <1>1, <1>3, <1>5, <2>3 DEF SpawnInv, ParentInv
  <2>6. ASSUME NEW fd \in Fd \ Own, parent'[fd] # NoEntry
        PROVE  \E d \in Caller : \/ HoldsWatch(d)' /\ fd = ends'[d][1]
                                 \/ HoldsReport(d)' /\ fd = ends'[d][2]
    <3>1. fd # ends[c][1] /\ fd # ends[c][2] /\ parent[fd] # NoEntry
      BY <1>5, <2>6
    <3>2. PICK d \in Caller : \/ HoldsWatch(d) /\ fd = ends[d][1]
                              \/ HoldsReport(d) /\ fd = ends[d][2]
      BY <3>1 DEF SpawnInv, ParentInv
    <3> QED
      BY <1>1, <1>3, <3>1, <3>2
  <2> QED
    BY <2>1, <2>4, <2>5, <2>6 DEF ParentInv
<1>8. Elsewhere(c)
  BY <1>1, <1>2 DEF Elsewhere
<1>9. /\ \A r \in Role : proc[c][r] = NoProc /\ proc'[c][r] = NoProc
      /\ image[c] = NoTable /\ report[c] = FALSE
  BY <1>1 DEF SpawnInv, CallInv, ShapeInv, TruthInv
<1>10. \A r \in Role : ~InLoad(c, r)'
  BY <1>9, NoTableNoProc DEF InLoad
<1>11. ShapeInv(c)'
  BY <1>1, <1>2, <1>9, NoTableNoProc DEF ShapeInv, Role, ChildAt, MiddleAt, DaemonAt
<1>12. TruthInv(c)'
  BY <1>1, <1>2, <1>9, <1>10 DEF TruthInv
<1> QED
  BY <1>6, <1>7, <1>8, <1>10, <1>11, <1>12 DEF StepKeeps, CallInv

\* fork(): the new process has the pipe of the call, and those of the others.
LEMMA ForkStep ==
    ASSUME SpawnInv, NEW c \in Caller, ForkChild(c)
    PROVE  StepKeeps(c)
<1>1. CASE Fails(c) /\ parent' = Close(Close(parent, ends[c][1]), ends[c][2]) /\ Return(c, "-1")
           /\ UNCHANGED proc
  <2>1. at[c] = "fork" /\ UNCHANGED <<opts, ends, report, proc, image>>
    BY <1>1 DEF ForkChild
  <2> QED
    BY <1>1, <2>1, ForkFailure
<1>2. CASE /\ proc' = [proc EXCEPT ![c][FirstFork(c)] = Fork(parent)]
           /\ Goto(c, "close_report") /\ UNCHANGED <<ret, fault, parent>>
  <2>0. PICK q \in Role :
          /\ q = FirstFork(c) /\ q \in {"child", "middle"} /\ opts[c].daemon \in BOOLEAN
          /\ opts[c].daemon = TRUE => q = "middle"
          /\ opts[c].daemon = FALSE => q = "child"
    BY SpawnAssumption DEF SpawnInv, SpawnTypes, SpawnOpts, FirstFork, Role
  <2>1. /\ at[c] = "fork" /\ at' = [at EXCEPT ![c] = "close_report"]
        /\ proc' = [proc EXCEPT ![c][q] = Fork(parent)]
        /\ UNCHANGED <<opts, ret, fault, ends, report, parent, image>>
    BY <1>2, <2>0 DEF ForkChild, Goto
  <2>2. /\ q \in {"child", "middle"} /\ q \in Role /\ opts[c].daemon \in BOOLEAN
        /\ opts[c].daemon = TRUE => q = "middle"
        /\ opts[c].daemon = FALSE => q = "child"
    BY <2>0
  <2>3. /\ Fork(parent) \in ProcRec /\ Fork(parent).at = "forked" /\ Fork(parent).table = parent
    BY DEF Fork, ProcRec, ChildAt, SpawnInv, SpawnTypes
  <2>4. /\ proc' \in [Caller -> [Role -> ProcRec]] /\ proc'[c][q] = Fork(parent)
        /\ \A r \in Role : r # q => proc'[c][r] = proc[c][r]
        /\ \A d \in Caller : d # c => proc'[d] = proc[d]
    BY <2>1, <2>2, <2>3 DEF SpawnInv, SpawnTypes
  <2>5. at'[c] = "close_report" /\ \A d \in Caller : d # c => at'[d] = at[d]
    BY <2>1 DEF SpawnInv, SpawnTypes
  <2>6. SpawnTypes'
    BY <2>1, <2>4 DEF SpawnInv, SpawnTypes, CallerAt
  <2>7. ParentInv'
    <3>1. \A d \in Caller : (HoldsWatch(d)' <=> HoldsWatch(d)) /\ (HoldsReport(d)' <=> HoldsReport(d))
      BY <2>1, <2>5 DEF HoldsWatch, HoldsReport
    <3> QED
      BY <2>1, <3>1, ParentKept DEF SpawnInv
  <2>8. Elsewhere(c)
    BY <2>1, <2>4, <2>5 DEF Elsewhere
  <2>9. /\ \A r \in Role : proc[c][r] = NoProc
        /\ image[c] = NoTable /\ report[c] = FALSE /\ ret[c] = "none"
    BY <2>1 DEF SpawnInv, CallInv, ShapeInv, TruthInv
  <2>10. InLoad(c, q)' /\ LoadInv(c, q)'
    <3>1. proc'[c][q].at = "forked" /\ proc'[c][q].table = parent
      BY <2>3, <2>4
    <3>2. HoldsWatch(c) /\ HoldsReport(c)
      BY <2>1 DEF HoldsWatch, HoldsReport
    <3>3. /\ ends[c][1] \in Fd \ Own /\ ends[c][2] \in Fd \ Own /\ ends[c][1] # ends[c][2]
          /\ parent[ends[c][2]].file = Report(c)
      BY <3>2, EndsDiffer DEF SpawnInv, ParentInv
    <3>4. \A fd \in Fd \ Own : parent[fd] = NoEntry \/ parent[fd].cloexec = TRUE
      BY DEF SpawnInv, ParentInv
    <3>5. \A fd \in Own : parent[fd] = InitialTable[fd]
      BY DEF SpawnInv, ParentInv
    <3>6. parent \in Table
      BY DEF SpawnInv, SpawnTypes
    <3>7. InLoad(c, q)'
      BY <3>1 DEF InLoad
    <3>8. /\ proc'[c][q].at # "exec" /\ proc'[c][q].at # "failed" /\ ends' = ends
      BY <2>1, <3>1
    <3>9. LoadInv(c, q)'
      BY <3>1, <3>3, <3>4, <3>5, <3>6, <3>8 DEF LoadInv
    <3> QED
      BY <3>7, <3>9
  <2>11. \A r \in Role : r # q => ~InLoad(c, r)'
    BY <2>4, <2>9, NoTableNoProc DEF InLoad
  <2>12. ShapeInv(c)'
    <3>1. CASE q = "child"
      <4>1. /\ proc'[c]["child"].at = "forked" /\ proc'[c]["middle"] = NoProc
            /\ proc'[c]["daemon"] = NoProc /\ opts'[c].daemon = FALSE
        BY <2>1, <2>2, <2>3, <2>4, <2>9, <3>1 DEF Role
      <4> QED
        BY <2>5, <4>1, NoTableNoProc DEF ShapeInv, Role, ChildAt, MiddleAt, DaemonAt
    <3>2. CASE q = "middle"
      <4>1. /\ proc'[c]["middle"].at = "forked" /\ proc'[c]["child"] = NoProc
            /\ proc'[c]["daemon"] = NoProc /\ opts'[c].daemon = TRUE
        BY <2>1, <2>2, <2>3, <2>4, <2>9, <3>2 DEF Role
      <4> QED
        BY <2>5, <4>1, NoTableNoProc DEF ShapeInv, Role, ChildAt, MiddleAt, DaemonAt
    <3> QED
      BY <2>2, <3>1, <3>2
  <2>13. TruthInv(c)'
    <3>1. /\ ret'[c] = "none" /\ image'[c] = NoTable /\ report'[c] = FALSE
      BY <2>1, <2>9
    <3>2. \E r \in Role : InLoad(c, r)'
      BY <2>2, <2>10
    <3> QED
      BY <2>5, <3>1, <3>2 DEF TruthInv
  <2>14. \A r \in Role : InLoad(c, r)' => LoadInv(c, r)'
    BY <2>10, <2>11
  <2>15. CallInv(c)'
    BY <2>12, <2>13, <2>14 DEF CallInv
  <2> QED
    BY <2>6, <2>7, <2>8, <2>15 DEF StepKeeps
<1> QED
  BY <1>1, <1>2 DEF ForkChild

\* The caller has read, and has got v.
LEMMA ReadAnswered ==
    ASSUME SpawnInv, NEW c \in Caller, ReadResult(c), NEW v \in {"-1", "0"},
           ret' = [ret EXCEPT ![c] = v], opts[c].reads \in BOOLEAN, report[c] \in BOOLEAN,
           opts[c].reads = TRUE =>
                /\ report[c] = TRUE \/ Writers(c) = {}
                /\ report[c] = TRUE => v = "-1"
                /\ report[c] = FALSE => v = "0"
                /\ fault' = fault,
           opts[c].reads = FALSE => v = "-1" /\ fault' = [fault EXCEPT ![c] = TRUE]
    PROVE  StepKeeps(c)
<1>1. /\ at[c] = "read" /\ at' = [at EXCEPT ![c] = "close_watch"] /\ ret' = [ret EXCEPT ![c] = v]
      /\ UNCHANGED <<opts, ends, report, parent, proc, image>>
  BY DEF ReadResult, Goto
<1>2. opts[c].reads = TRUE => report[c] = TRUE \/ (report[c] = FALSE /\ Writers(c) = {})
  OBVIOUS
<1>3. /\ v \in {"-1", "0"} /\ report[c] \in BOOLEAN /\ opts[c].reads \in BOOLEAN
      /\ (opts[c].reads = TRUE /\ report[c] = TRUE) => v = "-1"
      /\ (opts[c].reads = TRUE /\ report[c] = FALSE) => v = "0"
      /\ opts[c].reads = FALSE => v = "-1"
  OBVIOUS
<1>3a. /\ fault' \in [Caller -> BOOLEAN] /\ (fault[c] = TRUE => fault'[c] = TRUE)
       /\ \A d \in Caller : d # c => fault'[d] = fault[d]
       /\ opts[c].reads = FALSE => fault'[c] = TRUE
  <2>1. fault \in [Caller -> BOOLEAN]
    BY DEF SpawnInv, SpawnTypes
  <2>2. CASE opts[c].reads = TRUE
    BY <2>1, <2>2
  <2>3. CASE opts[c].reads = FALSE
    BY <2>1, <2>3
  <2> QED
    BY <1>3, <2>2, <2>3
<1>4. /\ at'[c] = "close_watch" /\ ret'[c] = v
      /\ \A d \in Caller : d # c => at'[d] = at[d] /\ ret'[d] = ret[d]
  BY <1>1 DEF SpawnInv, SpawnTypes
<1>5. SpawnTypes'
  BY <1>1, <1>3, <1>3a DEF SpawnInv, SpawnTypes, CallerAt
<1>6. ParentInv'
  <2>1. \A d \in Caller : (HoldsWatch(d)' <=> HoldsWatch(d)) /\ (HoldsReport(d)' <=> HoldsReport(d))
    BY <1>1, <1>4 DEF HoldsWatch, HoldsReport
  <2> QED
    BY <1>1, <2>1, ParentKept DEF SpawnInv
<1>7. Elsewhere(c)
  BY <1>1, <1>3a, <1>4 DEF Elsewhere
<1>8. ASSUME NEW r \in Role
      PROVE  (InLoad(c, r)' <=> InLoad(c, r)) /\ (InLoad(c, r)' => LoadInv(c, r)')
  BY <1>1, <1>3a, LoadKept DEF SpawnInv, CallInv
<1>9. ASSUME report[c] = FALSE, opts[c].reads = TRUE PROVE image[c] # NoTable
  <2>1. ASSUME NEW r \in Role, InLoad(c, r) PROVE FALSE
    <3>1. LoadInv(c, r)
      BY <2>1 DEF SpawnInv, CallInv
    <3>2. HasEnd(proc[c][r].table, Report(c))
      BY <3>1, NoTableNoProc DEF HasEnd, LoadInv
    <3>3. <<c, r>> \in Writers(c)
      BY <3>2 DEF Writers
    <3> QED
      BY <1>2, <1>9, <3>3
  <2> QED
    BY <1>1, <1>9, <2>1 DEF SpawnInv, CallInv, TruthInv
<1>10. ShapeInv(c)'
  BY <1>1, <1>4 DEF SpawnInv, CallInv, ShapeInv
<1>11. TruthInv(c)'
  <2>1. \A fd : Wanted(c, fd)' = Wanted(c, fd)
    BY <1>1 DEF Wanted
  <2>2. TruthInv(c) /\ ret[c] = "none"
    BY <1>1 DEF SpawnInv, CallInv, TruthInv
  <2>3. /\ at'[c] = "close_watch" /\ ret'[c] # "none" /\ report'[c] = report[c]
        /\ image'[c] = image[c] /\ opts' = opts
        /\ ret'[c] = "0" => report[c] = FALSE /\ opts[c].reads = TRUE
        /\ (ret'[c] = "-1" /\ opts[c].reads = TRUE) => report[c] = TRUE
    BY <1>1, <1>3, <1>4
  <2>4. /\ image[c] # NoTable =>
            /\ report[c] = FALSE /\ \A r \in Role : ~InLoad(c, r)'
            /\ \A fd \in Fd : image[c][fd].file = Wanted(c, fd)'
        /\ report[c] = TRUE =>
            fault'[c] = TRUE /\ image[c] = NoTable /\ \A r \in Role : ~InLoad(c, r)'
    BY <1>3a, <1>8, <2>1, <2>2 DEF TruthInv
  <2>5. ret'[c] = "-1" => fault'[c] = TRUE
    BY <1>3, <1>3a, <2>3, <2>4
  <2> QED
    BY <1>9, <2>3, <2>4, <2>5 DEF TruthInv
<1> QED
  BY <1>5, <1>6, <1>7, <1>8, <1>10, <1>11 DEF StepKeeps, CallInv

\* The read: whoever can still report for the call holds its pipe.
LEMMA ReadStep ==
    ASSUME SpawnInv, NEW c \in Caller, ReadResult(c)
    PROVE  StepKeeps(c)
<1> DEFINE answer == IF report[c] THEN "-1" ELSE "0"
<1>0. opts[c].reads \in BOOLEAN /\ report[c] \in BOOLEAN /\ fault \in [Caller -> BOOLEAN]
  BY SpawnAssumption DEF SpawnInv, SpawnTypes, SpawnOpts
<1>01. CASE opts[c].reads = TRUE
  <2>1. /\ report[c] \/ Writers(c) = {}
        /\ ret' = [ret EXCEPT ![c] = answer] /\ fault' = fault
    BY <1>01 DEF ReadResult
  <2>2. /\ answer \in {"-1", "0"} /\ (report[c] = TRUE => answer = "-1")
        /\ report[c] = FALSE => answer = "0"
    BY <1>0
  <2> QED
    BY <1>0, <1>01, <2>1, <2>2, ReadAnswered
<1>02. CASE opts[c].reads = FALSE
  <2>1. ret' = [ret EXCEPT ![c] = "-1"] /\ fault' = [fault EXCEPT ![c] = TRUE]
    BY <1>02 DEF ReadResult, Fails
  <2> QED
    BY <1>0, <1>02, <2>1, ReadAnswered
<1> QED
  BY <1>0, <1>01, <1>02

\* The caller waits for a process of its own.
LEMMA ReapStep ==
    ASSUME SpawnInv, NEW c \in Caller, WaitMiddle(c) \/ ReapChild(c) \/ WaitProcess(c)
    PROVE  StepKeeps(c)
<1>1. PICK q \in {"child", "middle"} :
        /\ Reap(c, q) /\ UNCHANGED <<opts, ret, fault, ends, report, parent, image>>
        /\ \/ q = "middle" /\ at[c] = "wait_middle" /\ at' = [at EXCEPT ![c] = "read"]
           \/ q = "child" /\ at[c] = "reap" /\ at' = [at EXCEPT ![c] = "returned"]
           \/ q = "child" /\ at[c] = "returned" /\ at' = at /\ ret[c] = "0"
  BY DEF WaitMiddle, ReapChild, WaitProcess, Goto
<1>2. q \in Role /\ proc[c][q].at = "zombie" /\ proc' = [proc EXCEPT ![c][q] = NoProc]
  BY <1>1 DEF Reap, Role
<1>3. /\ proc' \in [Caller -> [Role -> ProcRec]] /\ proc'[c][q] = NoProc
      /\ \A r \in Role : r # q => proc'[c][r] = proc[c][r]
      /\ \A d \in Caller : d # c => proc'[d] = proc[d]
  BY <1>2, NoTableNoProc DEF SpawnInv, SpawnTypes
<1>4. /\ at[c] = "wait_middle" => at'[c] = "read"
      /\ at[c] = "reap" => at'[c] = "returned"
      /\ at[c] = "returned" => at'[c] = "returned"
      /\ at[c] \in {"wait_middle", "reap", "returned"}
      /\ at' \in [Caller -> CallerAt]
      /\ \A d \in Caller : d # c => at'[d] = at[d]
  BY <1>1 DEF SpawnInv, SpawnTypes, CallerAt
<1>5. SpawnTypes'
  BY <1>1, <1>3, <1>4 DEF SpawnInv, SpawnTypes
<1>6. ParentInv'
  <2>1. \A d \in Caller : (HoldsWatch(d)' <=> HoldsWatch(d)) /\ (HoldsReport(d)' <=> HoldsReport(d))
    BY <1>4 DEF HoldsWatch, HoldsReport
  <2> QED
    BY <1>1, <2>1, ParentKept DEF SpawnInv
<1>7. Elsewhere(c)
  BY <1>1, <1>3, <1>4 DEF Elsewhere
<1>8. ~InLoad(c, q) /\ ~InLoad(c, q)'
  BY <1>2, <1>3, NoTableNoProc DEF InLoad
<1>9. ASSUME NEW r \in Role
      PROVE  (InLoad(c, r)' <=> InLoad(c, r)) /\ (InLoad(c, r)' => LoadInv(c, r)')
  BY <1>1, <1>3, <1>8, LoadKept DEF SpawnInv, CallInv
<1>10. ShapeInv(c)'
  <2>1. CASE q = "middle"
    <3>1. proc'[c]["middle"] = NoProc /\ proc'[c]["child"] = proc[c]["child"]
          /\ proc'[c]["daemon"] = proc[c]["daemon"]
      BY <1>3, <2>1 DEF Role
    <3>2. at[c] = "wait_middle" /\ at'[c] = "read"
      BY <1>1, <1>4, <2>1
    <3> QED
      BY <1>1, <3>1, <3>2, NoTableNoProc DEF SpawnInv, CallInv, ShapeInv, Role, MiddleAt
  <2>2. CASE q = "child"
    <3>1. proc'[c]["child"] = NoProc /\ proc'[c]["middle"] = proc[c]["middle"]
          /\ proc'[c]["daemon"] = proc[c]["daemon"]
      BY <1>3, <2>2 DEF Role
    <3>2. at[c] \in {"reap", "returned"} /\ at'[c] = "returned"
      BY <1>1, <1>4, <2>2
    <3> QED
      BY <1>1, <3>1, <3>2, NoTableNoProc DEF SpawnInv, CallInv, ShapeInv, Role, ChildAt
  <2> QED
    BY <2>1, <2>2
<1>11. TruthInv(c)'
  <2>1. \A fd : Wanted(c, fd)' = Wanted(c, fd)
    BY <1>1 DEF Wanted
  <2> QED
    BY <1>1, <1>4, <1>9, <2>1 DEF SpawnInv, CallInv, TruthInv
<1> QED
  BY <1>5, <1>6, <1>7, <1>9, <1>10, <1>11 DEF StepKeeps, CallInv

-----------------------------------------------------------------------------
(***************************************************************************)
(* Steps of the forked processes                                           *)
(***************************************************************************)

\* Where a process of each role may stand.
LegalAt(r, label) ==
    /\ r = "child" => label \in ChildAt
    /\ r = "middle" => label \in MiddleAt
    /\ r = "daemon" => label \in DaemonAt

\* A call has one process on its way, and is not answered yet.
LEMMA OneOnItsWay ==
    ASSUME SpawnInv, NEW c \in Caller, NEW q \in Role, InLoad(c, q)
    PROVE  /\ LoadInv(c, q)
           /\ \A r \in Role : r # q => ~InLoad(c, r)
           /\ image[c] = NoTable /\ report[c] = FALSE /\ OnItsWay(c)
           /\ q = "middle" => proc[c]["daemon"] = NoProc
<1>1. ShapeInv(c) /\ TruthInv(c) /\ LoadInv(c, q)
  BY DEF SpawnInv, CallInv
<1>2. proc[c][q] # NoProc /\ proc[c][q].at \notin {"none", "exit", "zombie", "running"}
  BY NoTableNoProc DEF InLoad
<1>3. /\ opts[c].daemon \in BOOLEAN /\ opts[c].reads \in BOOLEAN /\ report[c] \in BOOLEAN
      /\ ret[c] \in {"none", "0", "-1"} /\ at[c] \in CallerAt
  BY SpawnAssumption DEF SpawnInv, SpawnTypes, SpawnOpts
<1>4. /\ image[c] = NoTable /\ report[c] = FALSE
      /\ ret[c] = "none" \/ (ret[c] = "-1" /\ opts[c].reads = FALSE /\ fault[c] = TRUE)
  BY <1>1, <1>3 DEF TruthInv
<1>5. OnItsWay(c)
  <2>1. at[c] \notin {"begin", "fork"}
    BY <1>1, <1>2 DEF ShapeInv
  <2> QED
    BY <1>1, <1>3, <1>4, <2>1 DEF TruthInv, CallerAt, OnItsWay
<1>6. q = "middle" => proc[c]["daemon"] = NoProc
  BY <1>1, <1>2 DEF ShapeInv, Role
<1>7. q = "daemon" => ~InLoad(c, "middle")
  BY <1>1, <1>2 DEF ShapeInv, InLoad
<1>8. CASE opts[c].daemon = TRUE
  <2>1. proc[c]["child"] = NoProc /\ ~InLoad(c, "child")
    BY <1>1, <1>8, NoTableNoProc DEF ShapeInv
  <2> QED
    BY <1>1, <1>4, <1>5, <1>6, <1>7, <2>1, NoTableNoProc DEF Role
<1>9. CASE opts[c].daemon = FALSE
  <2>1. ~InLoad(c, "middle") /\ ~InLoad(c, "daemon")
    BY <1>1, <1>9, NoTableNoProc DEF ShapeInv
  <2> QED
    BY <1>1, <1>4, <1>5, <1>6, <2>1 DEF Role
<1> QED
  BY <1>3, <1>8, <1>9

\* A step of one process, which leaves the calling process and the other calls
\* alone.
Moves(c, q, p) ==
    /\ p \in ProcRec /\ LegalAt(q, p.at) /\ proc[c][q].at # "none"
    /\ p.at = "none" => p = NoProc
    /\ (q = "middle" /\ proc[c]["daemon"].at # "none") => p.at \in {"none", "exit", "zombie"}
    /\ proc' = [proc EXCEPT ![c][q] = p]
    /\ UNCHANGED <<at, opts, ret, ends, parent>>
    /\ fault' \in [Caller -> BOOLEAN] /\ report' \in [Caller -> BOOLEAN]
    /\ image' \in [Caller -> Table \cup {NoTable}]
    /\ \A d \in Caller : d # c => /\ fault'[d] = fault[d] /\ report'[d] = report[d]
                                  /\ image'[d] = image[d]
    /\ fault[c] = TRUE => fault'[c] = TRUE

\* What of the invariant needs no more than that.
Moved(c, q, p) ==
    /\ SpawnTypes' /\ ParentInv' /\ Elsewhere(c) /\ ShapeInv(c)' /\ proc'[c][q] = p
    /\ \A r \in Role : r # q => /\ InLoad(c, r)' <=> InLoad(c, r)
                                /\ InLoad(c, r)' => LoadInv(c, r)'
    /\ \A fd : Wanted(c, fd)' = Wanted(c, fd)

\* The frame of every step of a forked process.
LEMMA ProcMoves ==
    ASSUME SpawnInv, NEW c \in Caller, NEW q \in Role, NEW p, Moves(c, q, p)
    PROVE  Moved(c, q, p)
<1> USE DEF Moves
<1>1. UNCHANGED <<at, opts, ret, ends, parent>>
  OBVIOUS
<1>2. /\ proc' \in [Caller -> [Role -> ProcRec]] /\ proc'[c][q] = p
      /\ \A r \in Role : r # q => proc'[c][r] = proc[c][r]
      /\ \A d \in Caller : d # c => proc'[d] = proc[d]
  BY DEF SpawnInv, SpawnTypes
<1>3. SpawnTypes'
  BY <1>1, <1>2 DEF SpawnInv, SpawnTypes
<1>4. ParentInv'
  <2>1. \A d \in Caller : (HoldsWatch(d)' <=> HoldsWatch(d)) /\ (HoldsReport(d)' <=> HoldsReport(d))
    BY <1>1 DEF HoldsWatch, HoldsReport
  <2> QED
    BY <1>1, <2>1, ParentKept DEF SpawnInv
<1>5. Elsewhere(c)
  BY <1>1, <1>2 DEF Elsewhere
<1>6. ASSUME NEW r \in Role, r # q
      PROVE  (InLoad(c, r)' <=> InLoad(c, r)) /\ (InLoad(c, r)' => LoadInv(c, r)')
  BY <1>1, <1>2, <1>6, LoadKept DEF SpawnInv, CallInv
<1>7. \A fd : Wanted(c, fd)' = Wanted(c, fd)
  BY <1>1 DEF Wanted
<1>8. ShapeInv(c)'
  <2>1. ShapeInv(c) /\ proc[c][q] # NoProc
    BY NoTableNoProc DEF SpawnInv, CallInv
  <2>2. CASE q = "child"
    <3>1. proc'[c]["child"] = p /\ proc'[c]["middle"] = proc[c]["middle"]
          /\ proc'[c]["daemon"] = proc[c]["daemon"] /\ p.at \in ChildAt
      BY <1>2, <2>2 DEF Role, LegalAt
    <3> QED
      BY <1>1, <2>1, <2>2, <3>1 DEF ShapeInv, Role
  <2>3. CASE q = "middle"
    <3>1. proc'[c]["middle"] = p /\ proc'[c]["child"] = proc[c]["child"]
          /\ proc'[c]["daemon"] = proc[c]["daemon"] /\ p.at \in MiddleAt
      BY <1>2, <2>3 DEF Role, LegalAt
    <3> QED
      BY <1>1, <2>1, <2>3, <3>1 DEF ShapeInv, Role
  <2>4. CASE q = "daemon"
    <3>1. proc'[c]["daemon"] = p /\ proc'[c]["child"] = proc[c]["child"]
          /\ proc'[c]["middle"] = proc[c]["middle"] /\ p.at \in DaemonAt
      BY <1>2, <2>4 DEF Role, LegalAt
    <3> QED
      BY <1>1, <2>1, <2>4, <3>1 DEF ShapeInv, Role
  <2> QED
    BY <2>2, <2>3, <2>4 DEF Role
<1> QED
  BY <1>2, <1>3, <1>4, <1>5, <1>6, <1>7, <1>8 DEF Moved

\* The call is still unanswered after a step of a process on its way.
LEMMA StillOnItsWay ==
    ASSUME NEW c \in Caller, NEW q \in Role, TruthInv(c), at' = at, ret' = ret,
           OnItsWay(c), opts' = opts, fault[c] = TRUE => fault'[c] = TRUE,
           image'[c] = NoTable, report'[c] = FALSE, InLoad(c, q)'
    PROVE  TruthInv(c)'
  BY DEF TruthInv, OnItsWay

\* The forked process closes the end it does not use.
LEMMA ChildCloseStep ==
    ASSUME SpawnInv, NEW c \in Caller, NEW q \in Role, ChildCloseWatch(c, q)
    PROVE  StepKeeps(c)
<1>1. PICK t : t = Close(proc[c][q].table, ends[c][1])
  OBVIOUS
<1>2. PICK label \in {"load", "setup"} : label = IF q = "child" THEN "load" ELSE "setup"
  OBVIOUS
<1> DEFINE p == [at |-> label, table |-> t]
<1>3. /\ proc[c][q].at = "forked" /\ q # "daemon" /\ proc' = [proc EXCEPT ![c][q] = p]
      /\ UNCHANGED <<at, opts, ret, ends, parent, fault, report, image>> /\ Stays
  BY <1>1, <1>2 DEF ChildCloseWatch, ProcAt, Becomes, Stays
<1>4. InLoad(c, q)
  BY <1>3 DEF InLoad
<1>5. /\ LoadInv(c, q) /\ image[c] = NoTable /\ report[c] = FALSE /\ OnItsWay(c)
      /\ q = "middle" => proc[c]["daemon"] = NoProc
  BY <1>4, OneOnItsWay
<1>6. /\ t \in Table /\ t[ends[c][1]] = NoEntry
      /\ \A fd \in Fd : fd # ends[c][1] => t[fd] = proc[c][q].table[fd]
  <2>1. proc[c][q].table \in Table /\ ends[c][1] \in Fd
    BY <1>5 DEF LoadInv
  <2> QED
    BY <1>1, <2>1, TableChanges
<1>7. p \in ProcRec /\ p.at = label /\ p.table = t /\ LegalAt(q, p.at)
  BY <1>2, <1>3, <1>6 DEF ProcRec, ChildAt, MiddleAt, LegalAt
<1> HIDE DEF p
<1>8. /\ SpawnTypes' /\ ParentInv' /\ Elsewhere(c) /\ ShapeInv(c)' /\ proc'[c][q] = p
      /\ \A r \in Role : r # q => (InLoad(c, r)' => LoadInv(c, r)')
  <2>1. Moves(c, q, p)
    BY <1>3, <1>5, <1>7, NoTableNoProc DEF Moves, SpawnInv, SpawnTypes
  <2> QED
    BY <2>1, ProcMoves DEF Moved
<1>9. LoadInv(c, q)'
  <2>1. /\ ends' = ends /\ proc'[c][q].at \in {"load", "setup"} /\ proc'[c][q].table = t
    BY <1>3, <1>7, <1>8
  <2>2. /\ ends[c][1] \in Fd \ Own /\ ends[c][2] \in Fd \ Own /\ ends[c][1] # ends[c][2]
        /\ t[ends[c][2]].file = Report(c)
    BY <1>5, <1>6 DEF LoadInv
  <2>3. \A fd \in Fd \ Own : t[fd] = NoEntry \/ t[fd].cloexec = TRUE
    BY <1>5, <1>6 DEF LoadInv
  <2>4. \A fd \in Own : t[fd] = InitialTable[fd]
    BY <1>3, <1>5, <1>6, <2>2, FdNumbers DEF LoadInv
  <2> QED
    BY <1>6, <2>1, <2>2, <2>3, <2>4 DEF LoadInv
<1>10. InLoad(c, q)'
  BY <1>7, <1>8 DEF InLoad
<1>11. TruthInv(c)'
  <2>1. TruthInv(c)
    BY DEF SpawnInv, CallInv
  <2> QED
    BY <1>3, <1>5, <1>10, <2>1, StillOnItsWay
<1>12. CallInv(c)'
  BY <1>8, <1>9, <1>11 DEF CallInv
<1> QED
  BY <1>8, <1>12 DEF StepKeeps

\* A process on its way fails.
LEMMA FailureStep ==
    ASSUME SpawnInv, NEW c \in Caller, NEW q \in Role, InLoad(c, q), proc[c][q].at # "failed",
           Becomes(c, q, "failed", proc[c][q].table), Fails(c), Stays, UNCHANGED <<report, image>>
    PROVE  StepKeeps(c)
<1>1. PICK t : t = proc[c][q].table
  OBVIOUS
<1> DEFINE p == [at |-> "failed", table |-> t]
<1>3. /\ proc' = [proc EXCEPT ![c][q] = p] /\ fault' = [fault EXCEPT ![c] = TRUE]
      /\ UNCHANGED <<at, opts, ret, ends, parent, report, image>>
  BY <1>1 DEF Becomes, Stays, Fails
<1>5. /\ LoadInv(c, q) /\ image[c] = NoTable /\ report[c] = FALSE /\ OnItsWay(c)
      /\ q = "middle" => proc[c]["daemon"] = NoProc
  BY OneOnItsWay
<1>6. t \in Table /\ proc[c][q].at # "none"
  BY <1>1, <1>5 DEF LoadInv, InLoad
<1>7. p \in ProcRec /\ p.at = "failed" /\ p.table = t /\ LegalAt(q, p.at)
  BY <1>6 DEF ProcRec, ChildAt, MiddleAt, DaemonAt, LegalAt
<1> HIDE DEF p
<1>8. /\ fault' \in [Caller -> BOOLEAN] /\ fault'[c] = TRUE
      /\ \A d \in Caller : d # c => fault'[d] = fault[d]
  BY <1>3 DEF SpawnInv, SpawnTypes
<1>9. report' \in [Caller -> BOOLEAN] /\ image' \in [Caller -> Table \cup {NoTable}]
  BY <1>3 DEF SpawnInv, SpawnTypes
<1>10. /\ SpawnTypes' /\ ParentInv' /\ Elsewhere(c) /\ ShapeInv(c)' /\ proc'[c][q] = p
       /\ \A r \in Role : r # q => (InLoad(c, r)' => LoadInv(c, r)')
  <2>1. Moves(c, q, p)
    BY <1>3, <1>5, <1>6, <1>7, <1>8, <1>9, NoTableNoProc DEF Moves
  <2> QED
    BY <2>1, ProcMoves DEF Moved
<1>11. LoadInv(c, q)'
  <2>1. /\ ends' = ends /\ proc'[c][q].at = "failed" /\ proc'[c][q].table = t
    BY <1>3, <1>7, <1>10
  <2> QED
    BY <1>1, <1>5, <1>8, <2>1 DEF LoadInv
<1>12. InLoad(c, q)'
  BY <1>7, <1>10 DEF InLoad
<1>13. TruthInv(c)'
  <2>1. TruthInv(c)
    BY DEF SpawnInv, CallInv
  <2> QED
    BY <1>3, <1>5, <1>8, <1>12, <2>1, StillOnItsWay
<1>14. CallInv(c)'
  BY <1>10, <1>11, <1>13 DEF CallInv
<1> QED
  BY <1>10, <1>14 DEF StepKeeps

\* The second fork: the daemon goes on with what the middle process had.
LEMMA SecondForkStep ==
    ASSUME SpawnInv, NEW c \in Caller, SecondFork(c)
    PROVE  StepKeeps(c)
<1>1. proc[c]["middle"].at = "setup" /\ InLoad(c, "middle") /\ "middle" \in Role /\ "daemon" \in Role
      /\ "child" \in Role
  BY DEF SecondFork, ProcAt, InLoad, Role
<1>2. CASE Becomes(c, "middle", "failed", proc[c]["middle"].table) /\ Fails(c)
  <2>1. Stays /\ UNCHANGED <<report, image>>
    BY DEF SecondFork
  <2> QED
    BY <1>1, <1>2, <2>1, FailureStep
<1>3. CASE /\ proc' = [proc EXCEPT ![c]["daemon"] = [at |-> "load", table |-> proc[c]["middle"].table],
                                   ![c]["middle"].at = "exit"]
           /\ UNCHANGED fault
  <2>1. UNCHANGED <<at, opts, ret, fault, ends, report, parent, image>>
    BY <1>3 DEF SecondFork, Stays
  <2>2. /\ LoadInv(c, "middle") /\ image[c] = NoTable /\ report[c] = FALSE /\ OnItsWay(c) /\ proc[c]["daemon"] = NoProc
        /\ ~InLoad(c, "child")
    BY <1>1, OneOnItsWay DEF Role
  <2>3. PICK t \in Table : t = proc[c]["middle"].table
    BY <2>2 DEF LoadInv
  <2> DEFINE p == [at |-> "load", table |-> t]
             x == [at |-> "exit", table |-> t]
  <2>4. p \in ProcRec /\ p.at = "load" /\ p.table = t /\ x \in ProcRec /\ x.at = "exit"
    BY DEF ProcRec, ChildAt
  <2>5. /\ proc[c] \in [Role -> ProcRec] /\ proc[c]["middle"] \in ProcRec
        /\ proc \in [Caller -> [Role -> ProcRec]]
    BY <1>1 DEF SpawnInv, SpawnTypes
  <2>6. [proc[c]["middle"] EXCEPT !.at = "exit"] = x
    BY <2>3, <2>5 DEF ProcRec
  <2>7. proc' = [proc EXCEPT ![c] = [[proc[c] EXCEPT !["daemon"] = p] EXCEPT !["middle"] = x]]
    <3>1. "daemon" # "middle"
      OBVIOUS
    <3> QED
      BY <1>1, <1>3, <2>3, <2>5, <2>6, <3>1
  <2> HIDE DEF p, x
  <2>8. /\ proc' \in [Caller -> [Role -> ProcRec]] /\ proc'[c]["daemon"] = p
        /\ proc'[c]["middle"] = x /\ proc'[c]["child"] = proc[c]["child"]
        /\ \A d \in Caller : d # c => proc'[d] = proc[d]
    BY <1>1, <2>4, <2>5, <2>7
  <2>9. SpawnTypes'
    BY <2>1, <2>8 DEF SpawnInv, SpawnTypes
  <2>10. ParentInv'
    <3>1. \A d \in Caller : (HoldsWatch(d)' <=> HoldsWatch(d)) /\ (HoldsReport(d)' <=> HoldsReport(d))
      BY <2>1 DEF HoldsWatch, HoldsReport
    <3> QED
      BY <2>1, <3>1, ParentKept DEF SpawnInv
  <2>11. Elsewhere(c)
    BY <2>1, <2>8 DEF Elsewhere
  <2>12. ShapeInv(c)'
    <3>1. ShapeInv(c) /\ proc[c]["middle"] # NoProc
      BY <1>1, NoTableNoProc DEF SpawnInv, CallInv
    <3> QED
      BY <2>1, <2>4, <2>8, <3>1 DEF ShapeInv, Role, MiddleAt, DaemonAt
  <2>13. InLoad(c, "daemon")' /\ ~InLoad(c, "middle")' /\ ~InLoad(c, "child")'
    BY <2>2, <2>4, <2>8 DEF InLoad
  <2>14. LoadInv(c, "daemon")'
    <3>1. /\ ends' = ends /\ proc'[c]["daemon"].at = "load" /\ proc'[c]["daemon"].table = t
      BY <2>1, <2>4, <2>8
    <3> QED
      BY <1>1, <2>2, <2>3, <3>1 DEF LoadInv
  <2>15. TruthInv(c)'
    <3>1. TruthInv(c)
      BY DEF SpawnInv, CallInv
    <3> QED
      BY <1>1, <2>1, <2>2, <2>13, <3>1, StillOnItsWay
  <2>16. CallInv(c)'
    BY <2>12, <2>13, <2>14, <2>15 DEF CallInv, Role
  <2> QED
    BY <2>9, <2>10, <2>11, <2>16 DEF StepKeeps
<1> QED
  BY <1>2, <1>3 DEF SecondFork

\* exec leaves a table.
LEMMA ExecTable ==
    ASSUME NEW t \in Table
    PROVE  /\ AfterExec(t) \in Table /\ AfterExec(t) # NoTable
           /\ \A fd \in Fd : /\ t[fd].cloexec = TRUE => AfterExec(t)[fd] = NoEntry
                             /\ t[fd].cloexec = FALSE => AfterExec(t)[fd] = t[fd]
<1>1. ASSUME NEW fd \in Fd
      PROVE  /\ t[fd] \in EntryRec /\ t[fd].cloexec \in BOOLEAN
             /\ AfterExec(t)[fd] = IF t[fd].cloexec THEN NoEntry ELSE t[fd]
  BY DEF Table, EntryRec, AfterExec
<1>2. ASSUME NEW fd \in Fd
      PROVE  /\ AfterExec(t)[fd] \in EntryRec
             /\ t[fd].cloexec = TRUE => AfterExec(t)[fd] = NoEntry
             /\ t[fd].cloexec = FALSE => AfterExec(t)[fd] = t[fd]
  <2>1. CASE t[fd].cloexec = TRUE
    BY <1>1, <2>1, NoEntryType
  <2>2. CASE t[fd].cloexec = FALSE
    BY <1>1, <2>2
  <2> QED
    BY <1>1, <2>1, <2>2
<1>3. AfterExec(t) = [fd \in Fd |-> AfterExec(t)[fd]]
  BY DEF AfterExec
<1>4. AfterExec(t) \in Table
  BY <1>2, <1>3 DEF Table
<1> QED
  BY <1>2, <1>4, NoTableNoProc

\* The table of a process before its map is applied.
Loadable(t) ==
    /\ t \in Table
    /\ \A fd \in Own : t[fd] = InitialTable[fd]
    /\ \A fd \in Fd \ Own : t[fd] = NoEntry \/ t[fd].cloexec = TRUE

\* What the program finds after the map was applied and exec has closed what
\* is marked.
RemapLeaves(r, t, l, m) ==
    /\ r \in Result
    /\ \A fd \in Fd \ Own : r.table[fd] = NoEntry \/ r.table[fd].cloexec = TRUE
    /\ \A fd \in Fd \ Own : r.table[fd].file = t[fd].file
    /\ AllOpen(m, Len(m)) => r.ok = TRUE
    /\ ~AllOpen(m, Len(m)) => r.ok = FALSE
    /\ r.ok = TRUE =>
         /\ \A fd \in Fd, j \in 1 .. Len(m) : LastFor(m, Len(m), fd, j) =>
                 AfterExec(r.table)[fd].file = File(m[j].parent_fd)
         /\ \A fd \in 0 .. 2 : Untouched(m, Len(m), fd) =>
                 AfterExec(r.table)[fd].file = File(fd)
         /\ (l = FALSE /\ Untouched(m, Len(m), 3)) => AfterExec(r.table)[3].file = File(3)
         /\ \A fd \in Fd \ (0 .. 2) : ((l = TRUE \/ fd # 3) /\ Untouched(m, Len(m), fd)) =>
                 AfterExec(r.table)[fd].file = NoFile

\* remap_file_descriptors() followed by exec.
LEMMA RemapWanted ==
    ASSUME NEW t, Loadable(t), NEW l \in BOOLEAN, NEW m \in Seq(MapElem), Ordinary(m)
    PROVE  RemapLeaves(remap_file_descriptors(t, m, l), t, l, m)
<1> USE DEF Loadable
<1> DEFINE r == remap_file_descriptors(t, m, l)
<1>1. RemapDone(r, t, l, m, Len(m))
  BY RemapMeets
<1> HIDE DEF r
<1>2. /\ Marked(t, l) \in Table
      /\ \A fd \in Own : /\ Marked(t, l)[fd].file = File(fd)
                         /\ Marked(t, l)[fd].cloexec <=> fd = 4 \/ (l = TRUE /\ fd = 3)
      /\ \A fd \in Fd : Marked(t, l)[fd].file = t[fd].file
      /\ \A fd \in Fd \ Own : Marked(t, l)[fd] = NoEntry \/ Marked(t, l)[fd].cloexec
  BY MarkedEntries
<1>3. \A fd \in Fd : Marked(t, l)[fd].cloexec \in BOOLEAN
  BY <1>2 DEF Table, EntryRec
<1>4. r \in Result /\ r.table \in Table /\ r.ok \in BOOLEAN
  BY <1>1 DEF RemapDone, Result
<1>5. \A fd \in Fd \ Own : r.table[fd] = Marked(t, l)[fd]
  BY <1>1 DEF RemapDone
<1>6. \A fd \in Fd \ Own : r.table[fd] = NoEntry \/ r.table[fd].cloexec = TRUE
  BY <1>2, <1>3, <1>5
<1>7. \A fd \in Fd \ Own : r.table[fd].file = t[fd].file
  BY <1>2, <1>5
<1>8. ASSUME r.ok = TRUE, NEW fd \in Fd, NEW j \in 1 .. Len(m), LastFor(m, Len(m), fd, j)
      PROVE  AfterExec(r.table)[fd].file = File(m[j].parent_fd)
  <2>1. fd \in Own
    <3>1. m[j].child_fd = fd /\ j \in DOMAIN m
      BY <1>8 DEF LastFor
    <3> QED
      BY <3>1 DEF Ordinary
  <2>2. Decided(r.table, t, l, m, Len(m), fd)
    BY <1>1, <1>8, <2>1 DEF RemapDone
  <2>3. r.table[fd].file = File(m[j].parent_fd) /\ r.table[fd].cloexec = FALSE
    BY <1>8, <2>2 DEF Decided
  <2> QED
    BY <1>4, <2>3, ExecTable
<1>9. ASSUME r.ok = TRUE, NEW fd \in Own, Untouched(m, Len(m), fd)
      PROVE  /\ (fd \in 0 .. 2 \/ (l = FALSE /\ fd = 3)) => AfterExec(r.table)[fd].file = File(fd)
             /\ ~(fd \in 0 .. 2 \/ (l = FALSE /\ fd = 3)) => AfterExec(r.table)[fd].file = NoFile
  <2>1. fd \in Fd
    BY FdNumbers
  <2>2. Decided(r.table, t, l, m, Len(m), fd)
    BY <1>1, <1>9 DEF RemapDone
  <2>3. r.table[fd] = Marked(t, l)[fd]
    BY <1>9, <2>2 DEF Decided
  <2>4. CASE fd \in 0 .. 2 \/ (l = FALSE /\ fd = 3)
    <3>1. ~(fd = 4 \/ (l = TRUE /\ fd = 3))
      BY <2>4
    <3>2. r.table[fd].cloexec = FALSE /\ r.table[fd].file = File(fd)
      BY <1>2, <1>3, <2>1, <2>3, <3>1
    <3> QED
      BY <1>4, <2>1, <2>4, <3>2, ExecTable
  <2>5. CASE ~(fd \in 0 .. 2 \/ (l = FALSE /\ fd = 3))
    <3>1. fd = 4 \/ (l = TRUE /\ fd = 3)
      BY <2>5 DEF Own
    <3>2. r.table[fd].cloexec = TRUE
      BY <1>2, <1>3, <2>1, <2>3, <3>1
    <3>3. AfterExec(r.table)[fd] = NoEntry
      BY <1>4, <2>1, <3>2, ExecTable
    <3> QED
      BY <2>5, <3>3, NoEntryType
  <2> QED
    BY <2>4, <2>5
<1>10. ASSUME NEW fd \in Fd \ Own PROVE AfterExec(r.table)[fd].file = NoFile
  <2>1. AfterExec(r.table)[fd] = NoEntry
    <3>1. CASE r.table[fd] = NoEntry
      BY <1>4, <3>1, ExecTable, NoEntryType
    <3>2. CASE r.table[fd].cloexec = TRUE
      BY <1>4, <3>2, ExecTable
    <3> QED
      BY <1>6, <3>1, <3>2
  <2> QED
    BY <2>1, NoEntryType
<1>11. 0 .. 2 \subseteq Own /\ 3 \in Own
  BY DEF Own
<1>12. /\ AllOpen(m, Len(m)) => r.ok = TRUE
       /\ ~AllOpen(m, Len(m)) => r.ok = FALSE
  BY <1>1 DEF RemapDone
<1> QED
  <2>1. RemapLeaves(r, t, l, m)
    BY <1>4, <1>6, <1>7, <1>8, <1>9, <1>10, <1>11, <1>12 DEF RemapLeaves
  <2> QED
    BY <2>1 DEF r

\* The same in the terms of the property.
LEMMA RemapMeetsWish ==
    ASSUME NEW c \in Caller, opts[c] \in SpawnOpts, opts[c].keep = FALSE,
           Ordinary(opts[c].fd_map), NEW t, Loadable(t),
           NEW r, r = remap_file_descriptors(t, opts[c].fd_map, opts[c].lists), r.ok = TRUE,
           NEW fd \in Fd
    PROVE  AfterExec(r.table)[fd].file = Wanted(c, fd)
<1>1. PICK m \in Seq(MapElem) : m = opts[c].fd_map
  BY DEF SpawnOpts
<1>0. PICK l \in BOOLEAN : l = opts[c].lists
  BY DEF SpawnOpts
<1> DEFINE hits == {i \in DOMAIN m : m[i].child_fd = fd}
<1>2. Len(m) \in Nat /\ DOMAIN m = 1 .. Len(m)
  OBVIOUS
<1>3. /\ \A f \in Fd, j \in 1 .. Len(m) : LastFor(m, Len(m), f, j) =>
                AfterExec(r.table)[f].file = File(m[j].parent_fd)
      /\ \A f \in 0 .. 2 : Untouched(m, Len(m), f) => AfterExec(r.table)[f].file = File(f)
      /\ (l = FALSE /\ Untouched(m, Len(m), 3)) => AfterExec(r.table)[3].file = File(3)
      /\ \A f \in Fd \ (0 .. 2) : ((l = TRUE \/ f # 3) /\ Untouched(m, Len(m), f)) =>
                AfterExec(r.table)[f].file = NoFile
      /\ ~AllOpen(m, Len(m)) => r.ok = FALSE
  <2>1. Ordinary(m) /\ r = remap_file_descriptors(t, m, l)
    BY <1>0, <1>1
  <2>2. RemapLeaves(r, t, l, m)
    BY <2>1, RemapWanted
  <2> QED
    BY <2>2 DEF RemapLeaves
<1>4. AllOpen(m, Len(m))
  BY <1>3
<1>5. Wanted(c, fd) = IF hits # {} THEN InitialTable[m[Max(hits)].parent_fd].file
                      ELSE IF fd \in 0 .. 2 \/ ((opts[c].keep \/ ~l) /\ fd = 3) THEN File(fd)
                      ELSE NoFile
  BY <1>0, <1>1 DEF Wanted
<1>6. CASE hits # {}
  <2>1. hits \in SUBSET (1 .. Len(m))
    BY <1>2
  <2>2. PICK j : j = Max(hits)
    OBVIOUS
  <2>3. j \in hits /\ \A i \in hits : i <= j
    BY <1>2, <1>6, <2>1, <2>2, LargestExists
  <2>4. j \in 1 .. Len(m) /\ m[j].child_fd = fd
    BY <1>2, <2>3
  <2>5. ASSUME NEW i \in 1 .. Len(m), i > j PROVE m[i].child_fd # fd
    <3>1. ~(i <= j)
      BY <2>4, <2>5
    <3> QED
      BY <1>2, <2>3, <3>1
  <2>6. LastFor(m, Len(m), fd, j)
    BY <2>4, <2>5 DEF LastFor
  <2>7. m[j].parent_fd \in Own
    BY <1>4, <2>4 DEF AllOpen
  <2>8. InitialTable[m[j].parent_fd].file = File(m[j].parent_fd)
    BY <2>7, InitialEntries
  <2> QED
    BY <1>3, <1>5, <1>6, <2>2, <2>4, <2>6, <2>8
<1>7. CASE hits = {}
  <2>1. Untouched(m, Len(m), fd)
    BY <1>2, <1>7 DEF Untouched
  <2> HIDE DEF hits
  <2>2. CASE fd \in 0 .. 2
    BY <1>3, <1>5, <1>7, <2>1, <2>2
  <2>3. CASE l = FALSE /\ fd = 3
    <3>1. Wanted(c, fd) = File(3)
      BY <1>5, <1>7, <2>3
    <3> QED
      BY <1>3, <2>1, <2>3, <3>1
  <2>4. CASE fd \notin 0 .. 2 /\ (l = TRUE \/ fd # 3)
    <3>1. Wanted(c, fd) = NoFile
      BY <1>5, <1>7, <2>4
    <3> QED
      BY <1>3, <2>1, <2>4, <3>1
  <2> QED
    BY <2>2, <2>3, <2>4
<1> QED
  BY <1>6, <1>7

\* A caller that keeps its descriptors.
LEMMA KeepMeetsWish ==
    ASSUME NEW c \in Caller, opts[c].keep = TRUE, opts[c].fd_map = <<>>,
           NEW t, Loadable(t), NEW fd \in Fd
    PROVE  AfterExec(t)[fd].file = Wanted(c, fd)
<1> USE DEF Loadable
<1>1. Wanted(c, fd) = IF fd \in 0 .. 2 \/ fd = 3 THEN File(fd) ELSE NoFile
  <2> DEFINE hits == {i \in DOMAIN opts[c].fd_map : opts[c].fd_map[i].child_fd = fd}
  <2>1. hits = {}
    <3>1. DOMAIN opts[c].fd_map = {}
      OBVIOUS
    <3> QED
      BY <3>1
  <2>2. Wanted(c, fd) = IF hits # {} THEN InitialTable[opts[c].fd_map[Max(hits)].parent_fd].file
                        ELSE IF fd \in 0 .. 2 \/ ((opts[c].keep \/ ~opts[c].lists) /\ fd = 3) THEN File(fd)
                        ELSE NoFile
    BY DEF Wanted
  <2> HIDE DEF hits
  <2>3. (fd \in 0 .. 2 \/ ((opts[c].keep \/ ~opts[c].lists) /\ fd = 3)) <=> (fd \in 0 .. 2 \/ fd = 3)
    OBVIOUS
  <2> QED
    BY <2>1, <2>2, <2>3
<1>2. CASE fd \in 0 .. 3
  <2>0. fd \in Own
    BY <1>2 DEF Own
  <2>1. t[fd] = Entry(File(fd), FALSE)
    <3>1. InitialTable[fd] = Entry(File(fd), FALSE)
      BY <1>2, InitialEntries
    <3> QED
      BY <2>0, <3>1
  <2>2. t[fd].file = File(fd) /\ t[fd].cloexec = FALSE
    BY <2>1 DEF Entry
  <2>3. fd \in 0 .. 2 \/ fd = 3
    BY <1>2
  <2> QED
    BY <1>1, <2>2, <2>3, ExecTable
<1>3. CASE fd \notin 0 .. 3
  <2>1. ~(fd \in 0 .. 2 \/ fd = 3)
    BY <1>3
  <2>2. AfterExec(t)[fd] = NoEntry
    <3>1. CASE fd = 4
      <4>1. t[fd] = Entry(File(4), TRUE)
        BY <3>1, FdNumbers, InitialEntries
      <4>2. t[fd].cloexec = TRUE
        BY <4>1 DEF Entry
      <4> QED
        BY <4>2, ExecTable
    <3>2. CASE fd # 4
      <4>1. fd \in Fd \ Own
        BY <1>3, <3>2, FdNumbers DEF Own
      <4>2. t \in Table /\ (t[fd] = NoEntry \/ t[fd].cloexec = TRUE)
        BY <4>1
      <4>3. /\ t[fd].cloexec = TRUE => AfterExec(t)[fd] = NoEntry
            /\ t[fd].cloexec = FALSE => AfterExec(t)[fd] = t[fd]
        BY <4>2, ExecTable
      <4> QED
        BY <4>2, <4>3, NoEntryType
    <3> QED
      BY <3>1, <3>2
  <2> QED
    BY <1>1, <2>1, <2>2, NoEntryType
<1> QED
  BY <1>2, <1>3

\* The descriptors are remapped: the process is ready for exec, or it fails
\* because the map names a number that is not open.
LEMMA RemapStepKeeps ==
    ASSUME SpawnInv, OrdinaryOptions, NEW c \in Caller, NEW q \in Role, Remap(c, q)
    PROVE  StepKeeps(c)
<1>1. proc[c][q].at = "load" /\ InLoad(c, q) /\ Stays /\ UNCHANGED <<report, image>>
  BY DEF Remap, ProcAt, InLoad
<1>2. /\ LoadInv(c, q) /\ image[c] = NoTable /\ report[c] = FALSE /\ OnItsWay(c)
      /\ q = "middle" => proc[c]["daemon"] = NoProc
  BY <1>1, OneOnItsWay
<1>3. PICK t \in Table : t = proc[c][q].table /\ Loadable(t)
  BY <1>1, <1>2 DEF LoadInv, Loadable
<1>4. /\ opts[c] \in SpawnOpts /\ opts[c].keep \in BOOLEAN /\ opts[c].fd_map \in Seq(MapElem)
      /\ opts[c].lists \in BOOLEAN
      /\ Ordinary(opts[c].fd_map)
      /\ opts[c].keep = TRUE => opts[c].fd_map = <<>>
  <2>1. opts \in Options /\ opts[c] \in SpawnOpts
    BY SpawnAssumption DEF SpawnInv, SpawnTypes
  <2> QED
    BY <2>1 DEF OrdinaryOptions, SpawnOpts
<1>5. PICK r : r = IF opts[c].keep THEN Remapped(TRUE, t)
                   ELSE remap_file_descriptors(t, opts[c].fd_map, opts[c].lists)
  OBVIOUS
<1>6. /\ opts[c].keep = TRUE => r = [ok |-> TRUE, table |-> t]
      /\ opts[c].keep = FALSE => r = remap_file_descriptors(t, opts[c].fd_map, opts[c].lists)
  BY <1>5 DEF Remapped
<1>7. /\ r \in Result /\ r.ok \in BOOLEAN /\ r.table \in Table
      /\ \A fd \in Fd \ Own : r.table[fd] = NoEntry \/ r.table[fd].cloexec = TRUE
      /\ \A fd \in Fd \ Own : r.table[fd].file = t[fd].file
      /\ r.ok = TRUE => \A fd \in Fd : AfterExec(r.table)[fd].file = Wanted(c, fd)
      /\ r.ok = FALSE => ~AllOpen(opts[c].fd_map, Len(opts[c].fd_map))
  <2>1. CASE opts[c].keep = TRUE
    <3>0. r = [ok |-> TRUE, table |-> t]
      BY <1>6, <2>1
    <3>1. r.ok = TRUE /\ r.table = t /\ r \in Result
      BY <3>0 DEF Result
    <3>2. \A fd \in Fd : AfterExec(t)[fd].file = Wanted(c, fd)
      BY <1>3, <1>4, <2>1, KeepMeetsWish
    <3> QED
      BY <1>3, <3>1, <3>2 DEF Loadable
  <2>2. CASE opts[c].keep = FALSE
    <3>1. r = remap_file_descriptors(t, opts[c].fd_map, opts[c].lists)
      BY <1>6, <2>2
    <3>2. RemapLeaves(r, t, opts[c].lists, opts[c].fd_map)
      BY <1>3, <1>4, <3>1, RemapWanted
    <3>3. ASSUME r.ok = TRUE, NEW fd \in Fd PROVE AfterExec(r.table)[fd].file = Wanted(c, fd)
      BY <1>3, <1>4, <2>2, <3>1, <3>3, RemapMeetsWish
    <3>4. r \in Result /\ r.ok \in BOOLEAN /\ r.table \in Table
      BY <3>2 DEF RemapLeaves, Result
    <3> QED
      BY <3>2, <3>3, <3>4 DEF RemapLeaves
  <2> QED
    BY <1>4, <2>1, <2>2
<1>8. ~AllOpen(opts[c].fd_map, Len(opts[c].fd_map)) => ~MapIsOpen(opts[c].fd_map)
  <2> SUFFICES ASSUME NEW i \in 1 .. Len(opts[c].fd_map), opts[c].fd_map[i].parent_fd \notin Own
               PROVE  ~MapIsOpen(opts[c].fd_map)
    BY DEF AllOpen
  <2>1. i \in DOMAIN opts[c].fd_map
    BY <1>4
  <2>2. opts[c].fd_map[i].parent_fd \in Nat \ Fd
    BY <1>4, <2>1 DEF Ordinary
  <2>3. opts[c].fd_map[i].parent_fd # -1 /\ ~IsOpen(InitialTable, opts[c].fd_map[i].parent_fd)
    BY <2>2 DEF IsOpen
  <2> QED
    BY <2>1, <2>3 DEF MapIsOpen
<1>9. PICK label \in {"exec", "failed"} : label = IF r.ok THEN "exec" ELSE "failed"
  OBVIOUS
<1>10. (label = "exec" => r.ok = TRUE) /\ (label = "failed" => r.ok = FALSE)
  BY <1>7, <1>9
<1> DEFINE p == [at |-> label, table |-> r.table]
<1>11. /\ proc' = [proc EXCEPT ![c][q] = p]
       /\ fault' = [fault EXCEPT ![c] = fault[c] \/ ~MapIsOpen(opts[c].fd_map)]
  BY <1>3, <1>5, <1>9 DEF Remap, Becomes
<1>12. p \in ProcRec /\ p.at = label /\ p.table = r.table /\ LegalAt(q, p.at)
  <2>1. q # "middle"
    BY <1>1 DEF SpawnInv, CallInv, ShapeInv, MiddleAt
  <2> QED
    BY <1>7, <2>1 DEF ProcRec, ChildAt, MiddleAt, DaemonAt, LegalAt
<1> HIDE DEF p
<1>13. /\ fault' \in [Caller -> BOOLEAN] /\ (fault[c] = TRUE => fault'[c] = TRUE)
       /\ ~MapIsOpen(opts[c].fd_map) => fault'[c] = TRUE
       /\ \A d \in Caller : d # c => fault'[d] = fault[d]
  <2>1. fault \in [Caller -> BOOLEAN]
    BY DEF SpawnInv, SpawnTypes
  <2>2. fault'[c] = (fault[c] \/ ~MapIsOpen(opts[c].fd_map))
    BY <1>11, <2>1
  <2>3. \A d \in Caller : d # c => fault'[d] = fault[d]
    BY <1>11, <2>1
  <2>4. fault' \in [Caller -> BOOLEAN]
    BY <1>11, <2>1
  <2> QED
    BY <2>1, <2>2, <2>3, <2>4
<1>14. /\ SpawnTypes' /\ ParentInv' /\ Elsewhere(c) /\ ShapeInv(c)' /\ proc'[c][q] = p
       /\ \A o \in Role : o # q => (InLoad(c, o)' => LoadInv(c, o)')
       /\ \A fd : Wanted(c, fd)' = Wanted(c, fd)
  <2>1. UNCHANGED <<at, opts, ret, ends, parent, report, image>>
    BY <1>1 DEF Stays
  <2>2. report' \in [Caller -> BOOLEAN] /\ image' \in [Caller -> Table \cup {NoTable}]
    BY <2>1 DEF SpawnInv, SpawnTypes
  <2>3. Moves(c, q, p)
    BY <1>1, <1>2, <1>11, <1>12, <1>13, <2>1, <2>2, NoTableNoProc DEF Moves
  <2> QED
    BY <2>3, ProcMoves DEF Moved
<1>15. InLoad(c, q)'
  BY <1>12, <1>14 DEF InLoad
<1>16. LoadInv(c, q)'
  <2>1. ends' = ends /\ proc'[c][q].at = label /\ proc'[c][q].table = r.table
    BY <1>1, <1>12, <1>14 DEF Stays
  <2>2. /\ ends[c][1] \in Fd \ Own /\ ends[c][2] \in Fd \ Own /\ ends[c][1] # ends[c][2]
        /\ r.table[ends[c][2]].file = Report(c)
    BY <1>2, <1>3, <1>7 DEF LoadInv
  <2>3. label \notin {"forked", "setup", "load"}
    OBVIOUS
  <2>4. label = "failed" => fault'[c] = TRUE
    BY <1>7, <1>8, <1>10, <1>13
  <2>5. label = "exec" => \A fd \in Fd : AfterExec(r.table)[fd].file = Wanted(c, fd)'
    BY <1>7, <1>10, <1>14
  <2> QED
    BY <1>7, <2>1, <2>2, <2>3, <2>4, <2>5 DEF LoadInv
<1>17. TruthInv(c)'
  <2>1. TruthInv(c) /\ UNCHANGED <<at, opts, ret, image, report>>
    BY <1>1 DEF SpawnInv, CallInv, Stays
  <2> QED
    BY <1>2, <1>13, <1>15, <2>1, StillOnItsWay
<1>18. CallInv(c)'
  BY <1>14, <1>16, <1>17 DEF CallInv
<1> QED
  BY <1>14, <1>18 DEF StepKeeps

\* exec: the call is answered by an image that has what was asked for.
LEMMA ExecStep ==
    ASSUME SpawnInv, NEW c \in Caller, NEW q \in Role, Exec(c, q)
    PROVE  StepKeeps(c)
<1>1. proc[c][q].at = "exec" /\ InLoad(c, q) /\ Stays /\ UNCHANGED report
  BY DEF Exec, ProcAt, InLoad
<1>2. CASE Becomes(c, q, "failed", proc[c][q].table) /\ Fails(c) /\ UNCHANGED image
  <2>1. proc[c][q].at # "failed" /\ UNCHANGED <<report, image>>
    BY <1>1, <1>2
  <2> QED
    BY <1>1, <1>2, <2>1, FailureStep
<1>3. CASE /\ Becomes(c, q, "running", AfterExec(proc[c][q].table))
           /\ image' = [image EXCEPT ![c] = AfterExec(proc[c][q].table)] /\ UNCHANGED fault
  <2>1. UNCHANGED <<at, opts, ret, ends, parent, fault, report>>
    BY <1>1, <1>3 DEF Stays
  <2>2. /\ LoadInv(c, q) /\ image[c] = NoTable /\ report[c] = FALSE /\ OnItsWay(c)
        /\ q = "middle" => proc[c]["daemon"] = NoProc
        /\ \A r \in Role : r # q => ~InLoad(c, r)
    BY <1>1, OneOnItsWay
  <2>3. PICK t \in Table : t = AfterExec(proc[c][q].table)
    BY <2>2, ExecTable DEF LoadInv
  <2>4. t # NoTable /\ \A fd \in Fd : t[fd].file = Wanted(c, fd)
    BY <1>1, <2>2, <2>3, NoTableNoProc DEF LoadInv
  <2> DEFINE p == [at |-> "running", table |-> t]
  <2>5. proc' = [proc EXCEPT ![c][q] = p] /\ image' = [image EXCEPT ![c] = t]
    BY <1>3, <2>3 DEF Becomes
  <2>6. p \in ProcRec /\ p.at = "running" /\ LegalAt(q, p.at)
    <3>1. q # "middle"
      BY <1>1 DEF SpawnInv, CallInv, ShapeInv, MiddleAt
    <3> QED
      BY <3>1 DEF ProcRec, ChildAt, MiddleAt, DaemonAt, LegalAt
  <2> HIDE DEF p
  <2>7. /\ image' \in [Caller -> Table \cup {NoTable}] /\ image'[c] = t
        /\ \A d \in Caller : d # c => image'[d] = image[d]
    BY <2>5 DEF SpawnInv, SpawnTypes
  <2>8. fault' \in [Caller -> BOOLEAN] /\ report' \in [Caller -> BOOLEAN]
    BY <2>1 DEF SpawnInv, SpawnTypes
  <2>9. Moves(c, q, p)
    BY <1>1, <2>1, <2>2, <2>5, <2>6, <2>7, <2>8, NoTableNoProc DEF Moves
  <2>10. Moved(c, q, p)
    BY <2>9, ProcMoves
  <2>11. \A r \in Role : ~InLoad(c, r)'
    BY <2>2, <2>6, <2>10 DEF Moved, InLoad
  <2>12. TruthInv(c)'
    <3>1. /\ at'[c] = at[c] /\ ret'[c] = ret[c] /\ report'[c] = FALSE /\ fault' = fault
          /\ opts' = opts
      BY <2>1, <2>2
    <3>2. \A fd \in Fd : image'[c][fd].file = Wanted(c, fd)'
      BY <2>4, <2>7, <2>10 DEF Moved
    <3> QED
      BY <2>2, <2>4, <2>7, <2>11, <3>1, <3>2 DEF TruthInv, OnItsWay
  <2>13. CallInv(c)'
    BY <2>10, <2>11, <2>12 DEF CallInv, Moved
  <2> QED
    BY <2>10, <2>13 DEF StepKeeps, Moved
<1> QED
  BY <1>2, <1>3 DEF Exec

\* The report goes into the pipe of the call, and into no other.
LEMMA ReportStep ==
    ASSUME SpawnInv, NEW c \in Caller, NEW q \in Role, ReportToParent(c, q)
    PROVE  StepKeeps(c)
<1>1. /\ proc[c][q].at = "failed" /\ InLoad(c, q)
      /\ UNCHANGED <<at, opts, ret, ends, parent, fault, image>>
      /\ report' = [d \in Caller |-> report[d] \/ proc[c][q].table[ends[c][2]].file = Report(d)]
      /\ Becomes(c, q, "exit", proc[c][q].table)
  BY DEF ReportToParent, ProcAt, InLoad, Stays
<1>2. /\ LoadInv(c, q) /\ image[c] = NoTable /\ report[c] = FALSE /\ OnItsWay(c)
      /\ q = "middle" => proc[c]["daemon"] = NoProc
      /\ \A r \in Role : r # q => ~InLoad(c, r)
  BY <1>1, OneOnItsWay
<1>3. PICK t \in Table : t = proc[c][q].table /\ t[ends[c][2]].file = Report(c) /\ fault[c] = TRUE
  BY <1>1, <1>2 DEF LoadInv
<1>4. /\ report' \in [Caller -> BOOLEAN] /\ report'[c] = TRUE
      /\ \A d \in Caller : d # c => report'[d] = report[d]
  <2>1. report' \in [Caller -> BOOLEAN]
    BY <1>1
  <2>2. \A d \in Caller : report'[d] = (report[d] \/ Report(c) = Report(d)) /\ report[d] \in BOOLEAN
    BY <1>1, <1>3 DEF SpawnInv, SpawnTypes
  <2>3. \A d \in Caller : d # c => Report(c) # Report(d)
    BY FilesDiffer
  <2> QED
    BY <2>1, <2>2, <2>3
<1> DEFINE p == [at |-> "exit", table |-> t]
<1>5. proc' = [proc EXCEPT ![c][q] = p]
  BY <1>1, <1>3 DEF Becomes
<1>6. p \in ProcRec /\ p.at = "exit" /\ LegalAt(q, p.at)
  BY DEF ProcRec, ChildAt, MiddleAt, DaemonAt, LegalAt
<1> HIDE DEF p
<1>7. fault' \in [Caller -> BOOLEAN] /\ image' \in [Caller -> Table \cup {NoTable}]
  BY <1>1 DEF SpawnInv, SpawnTypes
<1>8. Moves(c, q, p)
  BY <1>1, <1>2, <1>4, <1>5, <1>6, <1>7, NoTableNoProc DEF Moves
<1>9. Moved(c, q, p)
  BY <1>8, ProcMoves
<1>10. \A r \in Role : ~InLoad(c, r)'
  BY <1>2, <1>6, <1>9 DEF Moved, InLoad
<1>11. TruthInv(c)'
  <2>1. /\ at'[c] = at[c] /\ ret'[c] = ret[c] /\ image'[c] = NoTable /\ fault'[c] = TRUE
        /\ opts' = opts
    BY <1>1, <1>2, <1>3
  <2> QED
    BY <1>2, <1>4, <1>10, <2>1 DEF TruthInv, OnItsWay
<1>12. CallInv(c)'
  BY <1>9, <1>10, <1>11 DEF CallInv, Moved
<1> QED
  BY <1>9, <1>12 DEF StepKeeps, Moved

\* A process is over.
LEMMA EndStep ==
    ASSUME SpawnInv, NEW c \in Caller, NEW q \in Role, Ends(c, q)
    PROVE  StepKeeps(c)
<1>1. PICK p : p = IF q = "daemon" THEN NoProc ELSE [at |-> "zombie", table |-> NoTable]
  OBVIOUS
<1>2. /\ proc[c][q].at \in {"exit", "running"} /\ ~InLoad(c, q)
      /\ proc' = [proc EXCEPT ![c][q] = p]
      /\ UNCHANGED <<at, opts, ret, ends, parent, fault, report, image>>
  BY <1>1 DEF Ends, InLoad, Stays
<1>3. /\ p \in ProcRec /\ p.at \in {"none", "zombie"} /\ (p.at = "none" => p = NoProc)
      /\ LegalAt(q, p.at)
  <2>1. CASE q = "daemon"
    BY <1>1, <2>1, NoTableNoProc DEF DaemonAt, LegalAt
  <2>2. CASE q # "daemon"
    BY <1>1, <2>2 DEF ProcRec, ChildAt, MiddleAt, LegalAt
  <2> QED
    BY <2>1, <2>2
<1>4. /\ fault' \in [Caller -> BOOLEAN] /\ report' \in [Caller -> BOOLEAN]
      /\ image' \in [Caller -> Table \cup {NoTable}]
  BY <1>2 DEF SpawnInv, SpawnTypes
<1>5. Moves(c, q, p)
  BY <1>2, <1>3, <1>4 DEF Moves
<1>6. Moved(c, q, p)
  BY <1>5, ProcMoves
<1>7. ~InLoad(c, q)'
  BY <1>3, <1>6 DEF Moved, InLoad
<1>8. \A r \in Role : InLoad(c, r)' <=> InLoad(c, r)
  BY <1>2, <1>6, <1>7 DEF Moved
<1>9. TruthInv(c)'
  <2>1. \A fd : Wanted(c, fd)' = Wanted(c, fd)
    BY <1>6 DEF Moved
  <2>2. TruthInv(c)
    BY DEF SpawnInv, CallInv
  <2> QED
    BY <1>2, <1>8, <2>1, <2>2 DEF TruthInv
<1>10. CallInv(c)'
  BY <1>6, <1>7, <1>9 DEF CallInv, Moved
<1> QED
  BY <1>6, <1>10 DEF StepKeeps, Moved

-----------------------------------------------------------------------------
(***************************************************************************)
(* The theorems                                                            *)
(***************************************************************************)
\* The invariant holds before the first call.
LEMMA SpawnInitially ==
    ASSUME Init
    PROVE  SpawnInv
<1>1. SpawnTypes
  <2>1. <<0, 0>> \in Fd \X Fd
    BY FdNumbers
  <2> QED
    BY <2>1, InitialEntries, NoTableNoProc DEF Init, SpawnTypes, CallerAt
<1>2. ParentInv
  <2>1. \A c \in Caller : ~HoldsWatch(c) /\ ~HoldsReport(c)
    BY DEF Init, HoldsWatch, HoldsReport
  <2>2. parent = InitialTable
    BY DEF Init
  <2> QED
    BY <2>1, <2>2, InitialEntries DEF ParentInv
<1>3. ASSUME NEW c \in Caller PROVE CallInv(c)
  <2>1. /\ at[c] = "begin" /\ ret[c] = "none" /\ report[c] = FALSE /\ image[c] = NoTable
        /\ \A r \in Role : proc[c][r] = NoProc
    BY DEF Init
  <2>2. \A r \in Role : ~InLoad(c, r)
    BY <2>1, NoTableNoProc
  <2>3. ShapeInv(c)
    BY <2>1, NoTableNoProc DEF ShapeInv, Role, ChildAt, MiddleAt, DaemonAt
  <2>4. TruthInv(c)
    BY <2>1, <2>2 DEF TruthInv
  <2> QED
    BY <2>2, <2>3, <2>4 DEF CallInv
<1> QED
  BY <1>1, <1>2, <1>3 DEF SpawnInv

\* Every step preserves the invariant.
LEMMA SpawnStep ==
    ASSUME SpawnInv, OrdinaryOptions, [Next]_vars
    PROVE  SpawnInv'
<1>1. ASSUME NEW c \in Caller, StepKeeps(c) PROVE SpawnInv'
  <2>1. \A d \in Caller : d # c => CallInv(d)'
    BY <1>1, CallUntouched DEF StepKeeps, SpawnInv
  <2> QED
    BY <1>1, <2>1 DEF StepKeeps, SpawnInv
<1>2. CASE UNCHANGED vars
  <2>1. \A c, r : (InLoad(c, r)' <=> InLoad(c, r)) /\ (LoadInv(c, r)' <=> LoadInv(c, r))
    BY <1>2 DEF vars, InLoad, LoadInv, Wanted
  <2>2. ASSUME NEW c \in Caller PROVE ShapeInv(c)' /\ TruthInv(c)'
    <3>1. /\ UNCHANGED <<at, opts, ret, fault, report, proc, image>>
          /\ \A fd : Wanted(c, fd)' = Wanted(c, fd)
      BY <1>2 DEF vars, Wanted
    <3>2. ShapeInv(c)'
      BY <3>1 DEF SpawnInv, CallInv, ShapeInv
    <3>3. TruthInv(c)'
      BY <2>1, <3>1 DEF SpawnInv, CallInv, TruthInv
    <3> QED
      BY <3>2, <3>3
  <2>3. \A c \in Caller : CallInv(c)'
    BY <2>1, <2>2 DEF SpawnInv, CallInv
  <2>4. ParentInv'
    BY <1>2 DEF vars, SpawnInv, ParentInv, HoldsWatch, HoldsReport
  <2>5. SpawnTypes'
    BY <1>2 DEF vars, SpawnInv, SpawnTypes
  <2> QED
    BY <2>3, <2>4, <2>5 DEF SpawnInv
<1>3. ASSUME NEW c \in Caller, CallerStep(c) PROVE SpawnInv'
  BY <1>1, <1>3, RefuseStep, PipeStep, ForkStep, CloseReportStep, ReadStep, CloseWatchStep,
     ReapStep DEF CallerStep
<1>4. ASSUME NEW c \in Caller, NEW r \in Role, ProcStep(c, r) PROVE SpawnInv'
  BY <1>1, <1>4, ChildCloseStep, SecondForkStep, RemapStepKeeps, ExecStep, ReportStep,
     EndStep DEF ProcStep
<1> QED
  BY <1>2, <1>3, <1>4 DEF Next, Finished

\* The inductive invariant: who holds which end of which pipe, and how far the
\* answer of every call of mm_spawn() has come.
THEOREM SpawnInvariant ==
    ASSUME OrdinaryOptions
    PROVE  Spec => []SpawnInv
<1>1. Init => SpawnInv
  BY SpawnInitially
<1>2. SpawnInv /\ [Next]_vars => SpawnInv'
  BY SpawnStep
<1> QED
  BY <1>1, <1>2, PTL DEF Spec

\* mm_spawn() returns 0 exactly when the program is executed and -1 only for a
\* reason, whatever the other threads fork meanwhile and in whatever order the
\* processes run: a call is answered once, by an image or by a report, and as
\* long as it has a process on its way that process holds the pipe that the
\* caller reads. (A call whose read fails answers -1 without knowing.)
THEOREM SpawnTruth ==
    ASSUME OrdinaryOptions
    PROVE  Spec => []SpawnTellsTruth
<1>1. SpawnInv => SpawnTellsTruth
  BY DEF SpawnInv, CallInv, TruthInv, SpawnTellsTruth
<1> QED
  BY <1>1, SpawnInvariant, PTL

\* The program finds the descriptors of the map of its call, the standard ones
\* and no other: no end of any pipe survives exec (remap_file_descriptors(),
\* set_cloexec_all_fds()), for maps of every length. Where the open descriptors
\* cannot be listed, the inheritable file of the caller survives too. Ordinary
\* maps only: in a map that swaps two numbers the second element gets the file
\* that the first has put there, so the statement is false for it.
THEOREM ChildDescriptors ==
    ASSUME OrdinaryOptions
    PROVE  Spec => []ChildFds
<1>1. SpawnInv => ChildFds
  BY DEF SpawnInv, CallInv, TruthInv, ChildFds
<1> QED
  BY <1>1, SpawnInvariant, PTL

\* When all calls have returned the calling process has the descriptors it
\* started with, and has waited for the processes it will not hear of again:
\* every path of spawn_child(), spawn_daemon() and of their failures closes what
\* it opened and reaps what it forked.
THEOREM NothingIsLeft ==
    ASSUME OrdinaryOptions
    PROVE  Spec => []NothingLeft
<1>1. ASSUME SpawnInv PROVE NothingLeft
  <2>1. SpawnTypeOK
    BY <1>1 DEF SpawnInv, SpawnTypes, SpawnTypeOK, Table, EntryRec
  <2>2. ASSUME \A c \in Caller : at[c] = "returned"
        PROVE  /\ parent = InitialTable
               /\ \A c \in Caller : /\ proc[c]["middle"] = NoProc
                                    /\ ret[c] = "-1" => proc[c]["child"] = NoProc
    <3>1. \A c \in Caller : ~HoldsWatch(c) /\ ~HoldsReport(c)
      BY <2>2 DEF HoldsWatch, HoldsReport
    <3>2. \A fd \in Fd : parent[fd] = InitialTable[fd]
      BY <1>1, <3>1, InitialEntries DEF SpawnInv, ParentInv
    <3>3. parent = InitialTable
      BY <1>1, <3>2, InitialEntries DEF SpawnInv, SpawnTypes, Table
    <3> QED
      BY <1>1, <2>2, <3>3 DEF SpawnInv, CallInv, ShapeInv
  <2> QED
    BY <2>1, <2>2 DEF NothingLeft
<1>2. SpawnInv => NothingLeft
  BY <1>1
<1> QED
  BY <1>2, SpawnInvariant, PTL
-----------------------------------------------------------------------------
(***************************************************************************)
(* Windows: the inductive invariant                                        *)
(***************************************************************************)
WinSpec == WinInit /\ [][WinNext]_winVars

\* Where a call has the handle of its process, where that is in the list, and
\* where it may have handles that are duplicated for the child.
HasProcess == {"created", "register", "spawned", "exec", "wait", "drop", "close", "execwait"}
InList == {"spawned", "exec", "wait", "drop"}
Inheriting == {"create", "created", "abort"}
HasRead == {"drop", "close"}
WinLabel == HasProcess \cup Inheriting \cup {"idle", "config", "done", "gone"}

MapRec == [child_fd : Int, parent_fd : Int]
FileObjects == {FileObj(n) : n \in 0 .. 3}
Infos == {KindOf(n) : n \in 0 .. 3} \cup {UnknownInfo}
Objects == FileObjects \cup {ProcObj(i) : i \in Nat} \cup {NoObject}
SlotRec == [obj : Objects, inherit : BOOLEAN]
ChildRec == [pid : Nat, hnd : Handle]
IsProc(p) ==
    /\ p = [pid |-> p.pid, state |-> p.state, fds |-> p.fds, infos |-> p.infos,
            held |-> p.held, asked |-> p.asked]
    /\ p.pid \in Nat /\ p.state \in ExitCode \cup {Alive, Ending}

WinTypeOK ==
    /\ winAt \in [WinThread -> WinLabel]
    /\ winCall = [t \in WinThread |-> winCall[t]]
    /\ winCfg = [t \in WinThread |-> winCfg[t]]
    /\ winPid \in [WinThread -> Nat]
    /\ winHnd \in [WinThread -> Handle \cup {0}]
    /\ winMine \in [WinThread -> Nat]
    /\ winCode = [t \in WinThread |-> winCode[t]]
    /\ hnds \in [Handle -> SlotRec]
    /\ \E S : procs \in Seq(S)
    /\ \A i \in 1 .. Len(procs) : IsProc(procs[i])
    /\ children \in [entries : Seq(ChildRec), num_max : Nat]
    /\ toExit \in Handle \cup {0}
    /\ self \in ExitCode \cup {"running"}

\* What a thread has called, and what its call has read so far.
Called(t) ==
    /\ winAt[t] # "idle" => winCall[t] \in WinCalls /\ (winCall[t].exec => t = ExecThread)
    /\ winAt[t] \in {"exec", "execwait", "gone"} => t = ExecThread
    /\ winAt[t] \notin HasRead \cup {"done"} => winCode[t] = "none"
    /\ winAt[t] = "gone" => self # "running"

Mine(t) == winMine[t] \in 1 .. Len(procs)
Ended(t) == Mine(t) /\ procs[winMine[t]].state \in ExitCode
Doomed(t) == Mine(t) /\ (RemoteThreadFails \/ procs[winMine[t]].state # Alive)

\* The codes that are read, and with which the process ends, are those of the
\* process that was created for the thread. A program that outlives the process
\* that stands for it has been told to end.
Told(t) ==
    /\ winAt[t] = "done" /\ winCode[t] # "none" =>
        Ended(t) /\ winCode[t] = translate_exitcode_in_status(procs[winMine[t]].state)
    /\ winAt[t] \in HasRead => Ended(t) /\ winCode[t] = procs[winMine[t]].state
    /\ winAt[t] = "execwait" /\ self # "running" => Doomed(t)
    /\ winAt[t] = "gone" /\ self # "running" => Ended(t) /\ self = procs[winMine[t]].state

\* The handles a thread has to close, and those that are open.
Owns(t, h) ==
    h \in winCfg[t].inherited \/ (winAt[t] \in HasProcess /\ h = winHnd[t])
TableRight ==
    \A h \in Handle :
        hnds[h] # FreeSlot <=> h \in FdHandles \/ \E t \in WinThread : Owns(t, h)
FdFiles == \A fd \in OpenFd : hnds[fd + 1] = Slot(FileObj(fd), FALSE)

\* What the handles of a thread refer to.
Holds(t) ==
    /\ winAt[t] \in HasProcess =>
        Mine(t) /\ winHnd[t] \in Handle /\ hnds[winHnd[t]] = Slot(ProcObj(winMine[t]), FALSE)
    /\ winCfg[t].inherited \subseteq Handle
    /\ \A h \in winCfg[t].inherited : hnds[h].inherit /\ hnds[h].obj \in FileObjects
    /\ winAt[t] \notin Inheriting => winCfg[t].inherited = {}
    /\ winAt[t] = "execwait" => toExit = winHnd[t]
    /\ winAt[t] \in InList => winPid[t] = procs[winMine[t]].pid

\* No two threads have a process or a handle in common.
Apart ==
    \A t, u \in WinThread : t # u =>
        /\ winAt[t] \in HasProcess /\ winAt[u] \in HasProcess => winMine[t] # winMine[u]
        /\ winCfg[t].inherited \cap winCfg[u].inherited = {}

\* Processes that run, or that a handle refers to, have different identifiers.
InUse(i) == procs[i].state \notin ExitCode \/ \E h \in Handle : hnds[h].obj = ProcObj(i)
PidsDiffer ==
    \A i, j \in 1 .. Len(procs) :
        i # j /\ InUse(i) /\ InUse(j) => procs[i].pid # procs[j].pid

\* The list has one entry for each thread that has spawned and not yet waited.
EntryOf(t) == [pid |-> procs[winMine[t]].pid, hnd |-> winHnd[t]]
ListRight ==
    /\ \A k \in 1 .. Len(children.entries) :
        \E t \in WinThread : winAt[t] \in InList /\ children.entries[k] = EntryOf(t)
    /\ \A t \in WinThread : winAt[t] \in InList =>
        \E k \in 1 .. Len(children.entries) : children.entries[k] = EntryOf(t)
    /\ \A k, l \in 1 .. Len(children.entries) :
        children.entries[k].pid = children.entries[l].pid => k = l

Held ==
    /\ TableRight /\ FdFiles
    /\ \A t \in WinThread : Holds(t)
    /\ Apart /\ PidsDiffer /\ ListRight

WinInv ==
    /\ WinTypeOK
    /\ \A t \in WinThread : Called(t) /\ Told(t)
    /\ self = "running" => Held

-----------------------------------------------------------------------------

-----------------------------------------------------------------------------
(***************************************************************************)
(* Induction over the naturals, minima and maxima                          *)
(***************************************************************************)

\* A nonempty set of natural numbers has a least member.
LEMMA MinIs ==
    ASSUME NEW S, S \subseteq Nat, S # {}
    PROVE  Min(S) \in S /\ \A x \in S : Min(S) <= x
<1> DEFINE R == {p \in Nat \X Nat : p[1] < p[2]}
<1>1. IsWellFoundedOn(R, Nat)
  BY NatLessThanWellFounded DEF OpToRel
<1> HIDE DEF R
<1>2. PICK x \in S : \A y \in S : ~(<<y, x>> \in R)
  BY <1>1, WFMin
<1>3. \A y \in S : x <= y
  <2> SUFFICES ASSUME NEW y \in S, ~(x <= y) PROVE FALSE
    OBVIOUS
  <2>1. <<y, x>> \in R
    BY DEF R
  <2> QED
    BY <1>2, <2>1
<1>4. Min(S) = CHOOSE y \in S : \A z \in S : y <= z
  BY DEF Min
<1> QED
  BY <1>2, <1>3, <1>4

\* get_highest_child_fd() is -1 or a descriptor of the map, and none is higher.
LEMMA HighestIs ==
    ASSUME NEW m \in Seq(MapRec)
    PROVE  /\ get_highest_child_fd(m) \in Int /\ get_highest_child_fd(m) >= -1
           /\ \A i \in 1 .. Len(m) : m[i].child_fd <= get_highest_child_fd(m)
<1> DEFINE Upto(k) == {-1} \cup {m[i].child_fd : i \in 1 .. k}
           Highest(x, k) == x \in Upto(k) /\ \A y \in Upto(k) : x >= y
           T == {k \in Nat : k <= Len(m) => \E x \in Int : Highest(x, k)}
<1>0. Len(m) \in Nat /\ \A i \in 1 .. Len(m) : m[i].child_fd \in Int
  <2>1. Len(m) \in Nat /\ \A i \in 1 .. Len(m) : m[i] \in MapRec
    OBVIOUS
  <2> QED
    BY <2>1 DEF MapRec
<1>1. 0 \in T
  <2>1. Highest(-1, 0)
    OBVIOUS
  <2> QED
    BY <2>1
<1>2. ASSUME NEW k \in Nat, k \in T PROVE k + 1 \in T
  <2> SUFFICES ASSUME k + 1 <= Len(m) PROVE \E x \in Int : Highest(x, k + 1)
    OBVIOUS
  <2>1. k <= Len(m) /\ k + 1 \in 1 .. Len(m)
    BY <1>0
  <2>2. PICK x \in Int : Highest(x, k)
    BY <1>2, <2>1
  <2>3. Upto(k + 1) = Upto(k) \cup {m[k + 1].child_fd}
    BY <1>0, <2>1
  <2>4. \A y \in Upto(k) : y \in Int
    BY <1>0, <2>1
  <2> DEFINE c == m[k + 1].child_fd
  <2>5. c \in Int
    BY <1>0, <2>1
  <2> HIDE DEF Upto, c
  <2>6. CASE x >= c
    <3>1. Highest(x, k + 1)
      BY <2>2, <2>3, <2>6 DEF c
    <3> QED
      BY <3>1
  <2>7. CASE ~(x >= c)
    <3>1. \A y \in Upto(k + 1) : c >= y
      <4> SUFFICES ASSUME NEW y \in Upto(k + 1) PROVE c >= y
        OBVIOUS
      <4>1. CASE y = c
        BY <2>5, <4>1
      <4>2. CASE y # c
        <5>1. y \in Upto(k)
          BY <2>3, <4>2 DEF c
        <5>2. x >= y /\ y \in Int
          BY <2>2, <2>4, <5>1
        <5> QED
          BY <2>5, <2>7, <5>2
      <4> QED
        BY <4>1, <4>2
    <3>2. c \in Upto(k + 1)
      BY <2>3 DEF c
    <3> QED
      BY <2>5, <3>1, <3>2
  <2> QED
    BY <2>6, <2>7
<1> HIDE DEF T
<1>3. Len(m) \in T
  BY <1>0, <1>1, <1>2, SetInduction
<1>4. PICK x \in Int : Highest(x, Len(m))
  BY <1>0, <1>3 DEF T
<1>5. get_highest_child_fd(m) = CHOOSE y \in Upto(Len(m)) : \A z \in Upto(Len(m)) : y >= z
  BY DEF get_highest_child_fd, Max
<1> DEFINE U == Upto(Len(m))
           g == get_highest_child_fd(m)
<1>6. -1 \in U /\ \A i \in 1 .. Len(m) : m[i].child_fd \in U
  OBVIOUS
<1>7. \A y \in U : y \in Int
  BY <1>0
<1> HIDE DEF U
<1>8. x \in U /\ \A y \in U : x >= y
  BY <1>4 DEF U
<1>9. g = CHOOSE y \in U : \A z \in U : y >= z
  BY <1>5 DEF U
<1>10. g \in U /\ \A z \in U : g >= z
  BY <1>8, <1>9
<1> HIDE DEF g
<1>11. g \in Int /\ g >= -1 /\ \A i \in 1 .. Len(m) : m[i].child_fd <= g
  BY <1>0, <1>6, <1>7, <1>10
<1> QED
  BY <1>11 DEF g

\* The rounded number of descriptors is at least the number of descriptors.
LEMMA RoundedUp ==
    ASSUME NEW n \in Nat
    PROVE  num_crt_fd(n) \in Nat /\ num_crt_fd(n) >= n
<1> DEFINE q == (4 + n + 8 - 1) \div 8
<1>1. q \in Nat /\ 8 * q <= n + 11 /\ n + 11 < 8 * q + 8
  OBVIOUS
<1>2. num_crt_fd(n) = q * 8 - 4
  BY DEF num_crt_fd, round_up
<1> HIDE DEF q
<1> QED
  BY <1>1, <1>2

\* The higher of two numbers.
LEMMA MaxOfTwo ==
    ASSUME NEW a \in Int, NEW b \in Int
    PROVE  Max({a, b}) \in Int /\ Max({a, b}) >= a /\ Max({a, b}) >= b
<1>1. Max({a, b}) = CHOOSE x \in {a, b} : \A y \in {a, b} : x >= y
  BY DEF Max
<1>2. \E x \in {a, b} : \A y \in {a, b} : x >= y
  <2>1. CASE a >= b
    BY <2>1
  <2>2. CASE ~(a >= b)
    BY <2>2
  <2> QED
    BY <2>1, <2>2
<1> QED
  BY <1>1, <1>2

-----------------------------------------------------------------------------
(***************************************************************************)
(* struct startup_config                                                   *)
(***************************************************************************)
Fds(n) == 0 .. num_crt_fd(n) - 1
Flags == {"FOPEN"} \cup Infos
Config(n) ==
    [failed : BOOLEAN, num_fd : {n}, hnd : [Fds(n) -> Handle \cup {0}],
     flags : [Fds(n) -> SUBSET Flags], infos : [Fds(n) -> Infos],
     inherited : SUBSET Handle]

\* What an element of the map makes of the row of its descriptor.
RowIs(c, fd, e) ==
    IF e.parent_fd = -1 THEN c.hnd[fd] = 0 /\ c.flags[fd] = {}
    ELSE /\ e.parent_fd \in OpenFd /\ c.hnd[fd] = e.parent_fd + 1
         /\ c.flags[fd] = convert_fdinfo_to_crtflags(get_fd_info(e.parent_fd))
         /\ c.infos[fd] = get_fd_info(e.parent_fd)
SameRow(c, b, fd) ==
    c.hnd[fd] = b.hnd[fd] /\ c.flags[fd] = b.flags[fd] /\ c.infos[fd] = b.infos[fd]

\* The table has room for the handles of the descriptors 0 to 3.
LEMMA HandlesAre ==
    /\ Handle \subseteq Nat /\ 0 \notin Handle /\ 1 .. 4 \subseteq Handle
    /\ OpenFd \subseteq 0 .. 3 /\ (OpenFd = (0 .. 3) \ KnownFds \/ OpenFd = 0 .. 3)
    /\ FdHandles = {fd + 1 : fd \in OpenFd}
    /\ Cardinality(WinThread) \in Nat
<1>1. Cardinality(WinThread) \in Nat
  BY ProcessAssumption, FS_CardinalityType
<1>2. Handle \subseteq Nat /\ 0 \notin Handle /\ 1 .. 4 \subseteq Handle
  BY <1>1 DEF Handle
<1>3. OpenFd \subseteq 0 .. 3 /\ (OpenFd = (0 .. 3) \ KnownFds \/ OpenFd = 0 .. 3)
  BY DEF OpenFd
<1>4. FdHandles = {fd + 1 : fd \in OpenFd}
  BY DEF FdHandles, _get_osfhandle
<1> QED
  BY <1>1, <1>2, <1>3, <1>4

\* One element of startup_config_setup_mappings().
LEMMA MapOneIs ==
    ASSUME NEW n \in Nat, NEW cfg \in Config(n), NEW e \in MapRec
    PROVE  /\ MapOne(cfg, e) \in Config(n)
           /\ MapOne(cfg, e).inherited = cfg.inherited
           /\ ~MapOne(cfg, e).failed =>
                /\ ~cfg.failed
                /\ \A fd \in Fds(n) : IF fd = e.child_fd THEN RowIs(MapOne(cfg, e), fd, e)
                                      ELSE SameRow(MapOne(cfg, e), cfg, fd)
<1> DEFINE c == MapOne(cfg, e)
           p == e.parent_fd
           x == e.child_fd
<1>0. p \in Int /\ x \in Int
  BY DEF MapRec
<1>1. CASE cfg.failed \/ MapFails(e)
  <2>1. c = [cfg EXCEPT !.failed = TRUE]
    BY <1>1 DEF MapOne
  <2> QED
    BY <2>1 DEF Config
<1>2. CASE ~(cfg.failed \/ MapFails(e)) /\ p = -1
  <2>1. c = [cfg EXCEPT !.hnd[x] = 0, !.flags[x] = {}]
    BY <1>2 DEF MapOne
  <2>2. /\ c.hnd = [cfg.hnd EXCEPT ![x] = 0] /\ c.flags = [cfg.flags EXCEPT ![x] = {}]
        /\ c.infos = cfg.infos /\ c.failed = cfg.failed /\ c.inherited = cfg.inherited
        /\ c.num_fd = cfg.num_fd
    BY <2>1 DEF Config
  <2>3. c \in Config(n)
    <3>1. [cfg.hnd EXCEPT ![x] = 0] \in [Fds(n) -> Handle \cup {0}]
      BY DEF Config
    <3>2. [cfg.flags EXCEPT ![x] = {}] \in [Fds(n) -> SUBSET Flags]
      BY DEF Config
    <3> QED
      BY <2>1, <3>1, <3>2 DEF Config
  <2>4. \A fd \in Fds(n) : IF fd = x THEN RowIs(c, fd, e) ELSE SameRow(c, cfg, fd)
    BY <1>2, <2>2 DEF RowIs, SameRow, Config
  <2> QED
    BY <1>2, <2>2, <2>3, <2>4
<1>3. CASE ~(cfg.failed \/ MapFails(e)) /\ p # -1
  <2> DEFINE info == get_fd_info(p)
             crt == convert_fdinfo_to_crtflags(info)
  <2>1. p \in OpenFd /\ _get_osfhandle(p) = p + 1
    BY <1>3 DEF MapFails, _get_osfhandle
  <2>2. p + 1 \in Handle /\ info \in Infos /\ crt \in SUBSET Flags
    BY <2>1, HandlesAre DEF Infos, Flags, convert_fdinfo_to_crtflags, get_fd_info
  <2>3. c = [cfg EXCEPT !.hnd[x] = p + 1, !.flags[x] = crt, !.infos[x] = info]
    BY <1>3, <2>1 DEF MapOne
  <2> HIDE DEF info, crt, c
  <2>4. /\ c.hnd = [cfg.hnd EXCEPT ![x] = p + 1] /\ c.flags = [cfg.flags EXCEPT ![x] = crt]
        /\ c.infos = [cfg.infos EXCEPT ![x] = info]
        /\ c.failed = cfg.failed /\ c.inherited = cfg.inherited
        /\ c.num_fd = cfg.num_fd
    BY <2>3 DEF Config
  <2>5. c \in Config(n)
    <3>1. [cfg.hnd EXCEPT ![x] = p + 1] \in [Fds(n) -> Handle \cup {0}]
      BY <2>2 DEF Config
    <3>2. [cfg.flags EXCEPT ![x] = crt] \in [Fds(n) -> SUBSET Flags]
      BY <2>2 DEF Config
    <3>3. [cfg.infos EXCEPT ![x] = info] \in [Fds(n) -> Infos]
      BY <2>2 DEF Config
    <3> QED
      BY <2>3, <3>1, <3>2, <3>3 DEF Config
  <2>6. \A fd \in Fds(n) : IF fd = x THEN RowIs(c, fd, e) ELSE SameRow(c, cfg, fd)
    <3> SUFFICES ASSUME NEW fd \in Fds(n)
                 PROVE  IF fd = x THEN RowIs(c, fd, e) ELSE SameRow(c, cfg, fd)
      OBVIOUS
    <3>1. CASE fd = x
      <4>1. c.hnd[fd] = p + 1 /\ c.flags[fd] = crt /\ c.infos[fd] = info
        BY <2>4, <3>1 DEF Config
      <4> QED
        BY <1>3, <2>1, <3>1, <4>1 DEF RowIs, info, crt
    <3>2. CASE fd # x
      BY <2>4, <3>2 DEF SameRow, Config
    <3> QED
      BY <3>1, <3>2
  <2> QED
    BY <1>3, <2>4, <2>5, <2>6 DEF c
<1> QED
  BY <1>1, <1>2, <1>3

\* The loop of startup_config_setup_mappings(), element by element.
LEMMA MapRunIs ==
    ASSUME NEW n \in Nat, NEW cfg \in Config(n), NEW m \in Seq(MapRec)
    PROVE  /\ MapRun(cfg, m)[0] = cfg
           /\ \A k \in 1 .. Len(m) : MapRun(cfg, m)[k] = MapOne(MapRun(cfg, m)[k - 1], m[k])
<1> DEFINE D == Config(n)
           len == Len(m)
           G == [q \in Nat \X D |-> IF q[1] \in 1 .. len THEN MapOne(q[2], m[q[1]]) ELSE q[2]]
           IsRun(f) == f = [k \in 0 .. len |-> IF k = 0 THEN cfg ELSE MapOne(f[k - 1], m[k])]
<1>1. len \in Nat /\ \A k \in 1 .. len : m[k] \in MapRec
  OBVIOUS
<1>2. G \in [Nat \X D -> D]
  <2> SUFFICES ASSUME NEW q \in Nat \X D
               PROVE (IF q[1] \in 1 .. len THEN MapOne(q[2], m[q[1]]) ELSE q[2]) \in D
    OBVIOUS
  <2>1. q[2] \in Config(n)
    OBVIOUS
  <2> QED
    BY <1>1, <2>1, MapOneIs
<1>3. \A k \in 1 .. len : \A c \in D : G[<<k, c>>] = MapOne(c, m[k])
  BY <1>1
<1>4. MapRun(cfg, m) = CHOOSE f : IsRun(f)
  BY DEF MapRun
<1> HIDE DEF G, len, D
<1>5. PICK f : RunOf(f, D, cfg, G, len)
  BY <1>1, <1>2, RunExists DEF D
<1>6. f \in [0 .. len -> D] /\ f[0] = cfg /\ \A k \in 1 .. len : f[k] = G[<<k, f[k - 1]>>]
  BY <1>5 DEF RunOf
<1>7. \A k \in 1 .. len : f[k] = MapOne(f[k - 1], m[k])
  <2> SUFFICES ASSUME NEW k \in 1 .. len PROVE f[k] = MapOne(f[k - 1], m[k])
    OBVIOUS
  <2>1. k - 1 \in 0 .. len
    BY <1>1
  <2>2. f[k - 1] \in D
    BY <1>6, <2>1
  <2> QED
    BY <1>3, <1>6, <2>2
<1>8. IsRun(f)
  BY <1>1, <1>6, <1>7
<1>9. IsRun(MapRun(cfg, m))
  BY <1>4, <1>8
<1> DEFINE g == MapRun(cfg, m)
<1>10. g = [k \in 0 .. len |-> IF k = 0 THEN cfg ELSE MapOne(g[k - 1], m[k])]
  BY <1>9
<1> HIDE DEF g
<1>11. g[0] = cfg /\ \A k \in 1 .. len : g[k] = MapOne(g[k - 1], m[k])
  BY <1>1, <1>10
<1> QED
  BY <1>11 DEF g, len

\* The last of the first k elements that is for a descriptor.
LatestFor(m, k, fd, j) ==
    j \in 1 .. k /\ m[j].child_fd = fd /\ \A i \in j + 1 .. k : m[i].child_fd # fd
RowSet(c, cfg, m, k, fd) ==
    \/ (\A i \in 1 .. k : m[i].child_fd # fd) /\ SameRow(c, cfg, fd)
    \/ \E j \in 1 .. k : LatestFor(m, k, fd, j) /\ RowIs(c, fd, m[j])
SetUp(c, cfg, m, k, n) ==
    /\ c \in Config(n) /\ c.inherited = cfg.inherited
    /\ ~c.failed => ~cfg.failed /\ \A fd \in Fds(n) : RowSet(c, cfg, m, k, fd)

\* One more element.
LEMMA SetUpOneMore ==
    ASSUME NEW n \in Nat, NEW cfg \in Config(n), NEW m \in Seq(MapRec),
           NEW k \in Nat, k + 1 <= Len(m), NEW b, SetUp(b, cfg, m, k, n)
    PROVE  SetUp(MapOne(b, m[k + 1]), cfg, m, k + 1, n)
<1> DEFINE e == m[k + 1]
           c == MapOne(b, e)
<1>0. e \in MapRec /\ b \in Config(n) /\ b.inherited = cfg.inherited
  BY DEF SetUp
<1>1. /\ c \in Config(n) /\ c.inherited = b.inherited
      /\ ~c.failed =>
            /\ ~b.failed
            /\ \A fd \in Fds(n) : IF fd = e.child_fd THEN RowIs(c, fd, e) ELSE SameRow(c, b, fd)
  BY <1>0, MapOneIs
<1> HIDE DEF c
<1>2. ASSUME ~c.failed, NEW fd \in Fds(n) PROVE RowSet(c, cfg, m, k + 1, fd)
  <2>1. CASE fd = e.child_fd
    <3>1. LatestFor(m, k + 1, fd, k + 1)
      BY <2>1 DEF LatestFor
    <3> QED
      BY <1>1, <1>2, <2>1, <3>1 DEF RowSet
  <2>2. CASE fd # e.child_fd
    <3>1. SameRow(c, b, fd) /\ RowSet(b, cfg, m, k, fd)
      BY <1>1, <1>2, <2>2 DEF SetUp
    <3>2. CASE (\A i \in 1 .. k : m[i].child_fd # fd) /\ SameRow(b, cfg, fd)
      <4>1. \A i \in 1 .. k + 1 : m[i].child_fd # fd
        BY <2>2, <3>2
      <4>2. SameRow(c, cfg, fd)
        BY <3>1, <3>2 DEF SameRow
      <4> QED
        BY <4>1, <4>2 DEF RowSet
    <3>3. ASSUME NEW j \in 1 .. k, LatestFor(m, k, fd, j), RowIs(b, fd, m[j])
          PROVE  RowSet(c, cfg, m, k + 1, fd)
      <4>1. LatestFor(m, k + 1, fd, j)
        BY <2>2, <3>3 DEF LatestFor
      <4>2. RowIs(c, fd, m[j])
        BY <3>1, <3>3 DEF SameRow, RowIs
      <4>3. j \in 1 .. k + 1
        OBVIOUS
      <4> QED
        BY <4>1, <4>2, <4>3 DEF RowSet
    <3> QED
      BY <3>1, <3>2, <3>3 DEF RowSet
  <2> QED
    BY <2>1, <2>2
<1>3. ~c.failed => ~cfg.failed
  BY <1>1 DEF SetUp
<1>4. SetUp(c, cfg, m, k + 1, n)
  BY <1>0, <1>1, <1>2, <1>3 DEF SetUp
<1> QED
  BY <1>4 DEF c

\* startup_config_setup_mappings(): the last element for a descriptor wins.
LEMMA SetupIs ==
    ASSUME NEW n \in Nat, NEW cfg \in Config(n), NEW m \in Seq(MapRec)
    PROVE  SetUp(startup_config_setup_mappings(cfg, m), cfg, m, Len(m), n)
<1> DEFINE g == MapRun(cfg, m)
           T == {k \in Nat : k <= Len(m) => SetUp(g[k], cfg, m, k, n)}
<1>1. g[0] = cfg /\ \A k \in 1 .. Len(m) : g[k] = MapOne(g[k - 1], m[k])
  BY MapRunIs
<1>2. Len(m) \in Nat
  OBVIOUS
<1> HIDE DEF g
<1>3. 0 \in T
  BY <1>1 DEF SetUp, RowSet, SameRow
<1>4. ASSUME NEW k \in Nat, k \in T PROVE k + 1 \in T
  <2> SUFFICES ASSUME k + 1 <= Len(m) PROVE SetUp(g[k + 1], cfg, m, k + 1, n)
    OBVIOUS
  <2>1. k + 1 \in 1 .. Len(m) /\ (k + 1) - 1 = k /\ k <= Len(m)
    BY <1>2
  <2>2. SetUp(g[k], cfg, m, k, n)
    BY <1>4, <2>1
  <2>3. g[k + 1] = MapOne(g[k], m[k + 1])
    BY <1>1, <2>1
  <2> QED
    BY <2>2, <2>3, SetUpOneMore
<1> HIDE DEF T
<1>5. Len(m) \in T
  BY <1>2, <1>3, <1>4, SetInduction
<1> QED
  BY <1>2, <1>5 DEF T, g, startup_config_setup_mappings

\* The greatest member of a set.
LEMMA MaxIs ==
    ASSUME NEW S, S \subseteq Int, NEW x \in S, \A y \in S : y <= x
    PROVE  Max(S) = x
<1>1. Max(S) = CHOOSE y \in S : \A z \in S : y >= z
  BY DEF Max
<1>2. x \in S /\ \A z \in S : x >= z
  OBVIOUS
<1>3. \A y \in S : (\A z \in S : y >= z) => y = x
  <2> SUFFICES ASSUME NEW y \in S, \A z \in S : y >= z PROVE y = x
    OBVIOUS
  <2>1. y >= x /\ y <= x /\ x \in Int /\ y \in Int
    OBVIOUS
  <2> QED
    BY <2>1
<1>4. Max(S) \in S /\ \A z \in S : Max(S) >= z
  BY <1>1, <1>2
<1> QED
  BY <1>3, <1>4

\* The configuration after both maps: what is asked for each descriptor.
RowFor(c, fd, m) ==
    \/ AskedFile(m, fd) = NoObject /\ c.hnd[fd] = 0 /\ c.flags[fd] = {}
    \/ \E p \in OpenFd :
        /\ AskedFile(m, fd) = FileObj(p)
        /\ c.hnd[fd] = p + 1 /\ "FOPEN" \in c.flags[fd] /\ c.infos[fd] = get_fd_info(p)
ConfigFor(c, m, n) ==
    /\ n \in Nat /\ c \in Config(n) /\ c.inherited = {}
    /\ \A fd \in Fds(n) : RowFor(c, fd, m)
    /\ \A fd \in Nat : fd >= n => AskedFile(m, fd) = NoObject

\* A sequence of three.
LEMMA TripleIs ==
    ASSUME NEW S, NEW a \in S, NEW b \in S, NEW c \in S
    PROVE  /\ <<a, b, c>> \in Seq(S) /\ Len(<<a, b, c>>) = 3
           /\ <<a, b, c>>[1] = a /\ <<a, b, c>>[2] = b /\ <<a, b, c>>[3] = c
OBVIOUS

\* The place of an element among the standard ones and those of the caller.
LEMMA AllElements ==
    ASSUME NEW m \in Seq(MapRec)
    PROVE  /\ std_fd_mappings \in Seq(MapRec) /\ Len(std_fd_mappings) = 3
           /\ \A i \in 1 .. 3 : std_fd_mappings[i] = [child_fd |-> i - 1, parent_fd |-> i - 1]
           /\ Len(std_fd_mappings \o m) = 3 + Len(m)
           /\ \A i \in 1 .. 3 : (std_fd_mappings \o m)[i] = std_fd_mappings[i]
           /\ \A i \in 1 .. Len(m) : (std_fd_mappings \o m)[3 + i] = m[i]
<1> DEFINE s == std_fd_mappings
           R(a) == [child_fd |-> a, parent_fd |-> a]
<1>1. R(0) \in MapRec /\ R(1) \in MapRec /\ R(2) \in MapRec
  BY DEF MapRec
<1>2. s = <<R(0), R(1), R(2)>>
  BY DEF std_fd_mappings
<1> HIDE DEF R, s
<1>3. s \in Seq(MapRec) /\ Len(s) = 3 /\ s[1] = R(0) /\ s[2] = R(1) /\ s[3] = R(2)
  BY <1>1, <1>2, TripleIs
<1>4. \A i \in 1 .. 3 : s[i] = R(i - 1)
  <2> SUFFICES ASSUME NEW i \in 1 .. 3 PROVE s[i] = R(i - 1)
    OBVIOUS
  <2>1. i = 1 \/ i = 2 \/ i = 3
    OBVIOUS
  <2> QED
    BY <1>3, <2>1
<1>5. /\ Len(s \o m) = 3 + Len(m)
      /\ \A i \in 1 .. 3 : (s \o m)[i] = s[i]
      /\ \A i \in 1 .. Len(m) : (s \o m)[3 + i] = m[i]
  <2>0. s \in Seq(MapRec) /\ m \in Seq(MapRec)
    BY <1>3
  <2>1. Len(s \o m) = Len(s) + Len(m)
    BY <2>0, ConcatProperties, Zenon
  <2>2. \A i \in 1 .. Len(s) + Len(m) : (s \o m)[i] = IF i <= Len(s) THEN s[i] ELSE m[i - Len(s)]
    BY <2>0, ConcatProperties, Zenon
  <2>3. Len(m) \in Nat
    OBVIOUS
  <2>4. \A i \in 1 .. Len(m) : (3 + i) - 3 = i
    BY <2>3
  <2> QED
    BY <1>3, <2>1, <2>2, <2>3, <2>4
<1> QED
  BY <1>3, <1>4, <1>5 DEF s, R

\* AskedFile() by the last element of the two maps.
LEMMA AskedIs ==
    ASSUME NEW m \in Seq(MapRec), NEW fd \in Nat
    PROVE  /\ \A j \in 1 .. Len(m) : LatestFor(m, Len(m), fd, j) =>
                AskedFile(m, fd) = IF m[j].parent_fd = -1 THEN NoObject ELSE FileObj(m[j].parent_fd)
           /\ (\A i \in 1 .. Len(m) : m[i].child_fd # fd) =>
                AskedFile(m, fd) = IF fd < 3 THEN FileObj(fd) ELSE NoObject
<1> DEFINE all == std_fd_mappings \o m
           for == {i \in 1 .. Len(all) : all[i].child_fd = fd}
<1>1. /\ Len(m) \in Nat /\ Len(all) = 3 + Len(m)
      /\ \A i \in 1 .. 3 : all[i] = [child_fd |-> i - 1, parent_fd |-> i - 1]
      /\ \A i \in 1 .. Len(m) : all[3 + i] = m[i]
  BY AllElements
<1>2. AskedFile(m, fd) = IF for = {} \/ all[Max(for)].parent_fd = -1 THEN NoObject
                         ELSE FileObj(all[Max(for)].parent_fd)
  BY DEF AskedFile
<1> HIDE DEF all
<1>3. \A i \in 1 .. 3 : all[i].child_fd = i - 1 /\ all[i].parent_fd = i - 1
  BY <1>1
<1>4. for \subseteq Int
  BY <1>1
<1>5. ASSUME NEW j \in 1 .. Len(m), LatestFor(m, Len(m), fd, j)
      PROVE  AskedFile(m, fd) = IF m[j].parent_fd = -1 THEN NoObject ELSE FileObj(m[j].parent_fd)
  <2>1. 3 + j \in for
    BY <1>1, <1>5 DEF LatestFor
  <2>2. \A y \in for : y <= 3 + j
    <3> SUFFICES ASSUME NEW y \in for, ~(y <= 3 + j) PROVE FALSE
      OBVIOUS
    <3>1. y \in 1 .. 3 + Len(m) /\ y - 3 \in j + 1 .. Len(m) /\ 3 + (y - 3) = y /\ y - 3 \in 1 .. Len(m)
      BY <1>1
    <3>2. all[y] = m[y - 3] /\ all[y].child_fd = fd
      BY <1>1, <3>1
    <3> QED
      BY <1>5, <3>1, <3>2 DEF LatestFor
  <2> HIDE DEF for
  <2>3. Max(for) = 3 + j
    BY <1>4, <2>1, <2>2, MaxIs
  <2> QED
    BY <1>1, <1>2, <2>1, <2>3
<1>6. ASSUME \A i \in 1 .. Len(m) : m[i].child_fd # fd
      PROVE  AskedFile(m, fd) = IF fd < 3 THEN FileObj(fd) ELSE NoObject
  <2>1. \A y \in for : y = fd + 1 /\ fd < 3
    <3> SUFFICES ASSUME NEW y \in for PROVE y = fd + 1 /\ fd < 3
      OBVIOUS
    <3>1. y \in 1 .. 3 + Len(m) /\ all[y].child_fd = fd
      BY <1>1
    <3>2. CASE y > 3
      <4>1. y - 3 \in 1 .. Len(m) /\ 3 + (y - 3) = y
        BY <1>1, <3>1, <3>2
      <4>2. all[y] = m[y - 3]
        BY <1>1, <4>1
      <4> QED
        BY <1>6, <3>1, <4>1, <4>2
    <3>3. CASE y <= 3
      BY <1>3, <3>1, <3>3
    <3> QED
      BY <3>1, <3>2, <3>3
  <2>2. CASE fd < 3
    <3>1. fd + 1 \in 1 .. 3 /\ fd + 1 \in 1 .. Len(all)
      BY <1>1, <2>2
    <3>2. fd + 1 \in for
      BY <1>3, <3>1
    <3> HIDE DEF for
    <3>3. \A y \in for : y <= fd + 1
      BY <2>1
    <3>4. Max(for) = fd + 1
      BY <1>4, <3>2, <3>3, MaxIs
    <3>5. all[Max(for)].parent_fd = fd
      BY <1>3, <3>1, <3>4
    <3> QED
      BY <1>2, <2>2, <3>2, <3>5
  <2>3. CASE ~(fd < 3)
    BY <1>2, <2>1, <2>3
  <2> QED
    BY <2>2, <2>3
<1> QED
  BY <1>5, <1>6

\* A configuration without an element.
LEMMA AllocatedIs ==
    ASSUME NEW n \in Nat
    PROVE  /\ startup_config_allocate(n) \in Config(n)
           /\ startup_config_allocate(n).inherited = {} /\ ~startup_config_allocate(n).failed
           /\ \A fd \in Fds(n) : /\ startup_config_allocate(n).hnd[fd] = 0
                                 /\ startup_config_allocate(n).flags[fd] = {}
<1> DEFINE c == startup_config_allocate(n)
<1>1. c = [failed |-> FALSE, num_fd |-> n, hnd |-> [fd \in Fds(n) |-> 0],
           flags |-> [fd \in Fds(n) |-> {}], infos |-> [fd \in Fds(n) |-> UnknownInfo],
           inherited |-> {}]
  <2> DEFINE F(x) == [fd \in 0 .. num_crt_fd(n) - 1 |-> x]
  <2>1. c = [NoConfig EXCEPT !.num_fd = n, !.hnd = F(0), !.flags = F({}), !.infos = F(UnknownInfo)]
    BY DEF startup_config_allocate
  <2> HIDE DEF F
  <2>2. c = [failed |-> FALSE, num_fd |-> n, hnd |-> F(0), flags |-> F({}), infos |-> F(UnknownInfo),
             inherited |-> {}]
    BY <2>1 DEF NoConfig
  <2> QED
    BY <2>2 DEF F, Fds
<1>2. UnknownInfo \in Infos
  BY DEF Infos
<1> HIDE DEF c
<1>3. c \in Config(n)
  BY <1>1, <1>2 DEF Config
<1>4. c.inherited = {} /\ ~c.failed /\ \A fd \in Fds(n) : c.hnd[fd] = 0 /\ c.flags[fd] = {}
  BY <1>1
<1> QED
  BY <1>3, <1>4 DEF c

\* What a row says about the file that is asked for.
LEMMA RowAsked ==
    ASSUME NEW c, NEW fd, NEW m, NEW e, e.parent_fd \in Int, RowIs(c, fd, e),
           AskedFile(m, fd) = IF e.parent_fd = -1 THEN NoObject ELSE FileObj(e.parent_fd)
    PROVE  RowFor(c, fd, m)
<1>1. CASE e.parent_fd = -1
  BY <1>1 DEF RowIs, RowFor
<1>2. CASE e.parent_fd # -1
  <2> DEFINE p == e.parent_fd
  <2>1. p \in OpenFd /\ AskedFile(m, fd) = FileObj(p) /\ c.hnd[fd] = p + 1 /\ c.infos[fd] = get_fd_info(p)
    BY <1>2 DEF RowIs
  <2>2. "FOPEN" \in c.flags[fd]
    BY <1>2 DEF RowIs, convert_fdinfo_to_crtflags
  <2> HIDE DEF p
  <2> QED
    BY <2>1, <2>2 DEF RowFor
<1> QED
  BY <1>1, <1>2

\* startup_config_init() as far as the duplications.
LEMMA MappedIs ==
    ASSUME NEW m \in Seq(MapRec), ~Mapped(m).failed
    PROVE  ConfigFor(Mapped(m), m, Mapped(m).num_fd)
<1> DEFINE top == get_highest_child_fd(m)
           n == Max({top + 1, 3})
           s == std_fd_mappings
           c0 == startup_config_allocate(n)
           c1 == startup_config_setup_mappings(c0, s)
           c2 == startup_config_setup_mappings(c1, m)
<1>1. top \in Int /\ top >= -1 /\ \A i \in 1 .. Len(m) : m[i].child_fd <= top
  BY HighestIs
<1>2. n \in Nat /\ n >= top + 1 /\ n >= 3
  <2> HIDE DEF top
  <2>1. top + 1 \in Int /\ 3 \in Int
    BY <1>1
  <2>2. n \in Int /\ n >= top + 1 /\ n >= 3
    BY <2>1, MaxOfTwo
  <2> QED
    BY <2>2
<1>3. Mapped(m) = c2
  BY DEF Mapped
<1>4. \A i \in 1 .. Len(m) : m[i].child_fd \in Int /\ m[i].parent_fd \in Int
  <2>1. \A i \in 1 .. Len(m) : m[i] \in MapRec
    OBVIOUS
  <2> QED
    BY <2>1 DEF MapRec
<1>5. /\ s \in Seq(MapRec) /\ Len(s) = 3
      /\ \A i \in 1 .. 3 : s[i] = [child_fd |-> i - 1, parent_fd |-> i - 1]
  BY AllElements
<1> HIDE DEF top, n, s
<1>6. /\ c0 \in Config(n) /\ c0.inherited = {}
      /\ \A fd \in Fds(n) : c0.hnd[fd] = 0 /\ c0.flags[fd] = {}
  BY <1>2, AllocatedIs
<1> HIDE DEF c0
<1>7. SetUp(c1, c0, s, 3, n)
  <2>1. SetUp(c1, c0, s, Len(s), n)
    BY <1>2, <1>5, <1>6, SetupIs
  <2> QED
    BY <1>5, <2>1
<1>8. c1 \in Config(n)
  BY <1>7 DEF SetUp
<1> HIDE DEF c1
<1>9. SetUp(c2, c1, m, Len(m), n)
  BY <1>2, <1>8, SetupIs
<1> HIDE DEF c2
<1>10. ~c2.failed
  BY <1>3
<1>11. /\ c2 \in Config(n) /\ c2.inherited = {} /\ ~c1.failed
       /\ \A fd \in Fds(n) : RowSet(c1, c0, s, 3, fd) /\ RowSet(c2, c1, m, Len(m), fd)
  BY <1>6, <1>7, <1>9, <1>10 DEF SetUp
<1>12. c2.num_fd = n
  BY <1>11 DEF Config
<1>13. num_crt_fd(n) \in Nat /\ num_crt_fd(n) >= n
  BY <1>2, RoundedUp
<1>14. ASSUME NEW fd \in Fds(n) PROVE RowFor(c2, fd, m)
  <2>0. fd \in Nat
    BY <1>13 DEF Fds
  <2>1. ASSUME NEW j \in 1 .. Len(m), LatestFor(m, Len(m), fd, j), RowIs(c2, fd, m[j])
        PROVE  RowFor(c2, fd, m)
    <3>1. AskedFile(m, fd) = IF m[j].parent_fd = -1 THEN NoObject ELSE FileObj(m[j].parent_fd)
      BY <2>0, <2>1, AskedIs
    <3>2. m[j].parent_fd \in Int
      BY <1>4
    <3> QED
      BY <2>1, <3>1, <3>2, RowAsked
  <2>2. CASE (\A i \in 1 .. Len(m) : m[i].child_fd # fd) /\ SameRow(c2, c1, fd)
    <3>1. AskedFile(m, fd) = IF fd < 3 THEN FileObj(fd) ELSE NoObject
      BY <2>0, <2>2, AskedIs
    <3>2. \A i \in 1 .. 3 : s[i].child_fd = i - 1 /\ s[i].parent_fd = i - 1
      BY <1>5
    <3>3. ASSUME NEW j \in 1 .. 3, LatestFor(s, 3, fd, j), RowIs(c1, fd, s[j])
          PROVE  RowFor(c2, fd, m)
      <4>1. s[j].child_fd = fd /\ s[j].parent_fd = fd /\ fd < 3 /\ fd # -1
        BY <2>0, <3>2, <3>3 DEF LatestFor
      <4>2. RowIs(c2, fd, s[j])
        BY <2>2, <3>3 DEF RowIs, SameRow
      <4>3. AskedFile(m, fd) = IF s[j].parent_fd = -1 THEN NoObject ELSE FileObj(s[j].parent_fd)
        BY <3>1, <4>1
      <4>4. s[j].parent_fd \in Int
        BY <2>0, <4>1
      <4> QED
        BY <4>2, <4>3, <4>4, RowAsked
    <3>4. CASE (\A i \in 1 .. 3 : s[i].child_fd # fd) /\ SameRow(c1, c0, fd)
      <4>1. ~(fd < 3)
        <5> SUFFICES ASSUME fd < 3 PROVE FALSE
          OBVIOUS
        <5>1. fd + 1 \in 1 .. 3
          BY <2>0
        <5> QED
          BY <2>0, <3>2, <3>4, <5>1
      <4>2. AskedFile(m, fd) = NoObject
        BY <3>1, <4>1
      <4>3. c2.hnd[fd] = 0 /\ c2.flags[fd] = {}
        BY <1>6, <2>2, <3>4 DEF SameRow
      <4> QED
        BY <4>2, <4>3 DEF RowFor
    <3> QED
      BY <1>11, <3>3, <3>4 DEF RowSet
  <2> QED
    BY <1>11, <2>1, <2>2 DEF RowSet
<1>15. ASSUME NEW fd \in Nat, fd >= n PROVE AskedFile(m, fd) = NoObject
  <2>1. \A i \in 1 .. Len(m) : m[i].child_fd # fd
    BY <1>1, <1>2, <1>4, <1>15
  <2>2. ~(fd < 3)
    BY <1>2, <1>15
  <2> QED
    BY <2>1, <2>2, AskedIs
<1> QED
  BY <1>2, <1>3, <1>11, <1>12, <1>14, <1>15 DEF ConfigFor

\* Objects of different kinds, or with different numbers, differ.
LEMMA ObjectsDiffer ==
    /\ \A p : FileObj(p) # NoObject /\ FileObj(p)[2] = p
    /\ \A i : ProcObj(i) # NoObject /\ ProcObj(i)[2] = i
    /\ \A p, i : FileObj(p) # ProcObj(i)
    /\ \A i, j : ProcObj(i) = ProcObj(j) => i = j
<1>1. \A p : FileObj(p)[2] = p /\ FileObj(p)[1] = "file" /\ Len(FileObj(p)) = 2
  BY DEF FileObj
<1>2. \A i : ProcObj(i)[2] = i /\ ProcObj(i)[1] = "process" /\ Len(ProcObj(i)) = 2
  BY DEF ProcObj
<1>3. Len(NoObject) = 0
  BY DEF NoObject
<1>4. "file" # "process"
  OBVIOUS
<1> QED
  BY <1>1, <1>2, <1>3, <1>4

\* What a slot of the table is.
LEMMA SlotIs ==
    /\ \A o \in Objects : \A b \in BOOLEAN : Slot(o, b) \in SlotRec
    /\ \A o : Slot(o, TRUE).obj = o /\ Slot(o, TRUE).inherit = TRUE
    /\ \A o : Slot(o, FALSE).obj = o /\ Slot(o, FALSE).inherit = FALSE
    /\ FreeSlot \in SlotRec /\ FreeSlot.obj = NoObject /\ FreeSlot.inherit = FALSE
    /\ \A s \in SlotRec : s.obj \in Objects /\ s.inherit \in BOOLEAN
    /\ NoObject \notin FileObjects
<1>1. \A o \in Objects : \A b \in BOOLEAN : Slot(o, b) \in SlotRec
  BY DEF Slot, SlotRec
<1>2. /\ \A o : Slot(o, TRUE).obj = o /\ Slot(o, TRUE).inherit = TRUE
      /\ \A o : Slot(o, FALSE).obj = o /\ Slot(o, FALSE).inherit = FALSE
  BY DEF Slot
<1>3. NoObject \in Objects
  BY DEF Objects
<1>4. FreeSlot \in SlotRec /\ FreeSlot.obj = NoObject /\ FreeSlot.inherit = FALSE
  BY <1>1, <1>2, <1>3 DEF FreeSlot
<1>5. \A s \in SlotRec : s.obj \in Objects /\ s.inherit \in BOOLEAN
  BY DEF SlotRec
<1>6. NoObject \notin FileObjects
  BY ObjectsDiffer DEF FileObjects
<1> QED
  BY <1>1, <1>2, <1>4, <1>5, <1>6

\* The lowest free handle is one that is free.
LEMMA LowestHandle ==
    ASSUME NEW T, FreeHandles(T) # {}
    PROVE  Min(FreeHandles(T)) \in Handle /\ T[Min(FreeHandles(T))] = FreeSlot
<1>1. FreeHandles(T) \subseteq Nat
  BY HandlesAre DEF FreeHandles
<1>2. Min(FreeHandles(T)) \in FreeHandles(T)
  BY <1>1, MinIs
<1> QED
  BY <1>2 DEF FreeHandles

Duped(n) == [cfg : Config(n), table : [Handle -> SlotRec]]

\* Two configurations differ in their handles and in what they have inherited.
Alike(c, b) == c.flags = b.flags /\ c.infos = b.infos /\ c.num_fd = b.num_fd

\* What one turn of the loop of startup_config_dup_inherited_hnds() does.
Passed(x, d) ==
    /\ x.table = d.table /\ x.cfg.hnd = d.cfg.hnd /\ x.cfg.inherited = d.cfg.inherited
    /\ d.cfg.failed => x.cfg.failed
Took(x, d, fd, h) ==
    /\ d.table[h] = FreeSlot
    /\ x.cfg.hnd = [d.cfg.hnd EXCEPT ![fd] = h] /\ x.cfg.inherited = d.cfg.inherited \cup {h}
    /\ x.table = [d.table EXCEPT ![h] = Slot(d.table[d.cfg.hnd[fd]].obj, TRUE)]
Turned(x, d, fd) ==
    \/ (d.cfg.failed \/ ~Inherited(d.cfg, fd) \/ x.cfg.failed) /\ Passed(x, d)
    \/ ~d.cfg.failed /\ Inherited(d.cfg, fd) /\ \E h \in Handle : Took(x, d, fd, h)

\* One turn of the loop keeps the types, and takes at most one handle.
LEMMA DuplicateIs ==
    ASSUME NEW n \in Nat, NEW d \in Duped(n), NEW fd \in 0 .. n - 1
    PROVE  /\ DuplicateHandle(d, fd) \in Duped(n)
           /\ Alike(DuplicateHandle(d, fd).cfg, d.cfg)
           /\ Turned(DuplicateHandle(d, fd), d, fd)
<1> DEFINE x == DuplicateHandle(d, fd)
           c == d.cfg
           h == Min(FreeHandles(d.table))
           o == d.table[c.hnd[fd]].obj
<1>0. c \in Config(n) /\ d.table \in [Handle -> SlotRec] /\ fd \in Fds(n)
  <2>1. num_crt_fd(n) \in Nat /\ num_crt_fd(n) >= n
    BY RoundedUp
  <2> QED
    BY <2>1 DEF Duped, Fds
<1>1. CASE c.failed \/ ~Inherited(c, fd)
  <2>1. x = d
    BY <1>1 DEF DuplicateHandle
  <2> QED
    BY <1>1, <2>1 DEF Alike, Turned, Passed
<1>2. CASE ~(c.failed \/ ~Inherited(c, fd)) /\ FreeHandles(d.table) = {}
  <2>1. x = [d EXCEPT !.cfg.failed = TRUE]
    BY <1>2 DEF DuplicateHandle
  <2>2. x.cfg = [c EXCEPT !.failed = TRUE] /\ x.table = d.table /\ x = [cfg |-> x.cfg, table |-> x.table]
    BY <2>1 DEF Duped
  <2> HIDE DEF x
  <2>3. x.cfg \in Config(n) /\ x.cfg.failed /\ Alike(x.cfg, c) /\ x.cfg.hnd = c.hnd /\ x.cfg.inherited = c.inherited
    BY <1>0, <2>2 DEF Config, Alike
  <2>4. x \in Duped(n)
    BY <1>0, <2>2, <2>3 DEF Duped
  <2> QED
    BY <1>2, <2>2, <2>3, <2>4 DEF x, Turned, Passed
<1>3. CASE ~(c.failed \/ ~Inherited(c, fd)) /\ FreeHandles(d.table) # {}
  <2>1. x = [cfg |-> [c EXCEPT !.hnd[fd] = h, !.inherited = @ \cup {h}],
             table |-> [d.table EXCEPT ![h] = Slot(o, TRUE)]]
    BY <1>3 DEF DuplicateHandle
  <2>2. h \in Handle /\ d.table[h] = FreeSlot
    BY <1>3, LowestHandle
  <2>3. o \in Objects
    <3>1. c.hnd[fd] \in Handle
      BY <1>0, <1>3 DEF Inherited, Config
    <3> QED
      BY <1>0, <3>1, SlotIs
  <2> HIDE DEF h, o
  <2>4. Slot(o, TRUE) \in SlotRec
    BY <2>3, SlotIs
  <2>5. /\ x.cfg = [c EXCEPT !.hnd[fd] = h, !.inherited = @ \cup {h}]
        /\ x.table = [d.table EXCEPT ![h] = Slot(o, TRUE)] /\ x = [cfg |-> x.cfg, table |-> x.table]
    BY <2>1
  <2> HIDE DEF x
  <2>6. x.table \in [Handle -> SlotRec]
    BY <1>0, <2>4, <2>5
  <2>7. [c.hnd EXCEPT ![fd] = h] \in [Fds(n) -> Handle \cup {0}]
    BY <1>0, <2>2 DEF Config
  <2>8. /\ x.cfg.hnd = [c.hnd EXCEPT ![fd] = h] /\ x.cfg.inherited = c.inherited \cup {h}
        /\ Alike(x.cfg, c) /\ x.cfg.failed = c.failed
    BY <1>0, <2>5 DEF Config, Alike
  <2>9. x.cfg \in Config(n)
    <3>1. x.cfg = [failed |-> c.failed, num_fd |-> c.num_fd, hnd |-> [c.hnd EXCEPT ![fd] = h],
                   flags |-> c.flags, infos |-> c.infos, inherited |-> c.inherited \cup {h}]
      BY <1>0, <2>5 DEF Config
    <3>2. c.inherited \cup {h} \in SUBSET Handle
      BY <1>0, <2>2 DEF Config
    <3>3. /\ c.failed \in BOOLEAN /\ c.num_fd \in {n} /\ c.flags \in [Fds(n) -> SUBSET Flags]
          /\ c.infos \in [Fds(n) -> Infos]
      BY <1>0 DEF Config
    <3> QED
      BY <2>7, <3>1, <3>2, <3>3 DEF Config
  <2>10. x \in Duped(n)
    BY <2>5, <2>6, <2>9 DEF Duped
  <2>11. x.table = [d.table EXCEPT ![h] = Slot(d.table[d.cfg.hnd[fd]].obj, TRUE)]
    BY <2>5 DEF o
  <2>12. Took(x, d, fd, h)
    BY <2>2, <2>8, <2>11 DEF Took
  <2> QED
    BY <1>3, <2>2, <2>8, <2>10, <2>12 DEF x, Turned
<1> QED
  BY <1>1, <1>2, <1>3

\* The loop of startup_config_dup_inherited_hnds(), descriptor by descriptor.
LEMMA DupRunIs ==
    ASSUME NEW n \in Nat, NEW cfg \in Config(n), hnds \in [Handle -> SlotRec]
    PROVE  /\ DupRun(cfg)[0] = [cfg |-> cfg, table |-> hnds]
           /\ \A k \in 1 .. n : DupRun(cfg)[k] = DuplicateHandle(DupRun(cfg)[k - 1], k - 1)
<1> DEFINE D == Duped(n)
           base == [cfg |-> cfg, table |-> hnds]
           G == [q \in Nat \X D |-> IF q[1] \in 1 .. n THEN DuplicateHandle(q[2], q[1] - 1) ELSE q[2]]
           IsRun(f) == f = [k \in 0 .. n |-> IF k = 0 THEN base ELSE DuplicateHandle(f[k - 1], k - 1)]
<1>1. base \in D
  BY DEF Duped
<1>2. G \in [Nat \X D -> D]
  <2> SUFFICES ASSUME NEW q \in Nat \X D
               PROVE (IF q[1] \in 1 .. n THEN DuplicateHandle(q[2], q[1] - 1) ELSE q[2]) \in D
    OBVIOUS
  <2>1. q[2] \in Duped(n)
    OBVIOUS
  <2>2. q[1] \in 1 .. n => q[1] - 1 \in 0 .. n - 1
    OBVIOUS
  <2> QED
    BY <2>1, <2>2, DuplicateIs
<1>3. \A k \in 1 .. n : \A c \in D : G[<<k, c>>] = DuplicateHandle(c, k - 1)
  OBVIOUS
<1>4. DupRun(cfg) = CHOOSE f : IsRun(f)
  <2>1. cfg.num_fd = n
    BY DEF Config
  <2> QED
    BY <2>1 DEF DupRun
<1> HIDE DEF G, D, base
<1>5. PICK f : RunOf(f, D, base, G, n)
  BY <1>1, <1>2, RunExists
<1>6. f \in [0 .. n -> D] /\ f[0] = base /\ \A k \in 1 .. n : f[k] = G[<<k, f[k - 1]>>]
  BY <1>5 DEF RunOf
<1>7. \A k \in 1 .. n : f[k] = DuplicateHandle(f[k - 1], k - 1)
  <2> SUFFICES ASSUME NEW k \in 1 .. n PROVE f[k] = DuplicateHandle(f[k - 1], k - 1)
    OBVIOUS
  <2>1. k - 1 \in 0 .. n
    OBVIOUS
  <2>2. f[k - 1] \in D
    BY <1>6, <2>1
  <2> QED
    BY <1>3, <1>6, <2>2
<1>8. IsRun(f)
  BY <1>6, <1>7
<1>9. IsRun(DupRun(cfg))
  BY <1>4, <1>8
<1> DEFINE g == DupRun(cfg)
<1>10. g = [k \in 0 .. n |-> IF k = 0 THEN base ELSE DuplicateHandle(g[k - 1], k - 1)]
  BY <1>9
<1> HIDE DEF g
<1>11. g[0] = base /\ \A k \in 1 .. n : g[k] = DuplicateHandle(g[k - 1], k - 1)
  BY <1>10
<1> QED
  BY <1>11 DEF g, base

\* The state of the loop before descriptor k: the table differs from the one at
\* the start in handles that were free and are duplicates now.
FilesOnly(cfg, n) ==
    /\ cfg \in Config(n) /\ cfg.inherited = {}
    /\ \A fd \in Fds(n) : Inherited(cfg, fd) => \E p \in OpenFd : cfg.hnd[fd] = p + 1
    /\ hnds \in [Handle -> SlotRec]
    /\ \A p \in OpenFd : hnds[p + 1] = Slot(FileObj(p), FALSE)

DupAt(d, cfg, k, n) ==
    /\ d \in Duped(n) /\ Alike(d.cfg, cfg)
    /\ \A h \in Handle : h \notin d.cfg.inherited => d.table[h] = hnds[h]
    /\ \A h \in d.cfg.inherited :
        /\ hnds[h] = FreeSlot /\ d.table[h].inherit /\ d.table[h].obj \in FileObjects
        /\ \E fd \in 0 .. k - 1 : Inherited(cfg, fd) /\ d.cfg.hnd[fd] = h
    /\ \A fd \in Fds(n) : fd >= k \/ ~Inherited(cfg, fd) => d.cfg.hnd[fd] = cfg.hnd[fd]
    /\ ~d.cfg.failed =>
        \A fd \in 0 .. k - 1 : Inherited(cfg, fd) =>
            /\ d.cfg.hnd[fd] \in d.cfg.inherited
            /\ d.table[d.cfg.hnd[fd]].obj = hnds[cfg.hnd[fd]].obj

\* One more descriptor: it is passed over, or has a duplicate of its file.
LEMMA DupOneMore ==
    ASSUME NEW n \in Nat, NEW cfg, FilesOnly(cfg, n), NEW k \in 0 .. n - 1, NEW d, DupAt(d, cfg, k, n)
    PROVE  DupAt(DuplicateHandle(d, k), cfg, k + 1, n)
<1> DEFINE x == DuplicateHandle(d, k)
<1>0. d \in Duped(n) /\ Alike(d.cfg, cfg) /\ d.cfg \in Config(n) /\ d.table \in [Handle -> SlotRec]
  BY DEF DupAt, Duped
<1>1. x \in Duped(n) /\ Alike(x.cfg, d.cfg)
  BY <1>0, DuplicateIs
<1>2. Alike(x.cfg, cfg)
  BY <1>0, <1>1 DEF Alike
<1>3. k \in Fds(n) /\ num_crt_fd(n) \in Nat /\ num_crt_fd(n) >= n
  BY RoundedUp DEF Fds
<1>4. d.cfg.hnd[k] = cfg.hnd[k] /\ (Inherited(d.cfg, k) <=> Inherited(cfg, k))
  <2>1. d.cfg.hnd[k] = cfg.hnd[k]
    BY <1>3 DEF DupAt
  <2> QED
    BY <1>0, <2>1 DEF Inherited, Alike
<1>5. ASSUME d.cfg.failed \/ ~Inherited(d.cfg, k) \/ x.cfg.failed, Passed(x, d)
      PROVE  DupAt(x, cfg, k + 1, n)
  <2> HIDE DEF x
  <2>0. /\ x.table = d.table /\ x.cfg.hnd = d.cfg.hnd /\ x.cfg.inherited = d.cfg.inherited
        /\ d.cfg.failed => x.cfg.failed
    BY <1>5 DEF Passed
  <2>1. \A h \in Handle : h \notin x.cfg.inherited => x.table[h] = hnds[h]
    BY <2>0 DEF DupAt
  <2>2. ASSUME NEW h \in x.cfg.inherited
        PROVE  /\ hnds[h] = FreeSlot /\ x.table[h].inherit /\ x.table[h].obj \in FileObjects
               /\ \E fd \in 0 .. k : Inherited(cfg, fd) /\ x.cfg.hnd[fd] = h
    <3>1. h \in d.cfg.inherited
      BY <2>0
    <3>2. PICK fd \in 0 .. k - 1 : Inherited(cfg, fd) /\ d.cfg.hnd[fd] = h
      BY <3>1 DEF DupAt
    <3>3. fd \in 0 .. k
      OBVIOUS
    <3> QED
      BY <2>0, <3>1, <3>2, <3>3 DEF DupAt
  <2>3. \A fd \in Fds(n) : fd >= k + 1 \/ ~Inherited(cfg, fd) => x.cfg.hnd[fd] = cfg.hnd[fd]
    <3> SUFFICES ASSUME NEW fd \in Fds(n), fd >= k + 1 \/ ~Inherited(cfg, fd)
                 PROVE  x.cfg.hnd[fd] = cfg.hnd[fd]
      OBVIOUS
    <3>1. fd >= k \/ ~Inherited(cfg, fd)
      BY <1>3 DEF Fds
    <3> QED
      BY <2>0, <3>1 DEF DupAt
  <2>4. ASSUME ~x.cfg.failed, NEW fd \in 0 .. k, Inherited(cfg, fd)
        PROVE  /\ x.cfg.hnd[fd] \in x.cfg.inherited
               /\ x.table[x.cfg.hnd[fd]].obj = hnds[cfg.hnd[fd]].obj
    <3>1. ~d.cfg.failed /\ ~Inherited(cfg, k)
      BY <1>4, <1>5, <2>0, <2>4
    <3>2. fd \in 0 .. k - 1
      BY <2>4, <3>1
    <3> QED
      BY <2>0, <2>4, <3>1, <3>2 DEF DupAt
  <2>5. (k + 1) - 1 = k
    OBVIOUS
  <2> QED
    BY <1>1, <1>2, <2>1, <2>2, <2>3, <2>4, <2>5 DEF DupAt
<1>6. ASSUME ~d.cfg.failed, Inherited(d.cfg, k), NEW h \in Handle, Took(x, d, k, h)
      PROVE  DupAt(x, cfg, k + 1, n)
  <2> HIDE DEF x
  <2>14. /\ ~d.cfg.failed /\ Inherited(d.cfg, k) /\ d.table[h] = FreeSlot
         /\ x.cfg.hnd = [d.cfg.hnd EXCEPT ![k] = h] /\ x.cfg.inherited = d.cfg.inherited \cup {h}
         /\ x.table = [d.table EXCEPT ![h] = Slot(d.table[d.cfg.hnd[k]].obj, TRUE)]
    BY <1>6 DEF Took
  <2>0. d.cfg.hnd \in [Fds(n) -> Handle \cup {0}] /\ d.cfg.inherited \subseteq Handle
    BY <1>0 DEF Config
  <2>1. h \notin d.cfg.inherited /\ hnds[h] = FreeSlot
    <3>1. h \notin d.cfg.inherited
      <4> SUFFICES ASSUME h \in d.cfg.inherited PROVE FALSE
        OBVIOUS
      <4>1. d.table[h].obj \in FileObjects
        BY DEF DupAt
      <4> QED
        BY <2>14, <4>1, SlotIs
    <3> QED
      BY <2>14, <3>1 DEF DupAt
  <2>2. PICK p \in OpenFd : cfg.hnd[k] = p + 1
    BY <1>3, <1>4, <2>14 DEF FilesOnly
  <2>3. p + 1 \in Handle /\ hnds[p + 1] = Slot(FileObj(p), FALSE) /\ FileObj(p) \in FileObjects
    <3>1. p \in 0 .. 3 /\ p + 1 \in 1 .. 4
      BY <2>2, HandlesAre
    <3>2. p + 1 \in Handle
      BY <3>1, HandlesAre
    <3>3. FileObj(p) \in FileObjects
      BY <3>1 DEF FileObjects
    <3>4. hnds[p + 1] = Slot(FileObj(p), FALSE)
      BY DEF FilesOnly
    <3> QED
      BY <3>2, <3>3, <3>4
  <2>4. hnds[p + 1].obj = FileObj(p) /\ hnds[p + 1].obj # NoObject /\ hnds[p + 1] # FreeSlot
    <3>1. hnds[p + 1].obj = FileObj(p)
      BY <2>3, SlotIs
    <3>2. FileObj(p) # NoObject
      BY ObjectsDiffer
    <3> QED
      BY <3>1, <3>2, SlotIs
  <2>5. p + 1 \notin d.cfg.inherited
    BY <2>4 DEF DupAt
  <2>6. d.table[d.cfg.hnd[k]].obj = FileObj(p)
    <3>1. d.table[p + 1] = hnds[p + 1]
      BY <2>3, <2>5 DEF DupAt
    <3> QED
      BY <1>4, <2>2, <2>4, <3>1
  <2>7. x.table[h] = Slot(FileObj(p), TRUE) /\ \A g \in Handle : g # h => x.table[g] = d.table[g]
    BY <1>0, <2>14, <2>6
  <2>8. x.cfg.hnd[k] = h /\ \A fd \in Fds(n) : fd # k => x.cfg.hnd[fd] = d.cfg.hnd[fd]
    BY <1>3, <2>14, <2>0
  <2>9. \A g \in Handle : g \notin x.cfg.inherited => x.table[g] = hnds[g]
    BY <2>14, <2>7 DEF DupAt
  <2>10. ASSUME NEW g \in x.cfg.inherited
         PROVE  /\ hnds[g] = FreeSlot /\ x.table[g].inherit /\ x.table[g].obj \in FileObjects
                /\ \E fd \in 0 .. k : Inherited(cfg, fd) /\ x.cfg.hnd[fd] = g
    <3>1. CASE g = h
      <4>1. x.table[g].inherit /\ x.table[g].obj \in FileObjects
        BY <2>3, <2>7, <3>1, SlotIs
      <4>2. k \in 0 .. k /\ Inherited(cfg, k) /\ x.cfg.hnd[k] = g
        BY <1>4, <2>14, <2>8, <3>1
      <4> QED
        BY <2>1, <3>1, <4>1, <4>2
    <3>2. CASE g # h
      <4>1. g \in d.cfg.inherited /\ g \in Handle
        BY <2>14, <2>0, <3>2
      <4>2. PICK fd \in 0 .. k - 1 : Inherited(cfg, fd) /\ d.cfg.hnd[fd] = g
        BY <4>1 DEF DupAt
      <4>3. fd \in 0 .. k /\ fd # k /\ fd \in Fds(n)
        BY <1>3 DEF Fds
      <4>4. x.cfg.hnd[fd] = g
        BY <2>8, <4>2, <4>3
      <4>5. x.table[g] = d.table[g]
        BY <2>7, <3>2, <4>1
      <4> QED
        BY <4>1, <4>2, <4>3, <4>4, <4>5 DEF DupAt
    <3> QED
      BY <3>1, <3>2
  <2>11. ASSUME NEW fd \in Fds(n), fd >= k + 1 \/ ~Inherited(cfg, fd)
         PROVE  x.cfg.hnd[fd] = cfg.hnd[fd]
    <3>1. fd # k /\ (fd >= k \/ ~Inherited(cfg, fd))
      BY <1>3, <1>4, <2>14, <2>11 DEF Fds
    <3> QED
      BY <2>8, <3>1 DEF DupAt
  <2>12. ASSUME NEW fd \in 0 .. k, Inherited(cfg, fd)
         PROVE  /\ x.cfg.hnd[fd] \in x.cfg.inherited
                /\ x.table[x.cfg.hnd[fd]].obj = hnds[cfg.hnd[fd]].obj
    <3>1. CASE fd = k
      <4>1. x.cfg.hnd[fd] = h /\ x.table[h].obj = FileObj(p) /\ cfg.hnd[fd] = p + 1
        BY <2>2, <2>7, <2>8, <3>1, SlotIs
      <4> QED
        BY <2>14, <2>4, <4>1
    <3>2. CASE fd # k
      <4>1. fd \in 0 .. k - 1 /\ fd \in Fds(n)
        BY <1>3, <3>2 DEF Fds
      <4>2. /\ d.cfg.hnd[fd] \in d.cfg.inherited
            /\ d.table[d.cfg.hnd[fd]].obj = hnds[cfg.hnd[fd]].obj
        BY <2>14, <2>12, <4>1 DEF DupAt
      <4>3. d.cfg.hnd[fd] # h /\ d.cfg.hnd[fd] \in Handle /\ x.cfg.hnd[fd] = d.cfg.hnd[fd]
        BY <2>0, <2>1, <2>8, <3>2, <4>1, <4>2
      <4> QED
        BY <2>14, <2>7, <4>2, <4>3
    <3> QED
      BY <3>1, <3>2
  <2>13. (k + 1) - 1 = k
    OBVIOUS
  <2> QED
    BY <1>1, <1>2, <2>9, <2>10, <2>11, <2>12, <2>13 DEF DupAt
<1>7. Turned(x, d, k)
  BY <1>0, DuplicateIs
<1> HIDE DEF x
<1>8. DupAt(x, cfg, k + 1, n)
  BY <1>5, <1>6, <1>7 DEF Turned
<1> QED
  BY <1>8 DEF x

\* The loop as far as any descriptor.
LEMMA DupsAre ==
    ASSUME NEW n \in Nat, NEW cfg, FilesOnly(cfg, n), NEW k \in 0 .. n
    PROVE  DupAt(DupRun(cfg)[k], cfg, k, n)
<1> DEFINE g == DupRun(cfg)
           T == {i \in Nat : i <= n => DupAt(g[i], cfg, i, n)}
<1>1. cfg \in Config(n) /\ hnds \in [Handle -> SlotRec]
  BY DEF FilesOnly
<1>2. g[0] = [cfg |-> cfg, table |-> hnds] /\ \A i \in 1 .. n : g[i] = DuplicateHandle(g[i - 1], i - 1)
  BY <1>1, DupRunIs
<1> HIDE DEF g
<1>3. 0 \in T
  <2>1. g[0] \in Duped(n) /\ g[0].cfg = cfg /\ g[0].table = hnds
    BY <1>1, <1>2 DEF Duped
  <2>2. cfg.inherited = {}
    BY DEF FilesOnly
  <2> QED
    BY <2>1, <2>2 DEF DupAt, Alike
<1>4. ASSUME NEW i \in Nat, i \in T PROVE i + 1 \in T
  <2> SUFFICES ASSUME i + 1 <= n PROVE DupAt(g[i + 1], cfg, i + 1, n)
    OBVIOUS
  <2>1. i \in 0 .. n - 1 /\ i + 1 \in 1 .. n /\ (i + 1) - 1 = i /\ i <= n
    OBVIOUS
  <2>2. DupAt(g[i], cfg, i, n)
    BY <1>4, <2>1
  <2>3. g[i + 1] = DuplicateHandle(g[i], i)
    BY <1>2, <2>1
  <2> QED
    BY <2>1, <2>2, <2>3, DupOneMore
<1> HIDE DEF T
<1>5. k \in T
  BY <1>3, <1>4, SetInduction
<1> QED
  BY <1>5 DEF T, g

-----------------------------------------------------------------------------
(***************************************************************************)
(* Handles: what the steps of one thread leave alone                       *)
(***************************************************************************)
\* No handle has two owners, and no owner has the handle of a descriptor.
LEMMA OwnersApart ==
    ASSUME WinTypeOK, Held
    PROVE  /\ \A t \in WinThread : \A h : Owns(t, h) => h \in Handle /\ h \notin FdHandles
           /\ \A t, u \in WinThread : \A h : Owns(t, h) /\ Owns(u, h) => t = u
           /\ \A t \in WinThread : \A h : Owns(t, h) => hnds[h] # FreeSlot
           /\ \A t \in WinThread : winAt[t] \in HasProcess => winHnd[t] \notin winCfg[t].inherited
<1>1. \A h \in FdHandles : h \in Handle /\ hnds[h].inherit = FALSE /\ \E p \in 0 .. 3 : hnds[h].obj = FileObj(p)
  <2> SUFFICES ASSUME NEW h \in FdHandles
               PROVE  h \in Handle /\ hnds[h].inherit = FALSE /\ \E p \in 0 .. 3 : hnds[h].obj = FileObj(p)
    OBVIOUS
  <2>1. PICK p \in OpenFd : h = p + 1
    BY HandlesAre
  <2>2. p \in 0 .. 3 /\ p + 1 \in 1 .. 4
    BY HandlesAre
  <2>3. h \in Handle
    BY <2>1, <2>2, HandlesAre
  <2>4. hnds[h] = Slot(FileObj(p), FALSE)
    BY <2>1 DEF Held, FdFiles
  <2>5. hnds[h].inherit = FALSE /\ hnds[h].obj = FileObj(p)
    BY <2>4, SlotIs
  <2> QED
    BY <2>2, <2>3, <2>5
<1>2. \A t \in WinThread : \A h \in winCfg[t].inherited :
        h \in Handle /\ hnds[h].inherit /\ hnds[h].obj \in FileObjects
  BY DEF Held, Holds
<1>3. \A t \in WinThread : winAt[t] \in HasProcess =>
        winHnd[t] \in Handle /\ hnds[winHnd[t]].inherit = FALSE /\ hnds[winHnd[t]].obj = ProcObj(winMine[t])
  <2> SUFFICES ASSUME NEW t \in WinThread, winAt[t] \in HasProcess
               PROVE  winHnd[t] \in Handle /\ hnds[winHnd[t]].inherit = FALSE
                      /\ hnds[winHnd[t]].obj = ProcObj(winMine[t])
    OBVIOUS
  <2>1. winHnd[t] \in Handle /\ hnds[winHnd[t]] = Slot(ProcObj(winMine[t]), FALSE)
    BY DEF Held, Holds
  <2> QED
    BY <2>1, SlotIs
<1>4. \A i : ProcObj(i) \notin FileObjects
  BY ObjectsDiffer DEF FileObjects
<1>5. \A p \in 0 .. 3 : FileObj(p) \in FileObjects
  BY DEF FileObjects
<1>6. ASSUME NEW t \in WinThread, NEW h, Owns(t, h)
      PROVE  h \in Handle /\ h \notin FdHandles /\ hnds[h] # FreeSlot
  <2>1. CASE h \in winCfg[t].inherited
    <3>1. h \in Handle /\ hnds[h].inherit /\ hnds[h].obj \in FileObjects
      BY <1>2, <2>1
    <3> QED
      BY <1>1, <3>1, SlotIs
  <2>2. CASE winAt[t] \in HasProcess /\ h = winHnd[t]
    <3>1. h \in Handle /\ hnds[h].obj = ProcObj(winMine[t])
      BY <1>3, <2>2
    <3>2. hnds[h].obj # NoObject
      BY <3>1, ObjectsDiffer
    <3>3. hnds[h] # FreeSlot
      BY <3>2, SlotIs
    <3> QED
      BY <1>1, <1>4, <1>5, <3>1, <3>3
  <2> QED
    BY <1>6, <2>1, <2>2 DEF Owns
<1>7. ASSUME NEW t \in WinThread, NEW u \in WinThread, NEW h, Owns(t, h), Owns(u, h), t # u
      PROVE  FALSE
  <2>1. CASE h \in winCfg[t].inherited /\ h \in winCfg[u].inherited
    BY <1>7, <2>1 DEF Held, Apart
  <2>2. CASE h \in winCfg[t].inherited /\ winAt[u] \in HasProcess /\ h = winHnd[u]
    BY <1>2, <1>3, <1>4, <2>2
  <2>3. CASE h \in winCfg[u].inherited /\ winAt[t] \in HasProcess /\ h = winHnd[t]
    BY <1>2, <1>3, <1>4, <2>3
  <2>4. CASE winAt[t] \in HasProcess /\ h = winHnd[t] /\ winAt[u] \in HasProcess /\ h = winHnd[u]
    <3>1. ProcObj(winMine[t]) = ProcObj(winMine[u])
      BY <1>3, <2>4
    <3>2. winMine[t] = winMine[u]
      BY <3>1, ObjectsDiffer
    <3> QED
      BY <1>7, <2>4, <3>2 DEF Held, Apart
  <2> QED
    BY <1>7, <2>1, <2>2, <2>3, <2>4 DEF Owns
<1>8. \A t \in WinThread : winAt[t] \in HasProcess => winHnd[t] \notin winCfg[t].inherited
  BY <1>2, <1>3, <1>4
<1> QED
  BY <1>6, <1>7, <1>8

\* A step of thread t: the others stand where they were, the list of processes
\* may grow, and the table changes at handles that t owns or that were free.
OthersStand(t) ==
    \A u \in WinThread : u # t =>
        /\ winAt'[u] = winAt[u] /\ winCfg'[u] = winCfg[u] /\ winHnd'[u] = winHnd[u]
        /\ winMine'[u] = winMine[u] /\ winPid'[u] = winPid[u]
ProcsKept ==
    /\ Len(procs) \in Nat /\ Len(procs') \in Nat /\ Len(procs) <= Len(procs')
    /\ \A i \in 1 .. Len(procs) : procs'[i].pid = procs[i].pid
TouchesOwn(t) ==
    \A h \in Handle :
        /\ hnds'[h] = hnds[h] \/ Owns(t, h) \/ hnds[h] = FreeSlot
        /\ Owns(t, h)' => hnds'[h] # FreeSlot /\ (Owns(t, h) \/ hnds[h] = FreeSlot)
        /\ hnds'[h] # FreeSlot /\ (Owns(t, h) \/ hnds[h] = FreeSlot) => Owns(t, h)'

\* Such a step leaves the other threads their handles, and the table right.
LEMMA OthersKeep ==
    ASSUME WinTypeOK, Held, NEW t \in WinThread, OthersStand(t), ProcsKept, TouchesOwn(t),
           OpenFd' = OpenFd, FdHandles' = FdHandles,
           toExit' = toExit
    PROVE  TableRight' /\ FdFiles' /\ \A u \in WinThread : u # t => Holds(u)'
<1>1. ASSUME NEW u \in WinThread, u # t, NEW h, Owns(u, h)
      PROVE  h \in Handle /\ hnds'[h] = hnds[h] /\ hnds[h] # FreeSlot
  <2>1. h \in Handle /\ ~Owns(t, h) /\ hnds[h] # FreeSlot
    BY <1>1, OwnersApart
  <2> QED
    BY <2>1 DEF TouchesOwn
<1>2. \A u \in WinThread : u # t => \A h : Owns(u, h)' <=> Owns(u, h)
  BY DEF OthersStand, Owns
<1>3. ASSUME NEW h \in FdHandles PROVE h \in Handle /\ hnds'[h] = hnds[h] /\ hnds[h] # FreeSlot
  <2>1. PICK p \in OpenFd : h = p + 1
    BY HandlesAre
  <2>2. p \in 0 .. 3 /\ p + 1 \in 1 .. 4
    BY HandlesAre
  <2>3. h \in Handle
    BY <2>1, <2>2, HandlesAre
  <2>4. hnds[h] # FreeSlot
    BY <2>3 DEF Held, TableRight
  <2>5. ~Owns(t, h)
    BY OwnersApart
  <2> QED
    BY <2>3, <2>4, <2>5 DEF TouchesOwn
<1>4. TableRight'
  <2> SUFFICES ASSUME NEW h \in Handle
               PROVE  hnds'[h] # FreeSlot <=> h \in FdHandles \/ \E u \in WinThread : Owns(u, h)'
    BY DEF TableRight, Handle
  <2>1. CASE h \in FdHandles
    BY <1>3, <2>1
  <2>2. CASE h \notin FdHandles /\ \E u \in WinThread : u # t /\ Owns(u, h)
    BY <1>1, <1>2, <2>2
  <2>3. CASE h \notin FdHandles /\ ~(\E u \in WinThread : u # t /\ Owns(u, h))
    <3>1. Owns(t, h) \/ hnds[h] = FreeSlot
      BY <2>3 DEF Held, TableRight
    <3>2. hnds'[h] # FreeSlot <=> Owns(t, h)'
      BY <3>1 DEF TouchesOwn
    <3> QED
      BY <1>2, <2>3, <3>2
  <2> QED
    BY <2>1, <2>2, <2>3
<1>5. FdFiles'
  <2> SUFFICES ASSUME NEW p \in OpenFd PROVE hnds'[p + 1] = Slot(FileObj(p), FALSE)
    BY DEF FdFiles, Slot, FileObj
  <2>1. p + 1 \in FdHandles
    BY HandlesAre
  <2> QED
    BY <1>3, <2>1 DEF Held, FdFiles
<1>6. ASSUME NEW u \in WinThread, u # t PROVE Holds(u)'
  <2>1. Holds(u)
    BY DEF Held
  <2>2. /\ winAt'[u] = winAt[u] /\ winCfg'[u] = winCfg[u] /\ winHnd'[u] = winHnd[u]
        /\ winMine'[u] = winMine[u] /\ winPid'[u] = winPid[u]
    BY <1>6 DEF OthersStand
  <2>3. winAt[u] \in HasProcess => Mine(u)' /\ procs'[winMine[u]].pid = procs[winMine[u]].pid
    <3> SUFFICES ASSUME winAt[u] \in HasProcess
                 PROVE  Mine(u)' /\ procs'[winMine[u]].pid = procs[winMine[u]].pid
      OBVIOUS
    <3>1. winMine[u] \in 1 .. Len(procs)
      BY <2>1 DEF Holds, Mine
    <3>2. winMine[u] \in 1 .. Len(procs')
      BY <3>1 DEF ProcsKept
    <3> QED
      BY <2>2, <3>1, <3>2 DEF Mine, ProcsKept
  <2>4. winAt[u] \in HasProcess => hnds'[winHnd[u]] = hnds[winHnd[u]]
    BY <1>1, <1>6 DEF Owns
  <2>5. \A h \in winCfg[u].inherited : hnds'[h] = hnds[h]
    BY <1>1, <1>6 DEF Owns
  <2>6. winAt[u] \in InList => winAt[u] \in HasProcess
    BY DEF InList, HasProcess
  <2> QED
    <3>1. (winAt[u] \in HasProcess =>
              Mine(u) /\ winHnd[u] \in Handle /\ hnds[winHnd[u]] = Slot(ProcObj(winMine[u]), FALSE))'
      BY <2>1, <2>2, <2>3, <2>4 DEF Holds
    <3>2. (winCfg[u].inherited \subseteq Handle)'
      BY <2>1, <2>2 DEF Holds
    <3>3. (\A h \in winCfg[u].inherited : hnds[h].inherit /\ hnds[h].obj \in FileObjects)'
      BY <2>1, <2>2, <2>5 DEF Holds
    <3>4. (winAt[u] \notin Inheriting => winCfg[u].inherited = {})'
      BY <2>1, <2>2 DEF Holds
    <3>5. (winAt[u] = "execwait" => toExit = winHnd[u])'
      BY <2>1, <2>2 DEF Holds
    <3>6. (winAt[u] \in InList => winPid[u] = procs[winMine[u]].pid)'
      BY <2>1, <2>2, <2>3, <2>6 DEF Holds
    <3> QED
      BY <3>1, <3>2, <3>3, <3>4, <3>5, <3>6 DEF Holds
<1> QED
  BY <1>4, <1>5, <1>6

\* Threads stay apart when t gets nothing but what was free.
LEMMA ApartKept ==
    ASSUME WinTypeOK, Held, NEW t \in WinThread, OthersStand(t),
           \A h \in winCfg'[t].inherited : h \in winCfg[t].inherited \/ hnds[h] = FreeSlot,
           winAt'[t] \in HasProcess =>
             (winAt[t] \in HasProcess /\ winMine'[t] = winMine[t]) \/ winMine'[t] = Len(procs) + 1
    PROVE  Apart'
<1>0. Len(procs) \in Nat
  <2>1. PICK S : procs \in Seq(S)
    BY DEF WinTypeOK
  <2> QED
    BY <2>1
<1>1. \A u \in WinThread : winAt[u] \in HasProcess => winMine[u] \in 1 .. Len(procs)
  BY DEF Held, Holds, Mine
<1>2. \A u \in WinThread : u # t =>
        /\ winAt'[u] = winAt[u] /\ winCfg'[u] = winCfg[u] /\ winMine'[u] = winMine[u]
  BY DEF OthersStand
<1>3. ASSUME NEW u \in WinThread, u # t
      PROVE  /\ winAt'[t] \in HasProcess /\ winAt'[u] \in HasProcess => winMine'[t] # winMine'[u]
             /\ winCfg'[t].inherited \cap winCfg'[u].inherited = {}
  <2>1. winAt'[t] \in HasProcess /\ winAt'[u] \in HasProcess => winMine'[t] # winMine'[u]
    <3> SUFFICES ASSUME winAt'[t] \in HasProcess, winAt'[u] \in HasProcess
                 PROVE  winMine'[t] # winMine'[u]
      OBVIOUS
    <3>1. winAt[u] \in HasProcess /\ winMine'[u] = winMine[u] /\ winMine[u] \in 1 .. Len(procs)
      BY <1>1, <1>2, <1>3
    <3>2. CASE winMine'[t] = Len(procs) + 1
      BY <1>0, <3>1, <3>2
    <3>3. CASE winAt[t] \in HasProcess /\ winMine'[t] = winMine[t]
      BY <1>3, <3>1, <3>3 DEF Held, Apart
    <3> QED
      BY <3>2, <3>3
  <2>2. ASSUME NEW h, h \in winCfg'[t].inherited, h \in winCfg'[u].inherited PROVE FALSE
    <3>1. h \in winCfg[u].inherited
      BY <1>2, <1>3, <2>2
    <3>2. hnds[h] # FreeSlot
      BY <3>1, OwnersApart DEF Owns
    <3>3. h \in winCfg[t].inherited
      BY <2>2, <3>2
    <3> QED
      BY <1>3, <3>1, <3>3 DEF Held, Apart
  <2> QED
    BY <2>1, <2>2
<1>4. ASSUME NEW u \in WinThread, NEW v \in WinThread, u # t, v # t, u # v
      PROVE  /\ winAt'[u] \in HasProcess /\ winAt'[v] \in HasProcess => winMine'[u] # winMine'[v]
             /\ winCfg'[u].inherited \cap winCfg'[v].inherited = {}
  BY <1>2, <1>4 DEF Held, Apart
<1> SUFFICES ASSUME NEW u \in WinThread, NEW v \in WinThread, u # v
             PROVE  /\ winAt'[u] \in HasProcess /\ winAt'[v] \in HasProcess => winMine'[u] # winMine'[v]
                    /\ winCfg'[u].inherited \cap winCfg'[v].inherited = {}
  BY DEF Apart
<1>5. CASE u = t
  BY <1>3, <1>5
<1>6. CASE v = t
  <2>1. winCfg'[t].inherited \cap winCfg'[u].inherited = {}
    BY <1>3, <1>6
  <2>2. winCfg'[u].inherited \cap winCfg'[v].inherited = winCfg'[t].inherited \cap winCfg'[u].inherited
    BY <1>6
  <2> QED
    BY <1>3, <1>6, <2>1, <2>2
<1> QED
  BY <1>4, <1>5, <1>6

\* Identifiers stay different while no handle to a process is made.
LEMMA PidsKept ==
    ASSUME PidsDiffer, procs' = procs,
           \A h \in Handle : hnds'[h].obj = hnds[h].obj \/ \A i : hnds'[h].obj # ProcObj(i)
    PROVE  PidsDiffer'
<1>1. \A i \in 1 .. Len(procs) : InUse(i)' => InUse(i)
  BY DEF InUse
<1> QED
  BY <1>1 DEF PidsDiffer

\* The list stays right while no thread enters or leaves it.
LEMMA ListKept ==
    ASSUME Held, NEW t \in WinThread, OthersStand(t), ProcsKept, children' = children,
           winAt'[t] \in InList <=> winAt[t] \in InList,
           winAt[t] \in InList => winMine'[t] = winMine[t] /\ winHnd'[t] = winHnd[t]
    PROVE  ListRight'
<1>1. ASSUME NEW u \in WinThread
      PROVE  /\ winAt'[u] \in InList <=> winAt[u] \in InList
             /\ winAt[u] \in InList => EntryOf(u)' = EntryOf(u)
  <2>1. /\ winAt'[u] \in InList <=> winAt[u] \in InList
        /\ winAt[u] \in InList => winMine'[u] = winMine[u] /\ winHnd'[u] = winHnd[u]
    BY DEF OthersStand
  <2>2. winAt[u] \in InList => winMine[u] \in 1 .. Len(procs)
    BY DEF Held, Holds, Mine, InList, HasProcess
  <2>3. winAt[u] \in InList => procs'[winMine[u]].pid = procs[winMine[u]].pid
    BY <2>2 DEF ProcsKept
  <2> QED
    BY <2>1, <2>3 DEF EntryOf
<1>2. ListRight
  BY DEF Held
<1>3. ASSUME NEW k \in 1 .. Len(children.entries)
      PROVE  \E u \in WinThread : winAt'[u] \in InList /\ children.entries[k] = EntryOf(u)'
  <2>1. PICK u \in WinThread : winAt[u] \in InList /\ children.entries[k] = EntryOf(u)
    BY <1>2 DEF ListRight
  <2> QED
    BY <1>1, <2>1
<1>4. ASSUME NEW u \in WinThread, winAt'[u] \in InList
      PROVE  \E k \in 1 .. Len(children.entries) : children.entries[k] = EntryOf(u)'
  <2>1. winAt[u] \in InList /\ EntryOf(u)' = EntryOf(u)
    BY <1>1, <1>4
  <2> QED
    BY <1>2, <2>1 DEF ListRight
<1>5. \A k, l \in 1 .. Len(children.entries) :
        children.entries[k].pid = children.entries[l].pid => k = l
  BY <1>2 DEF ListRight
<1> QED
  BY <1>3, <1>4, <1>5 DEF ListRight

\* The descriptors stay as they are while no thread enters execwait.
LEMMA FdsKept ==
    ASSUME \A u \in WinThread : winAt'[u] \in {"execwait", "gone"} <=> winAt[u] \in {"execwait", "gone"}
    PROVE  OpenFd' = OpenFd /\ FdHandles' = FdHandles
<1>1. OpenFd' = OpenFd
  BY DEF OpenFd
<1> QED
  BY <1>1 DEF FdHandles, _get_osfhandle

\* Processes are added, and one that has ended stays as it is.
ProcsGrow ==
    /\ ProcsKept
    /\ \A i \in 1 .. Len(procs) : procs[i].state # Alive => procs'[i].state = procs[i].state
CallsStand(t) ==
    \A u \in WinThread : u # t => winCall'[u] = winCall[u] /\ winCode'[u] = winCode[u]

\* A step of one thread leaves the others what they have been told.
LEMMA OthersTold ==
    ASSUME NEW t \in WinThread, NEW u \in WinThread, u # t, OthersStand(t), CallsStand(t), ProcsGrow,
           self' = self \/ (self' # "running" /\ winAt[u] \notin {"gone", "execwait"}),
           Called(u), Told(u)
    PROVE  Called(u)' /\ Told(u)'
<1>1. /\ winAt'[u] = winAt[u] /\ winMine'[u] = winMine[u] /\ winCall'[u] = winCall[u]
      /\ winCode'[u] = winCode[u]
  BY DEF OthersStand, CallsStand
<1>2. Ended(u) => Ended(u)' /\ procs'[winMine[u]].state = procs[winMine[u]].state
  <2> SUFFICES ASSUME Ended(u)
               PROVE  Ended(u)' /\ procs'[winMine[u]].state = procs[winMine[u]].state
    OBVIOUS
  <2>1. winMine[u] \in 1 .. Len(procs) /\ procs[winMine[u]].state # Alive
        /\ procs[winMine[u]].state \in ExitCode
    BY DEF Ended, Mine, ExitCode, Alive
  <2>2. winMine[u] \in 1 .. Len(procs')
    BY <2>1 DEF ProcsGrow, ProcsKept
  <2>3. procs'[winMine[u]].state = procs[winMine[u]].state
    BY <2>1 DEF ProcsGrow
  <2> QED
    BY <1>1, <2>1, <2>2, <2>3 DEF Ended, Mine
<1>3. Called(u)'
  BY <1>1 DEF Called
<1>4. (winAt[u] = "done" /\ winCode[u] # "none" =>
        Ended(u) /\ winCode[u] = translate_exitcode_in_status(procs[winMine[u]].state))'
  BY <1>1, <1>2 DEF Told
<1>5. (winAt[u] \in HasRead => Ended(u) /\ winCode[u] = procs[winMine[u]].state)'
  BY <1>1, <1>2 DEF Told
<1>6. (winAt[u] = "gone" /\ self # "running" => Ended(u) /\ self = procs[winMine[u]].state)'
  BY <1>1, <1>2 DEF Told
<1>7. Doomed(u) => Doomed(u)'
  BY <1>1 DEF Doomed, Mine, ProcsGrow, ProcsKept
<1>8. (winAt[u] = "execwait" /\ self # "running" => Doomed(u))'
  BY <1>1, <1>7 DEF Told
<1> QED
  BY <1>3, <1>4, <1>5, <1>6, <1>8 DEF Told

\* What a step of thread t has to show when it does not touch the descriptors.
Local(t) ==
    /\ OthersStand(t) /\ CallsStand(t) /\ ProcsGrow /\ TouchesOwn(t)
    /\ winAt[t] \notin {"execwait", "gone"} /\ winAt'[t] \notin {"execwait", "gone"}
    /\ toExit' = toExit /\ self' = self
    /\ \A h \in winCfg'[t].inherited : h \in winCfg[t].inherited \/ hnds[h] = FreeSlot
    /\ winAt'[t] \in HasProcess =>
        (winAt[t] \in HasProcess /\ winMine'[t] = winMine[t]) \/ winMine'[t] = Len(procs) + 1

\* What is left to show of a step of thread t concerns t alone.
LEMMA LocalStep ==
    ASSUME WinInv, self = "running", NEW t \in WinThread, Local(t),
           WinTypeOK', Called(t)', Told(t)', Holds(t)', PidsDiffer', ListRight'
    PROVE  WinInv'
<1>0. WinTypeOK /\ Held /\ \A u \in WinThread : Called(u) /\ Told(u)
  BY DEF WinInv
<1>1. OpenFd' = OpenFd /\ FdHandles' = FdHandles
  <2>1. \A u \in WinThread : winAt'[u] \in {"execwait", "gone"} <=> winAt[u] \in {"execwait", "gone"}
    BY DEF Local, OthersStand
  <2> QED
    BY <2>1, FdsKept
<1>2. TableRight' /\ FdFiles' /\ \A u \in WinThread : u # t => Holds(u)'
  <2>1. OthersStand(t) /\ ProcsKept /\ TouchesOwn(t) /\ toExit' = toExit
    BY DEF Local, ProcsGrow
  <2> QED
    BY <1>0, <1>1, <2>1, OthersKeep
<1>3. Apart'
  <2>1. /\ OthersStand(t)
        /\ \A h \in winCfg'[t].inherited : h \in winCfg[t].inherited \/ hnds[h] = FreeSlot
        /\ winAt'[t] \in HasProcess =>
            (winAt[t] \in HasProcess /\ winMine'[t] = winMine[t]) \/ winMine'[t] = Len(procs) + 1
    BY DEF Local
  <2> QED
    BY <1>0, <2>1, ApartKept
<1>4. \A u \in WinThread : u # t => Called(u)' /\ Told(u)'
  <2> SUFFICES ASSUME NEW u \in WinThread, u # t PROVE Called(u)' /\ Told(u)'
    OBVIOUS
  <2>1. OthersStand(t) /\ CallsStand(t) /\ ProcsGrow /\ self' = self
    BY DEF Local
  <2> QED
    BY <1>0, <2>1, OthersTold
<1>5. Held'
  BY <1>2, <1>3 DEF Held
<1> QED
  BY <1>4, <1>5 DEF WinInv

\* A step that changes no handle, no process and no entry.
LEMMA QuietStep ==
    ASSUME WinInv, self = "running", NEW t \in WinThread, OthersStand(t), CallsStand(t),
           winHnd' = winHnd,
           UNCHANGED <<winCfg, winPid, winMine, hnds, procs, children, toExit, self>>,
           winAt'[t] \in HasProcess <=> winAt[t] \in HasProcess,
           winAt'[t] \in InList <=> winAt[t] \in InList,
           winAt'[t] \notin Inheriting => winAt[t] \notin Inheriting,
           winAt[t] \notin {"execwait", "gone"}, winAt'[t] \notin {"execwait", "gone"},
           winAt' \in [WinThread -> WinLabel],
           winCall' = [u \in WinThread |-> winCall'[u]], winCode' = [u \in WinThread |-> winCode'[u]],
           Called(t)', Told(t)'
    PROVE  WinInv'
<1>0. WinTypeOK /\ Held /\ Holds(t) /\ PidsDiffer
  BY DEF WinInv, Held
<1>1. PICK S : procs \in Seq(S)
  BY <1>0 DEF WinTypeOK
<1>2. ProcsGrow /\ ProcsKept
  BY <1>1 DEF ProcsGrow, ProcsKept
<1>3. \A h : Owns(t, h)' <=> Owns(t, h)
  BY DEF Owns
<1>4. TouchesOwn(t)
  BY <1>0, <1>3, OwnersApart DEF TouchesOwn
<1>5. Local(t)
  BY <1>2, <1>4 DEF Local
<1>6. WinTypeOK'
  BY <1>0 DEF WinTypeOK, IsProc
<1>7. Holds(t)'
  <2>1. winAt'[t] \in InList => winAt[t] \in InList
    OBVIOUS
  <2>2. Mine(t)' <=> Mine(t)
    BY DEF Mine
  <2> QED
    BY <1>0, <2>1, <2>2 DEF Holds
<1>8. PidsDiffer'
  BY <1>0, PidsKept
<1>9. ListRight'
  BY <1>0, <1>2, ListKept
<1> QED
  BY <1>5, <1>6, <1>7, <1>8, <1>9, LocalStep

-----------------------------------------------------------------------------
(***************************************************************************)
(* The invariant holds at the start, and a step that changes little keeps  *)
(* it                                                                      *)
(***************************************************************************)
\* The invariant holds when the process starts.
LEMMA WinStarts ==
    ASSUME WinInit
    PROVE  WinInv
<1> USE DEF WinInit
<1>1. \A t \in WinThread : winAt[t] = "idle" /\ winCfg[t] = NoConfig /\ winCode[t] = "none"
  OBVIOUS
<1>2. \A t \in WinThread : winCfg[t].inherited = {}
  BY <1>1 DEF NoConfig
<1>3. procs = <<>> /\ Len(procs) = 0 /\ procs \in Seq({})
  OBVIOUS
<1>4. hnds \in [Handle -> SlotRec]
  <2>1. \A h \in 1 .. 4 : Slot(FileObj(h - 1), FALSE) \in SlotRec
    <3> SUFFICES ASSUME NEW h \in 1 .. 4 PROVE Slot(FileObj(h - 1), FALSE) \in SlotRec
      OBVIOUS
    <3>1. FileObj(h - 1) \in Objects
      <4>1. h - 1 \in 0 .. 3
        OBVIOUS
      <4> QED
        BY <4>1 DEF Objects, FileObjects
    <3> QED
      BY <3>1, SlotIs
  <2>2. \A h \in Handle : hnds[h] \in SlotRec
    BY <2>1, SlotIs
  <2> QED
    BY <2>2
<1>5. children \in [entries : Seq(ChildRec), num_max : Nat] /\ children.entries = <<>>
      /\ Len(children.entries) = 0
  OBVIOUS
<1>6. WinTypeOK
  <2>1. winAt \in [WinThread -> WinLabel]
    BY DEF WinLabel
  <2>2. \E S : procs \in Seq(S)
    BY <1>3
  <2>3. \A i \in 1 .. Len(procs) : IsProc(procs[i])
    BY <1>3
  <2>4. winPid \in [WinThread -> Nat] /\ winMine \in [WinThread -> Nat] /\ winHnd \in [WinThread -> Handle \cup {0}]
    OBVIOUS
  <2>5. /\ winCall = [t \in WinThread |-> winCall[t]] /\ winCfg = [t \in WinThread |-> winCfg[t]]
        /\ winCode = [t \in WinThread |-> winCode[t]]
    OBVIOUS
  <2>6. toExit \in Handle \cup {0} /\ self \in ExitCode \cup {"running"}
    OBVIOUS
  <2> HIDE DEF WinInit
  <2> QED
    BY <1>4, <1>5, <2>1, <2>2, <2>3, <2>4, <2>5, <2>6 DEF WinTypeOK
<1>7. \A t \in WinThread : Called(t) /\ Told(t)
  BY <1>1 DEF Called, Told, HasRead
<1>8. OpenFd = 0 .. 3
  BY <1>1 DEF OpenFd
<1>9. TableRight
  <2>1. \A t \in WinThread : \A h : ~Owns(t, h)
    BY <1>1, <1>2 DEF Owns, HasProcess
  <2>2. \A h : h \in FdHandles <=> h \in 1 .. 4
    <3>1. FdHandles = {fd + 1 : fd \in 0 .. 3}
      BY <1>8, HandlesAre
    <3>2. \A h \in 1 .. 4 : h - 1 \in 0 .. 3 /\ h = (h - 1) + 1
      OBVIOUS
    <3>3. \A fd \in 0 .. 3 : fd + 1 \in 1 .. 4
      OBVIOUS
    <3> QED
      BY <3>1, <3>2, <3>3
  <2>3. \A h \in Handle : h \in 1 .. 4 => hnds[h] # FreeSlot
    <3> SUFFICES ASSUME NEW h \in Handle, h \in 1 .. 4 PROVE hnds[h] # FreeSlot
      OBVIOUS
    <3>1. hnds[h] = Slot(FileObj(h - 1), FALSE)
      OBVIOUS
    <3>2. hnds[h].obj = FileObj(h - 1)
      BY <3>1, SlotIs
    <3> QED
      BY <3>2, SlotIs, ObjectsDiffer
  <2>4. \A h \in Handle : h \notin 1 .. 4 => hnds[h] = FreeSlot
    OBVIOUS
  <2> QED
    BY <2>1, <2>2, <2>3, <2>4 DEF TableRight
<1>10. FdFiles
  <2> SUFFICES ASSUME NEW fd \in 0 .. 3 PROVE hnds[fd + 1] = Slot(FileObj(fd), FALSE)
    BY <1>8 DEF FdFiles
  <2>1. fd + 1 \in 1 .. 4 /\ fd + 1 \in Handle /\ (fd + 1) - 1 = fd
    BY HandlesAre
  <2> QED
    BY <2>1
<1>11. \A t \in WinThread : Holds(t)
  BY <1>1, <1>2 DEF Holds, HasProcess, InList
<1>12. Apart
  BY <1>1, <1>2 DEF Apart, HasProcess
<1>13. PidsDiffer
  BY <1>3 DEF PidsDiffer
<1>14. ListRight
  BY <1>1, <1>5 DEF ListRight, InList
<1> QED
  BY <1>6, <1>7, <1>9, <1>10, <1>11, <1>12, <1>13, <1>14 DEF WinInv, Held

\* The invariant does not depend on anything else.
LEMMA WinStutters ==
    ASSUME WinInv, UNCHANGED winVars
    PROVE  WinInv'
<1> USE DEF winVars
<1>1. WinTypeOK'
  BY DEF WinInv, WinTypeOK
<1>2. \A t \in WinThread : Called(t)' /\ Told(t)'
  BY DEF WinInv, Called, Told, Ended, Doomed, Mine
<1>3. OpenFd' = OpenFd /\ FdHandles' = FdHandles
  BY FdsKept
<1>4. ASSUME Held PROVE Held'
  <2>1. TableRight' /\ FdFiles'
    BY <1>3, <1>4 DEF Held, TableRight, FdFiles, Owns
  <2>2. \A t \in WinThread : Holds(t)'
    BY <1>4 DEF Held, Holds, Mine
  <2>3. Apart' /\ PidsDiffer' /\ ListRight'
    BY <1>4 DEF Held, Apart, PidsDiffer, InUse, ListRight, EntryOf
  <2> QED
    BY <2>1, <2>2, <2>3 DEF Held
<1> QED
  BY <1>1, <1>2, <1>4 DEF WinInv

\* Where a thread goes, the others stay.
LEMMA WinGotoIs ==
    ASSUME WinTypeOK, NEW t \in WinThread, NEW l \in WinLabel, WinGoto(t, l)
    PROVE  /\ winAt' \in [WinThread -> WinLabel] /\ winAt'[t] = l
           /\ \A u \in WinThread : u # t => winAt'[u] = winAt[u]
BY DEF WinTypeOK, WinGoto

\* mm_spawn() begins: arguments are checked, nothing is opened.
LEMMA SpawnCalled ==
    ASSUME WinInv, NEW t \in WinThread, CallSpawn(t)
    PROVE  WinInv'
<1> USE DEF CallSpawn, Now
<1>0. WinTypeOK /\ Called(t) /\ self = "running" /\ winAt[t] = "idle"
  BY DEF WinInv
<1>1. PICK c \in WinCalls :
        /\ c.exec => t = ExecThread
        /\ winCall' = [winCall EXCEPT ![t] = c]
        /\ WinGoto(t, IF c.keepfds \/ search_bin_in_path(c.path) # "ok" THEN "done" ELSE "config")
  OBVIOUS
<1>2. PICK l \in {"done", "config"} : WinGoto(t, l)
  BY <1>1
<1>3. /\ winAt' \in [WinThread -> WinLabel] /\ winAt'[t] = l
      /\ \A u \in WinThread : u # t => winAt'[u] = winAt[u]
  BY <1>0, <1>2, WinGotoIs DEF WinLabel
<1>4. /\ winCall' = [u \in WinThread |-> winCall'[u]] /\ winCall'[t] = c
      /\ \A u \in WinThread : u # t => winCall'[u] = winCall[u]
  BY <1>0, <1>1 DEF WinTypeOK
<1>5. winCode' = winCode /\ winCode[t] = "none"
  BY <1>0 DEF Called, HasRead
<1>6. OthersStand(t) /\ CallsStand(t)
  BY <1>3, <1>4 DEF OthersStand, CallsStand
<1>7. Called(t)'
  BY <1>0, <1>1, <1>3, <1>4, <1>5 DEF Called
<1>8. Told(t)'
  BY <1>3, <1>5 DEF Told, HasRead
<1>9. winAt'[t] \notin HasProcess /\ winAt'[t] \notin InList /\ winAt'[t] \notin Inheriting
      /\ winAt[t] \notin HasProcess /\ winAt[t] \notin InList /\ winAt[t] \notin Inheriting
      /\ winAt'[t] \notin {"execwait", "gone"}
  BY <1>0, <1>3 DEF HasProcess, InList, Inheriting
<1>10. winCode' = [u \in WinThread |-> winCode'[u]]
  BY <1>0 DEF WinTypeOK
<1> QED
  BY <1>0, <1>3, <1>4, <1>6, <1>7, <1>8, <1>9, <1>10, QuietStep

\* A step that only goes on, within the same part of a call.
LEMMA GoesOn ==
    ASSUME WinInv, self = "running", NEW t \in WinThread, NEW l \in WinLabel, WinGoto(t, l),
           UNCHANGED <<winCall, winCfg, winPid, winMine, winCode, winHnd, hnds, procs, children, toExit, self>>,
           l \in HasProcess <=> winAt[t] \in HasProcess,
           l \in InList <=> winAt[t] \in InList,
           l \notin Inheriting => winAt[t] \notin Inheriting,
           winAt[t] \notin {"idle", "execwait", "gone"}, l \notin {"execwait", "gone", "exec"},
           winAt[t] \notin HasRead \cup {"done"}, l \notin HasRead
    PROVE  WinInv'
<1>0. WinTypeOK /\ Called(t)
  BY DEF WinInv
<1>1. /\ winAt' \in [WinThread -> WinLabel] /\ winAt'[t] = l
      /\ \A u \in WinThread : u # t => winAt'[u] = winAt[u]
  BY <1>0, WinGotoIs
<1>2. OthersStand(t) /\ CallsStand(t)
  BY <1>1 DEF OthersStand, CallsStand
<1>3. winCode[t] = "none" /\ winCode'[t] = "none"
  BY <1>0 DEF Called
<1>4. Called(t)'
  BY <1>0, <1>1, <1>3 DEF Called
<1>5. Told(t)'
  BY <1>1, <1>3 DEF Told
<1>6. winCall' = [u \in WinThread |-> winCall'[u]] /\ winCode' = [u \in WinThread |-> winCode'[u]]
  BY <1>0 DEF WinTypeOK
<1> QED
  BY <1>1, <1>2, <1>4, <1>5, <1>6, QuietStep

-----------------------------------------------------------------------------
(***************************************************************************)
(* Waiting, and closing                                                    *)
(***************************************************************************)
\* The identifier of a thread leads to its own entry of the list.
LEMMA ListFinds ==
    ASSUME WinTypeOK, Held, NEW t \in WinThread, winAt[t] \in InList
    PROVE  /\ Entries(winPid[t]) # {} /\ Min(Entries(winPid[t])) \in 1 .. Len(children.entries)
           /\ children.entries[Min(Entries(winPid[t]))] = EntryOf(t)
           /\ get_handle_from_children_list(winPid[t]) = winHnd[t] /\ winHnd[t] \in Handle
<1> DEFINE E == Entries(winPid[t])
<1>1. winPid[t] = procs[winMine[t]].pid /\ winHnd[t] \in Handle
  BY DEF Held, Holds, InList, HasProcess
<1>2. PICK k \in 1 .. Len(children.entries) : children.entries[k] = EntryOf(t)
  BY DEF Held, ListRight
<1>3. children.entries[k].pid = winPid[t]
  BY <1>1, <1>2 DEF EntryOf
<1>4. k \in E /\ E \subseteq Nat
  BY <1>3 DEF Entries
<1>5. Min(E) \in E
  BY <1>4, MinIs
<1>6. Min(E) \in 1 .. Len(children.entries) /\ children.entries[Min(E)].pid = winPid[t]
  BY <1>5 DEF Entries
<1>7. Min(E) = k
  BY <1>3, <1>6 DEF Held, ListRight
<1>8. get_handle_from_children_list(winPid[t]) = winHnd[t]
  BY <1>2, <1>4, <1>7 DEF get_handle_from_children_list, EntryOf
<1> QED
  BY <1>1, <1>2, <1>4, <1>6, <1>7, <1>8

\* get_handle_from_children_list() finds the handle of the child of the caller.
LEMMA HandleFound ==
    ASSUME WinInv, NEW t \in WinThread, GetHandle(t)
    PROVE  WinInv'
<1> USE DEF GetHandle, Now
<1>0. WinTypeOK /\ Held /\ self = "running" /\ winAt[t] = "spawned"
  BY DEF WinInv
<1>1. get_handle_from_children_list(winPid[t]) = winHnd[t] /\ winHnd[t] \in Handle
  BY <1>0, ListFinds DEF InList
<1>2. winHnd' = winHnd
  BY <1>0, <1>1 DEF WinTypeOK
<1>3. WinGoto(t, "wait")
  BY <1>1, <1>2, HandlesAre
<1> QED
  BY <1>0, <1>2, <1>3, GoesOn DEF WinLabel, HasProcess, InList, HasRead, Inheriting

\* The handle of a thread is that of its process.
LEMMA HandleTells ==
    ASSUME WinTypeOK, NEW t \in WinThread, Holds(t), winAt[t] \in HasProcess
    PROVE  /\ Mine(t) /\ hnds[winHnd[t]].obj = ProcObj(winMine[t])
           /\ Signaled(winHnd[t]) <=> Ended(t)
           /\ CodeOf(winHnd[t]) = procs[winMine[t]].state
<1>1. Mine(t) /\ hnds[winHnd[t]].obj = ProcObj(winMine[t])
  BY SlotIs DEF Holds
<1>2. hnds[winHnd[t]].obj # NoObject
  BY <1>1, ObjectsDiffer
<1>3. Signaled(winHnd[t]) <=> Ended(t)
  BY <1>1, <1>2, ObjectsDiffer DEF Signaled, Ended, Mine
<1>4. CodeOf(winHnd[t]) = procs[winMine[t]].state
  <2>1. hnds[winHnd[t]].obj[2] = winMine[t]
    BY <1>1, ObjectsDiffer
  <2> QED
    BY <1>2, <2>1 DEF CodeOf
<1> QED
  BY <1>1, <1>3, <1>4

\* GetExitCodeProcess() reads the code of the child of the caller.
LEMMA ExitRead ==
    ASSUME WinInv, NEW t \in WinThread, WaitExit(t)
    PROVE  WinInv'
<1> USE DEF WaitExit, Now
<1>0. WinTypeOK /\ Held /\ Called(t) /\ Holds(t) /\ self = "running" /\ winAt[t] = "wait"
  BY DEF WinInv, Held
<1>1. Ended(t) /\ CodeOf(winHnd[t]) = procs[winMine[t]].state
  BY <1>0, HandleTells DEF HasProcess
<1>2. /\ winAt' \in [WinThread -> WinLabel] /\ winAt'[t] = "drop"
      /\ \A u \in WinThread : u # t => winAt'[u] = winAt[u]
  BY <1>0, WinGotoIs DEF WinLabel, HasProcess
<1>3. /\ winCode' = [u \in WinThread |-> winCode'[u]] /\ winCode'[t] = procs[winMine[t]].state
      /\ \A u \in WinThread : u # t => winCode'[u] = winCode[u]
  BY <1>0, <1>1 DEF WinTypeOK
<1>4. OthersStand(t) /\ CallsStand(t)
  BY <1>2, <1>3 DEF OthersStand, CallsStand
<1>5. Called(t)'
  BY <1>0, <1>2 DEF Called, HasRead
<1>6. Told(t)'
  <2>1. Ended(t)'
    BY <1>1 DEF Ended, Mine
  <2> QED
    BY <1>2, <1>3, <2>1 DEF Told
<1>7. winCall' = [u \in WinThread |-> winCall'[u]]
  BY <1>0 DEF WinTypeOK
<1>8. /\ winAt'[t] \in HasProcess /\ winAt[t] \in HasProcess /\ winAt'[t] \in InList /\ winAt[t] \in InList
      /\ winAt[t] \notin Inheriting /\ winAt[t] \notin {"execwait", "gone"}
      /\ winAt'[t] \notin {"execwait", "gone"}
  BY <1>0, <1>2 DEF HasProcess, InList, Inheriting
<1> QED
  BY <1>0, <1>2, <1>3, <1>4, <1>5, <1>6, <1>7, <1>8, QuietStep

\* The types of what the threads keep.
ThreadsTyped ==
    /\ winAt \in [WinThread -> WinLabel]
    /\ winCall = [t \in WinThread |-> winCall[t]]
    /\ winCfg = [t \in WinThread |-> winCfg[t]]
    /\ winPid \in [WinThread -> Nat]
    /\ winHnd \in [WinThread -> Handle \cup {0}]
    /\ winMine \in [WinThread -> Nat]
    /\ winCode = [t \in WinThread |-> winCode[t]]

\* A thread closes handles it has to close.
Closes(t, H) ==
    /\ \A h \in H : Owns(t, h)
    /\ hnds' = CloseHandle(hnds, H)
    /\ \A h : Owns(t, h)' <=> Owns(t, h) /\ h \notin H
    /\ procs' = procs /\ children' = children /\ toExit' = toExit /\ self' = self
    /\ winAt'[t] \in HasProcess => winAt[t] \in HasProcess /\ winMine'[t] = winMine[t]
    /\ winAt[t] \notin {"execwait", "gone"} \cup InList /\ winAt'[t] \notin {"execwait", "gone"} \cup InList
    /\ winCfg'[t].inherited \subseteq winCfg[t].inherited

\* CloseHandle() frees the handles it is given, and no other.
LEMMA CloseIs ==
    ASSUME WinTypeOK, NEW H
    PROVE  /\ CloseHandle(hnds, H) \in [Handle -> SlotRec]
           /\ \A h \in Handle : CloseHandle(hnds, H)[h] = IF h \in H THEN FreeSlot ELSE hnds[h]
<1>1. \A h \in Handle : CloseHandle(hnds, H)[h] = IF h \in H THEN FreeSlot ELSE hnds[h]
  BY DEF CloseHandle
<1>2. \A h \in Handle : hnds[h] \in SlotRec
  BY DEF WinTypeOK
<1>3. \A h \in Handle : CloseHandle(hnds, H)[h] \in SlotRec
  BY <1>1, <1>2, SlotIs
<1> QED
  BY <1>1, <1>3 DEF CloseHandle

\* A step that only closes handles of its own keeps the invariant.
LEMMA ClosingStep ==
    ASSUME WinInv, self = "running", NEW t \in WinThread, NEW H, Closes(t, H), ThreadsTyped',
           OthersStand(t), CallsStand(t), Called(t)', Told(t)', Holds(t)'
    PROVE  WinInv'
<1> USE DEF Closes
<1>0. WinTypeOK /\ Held /\ PidsDiffer
  BY DEF WinInv, Held
<1>1. PICK S : procs \in Seq(S)
  BY <1>0 DEF WinTypeOK
<1>2. ProcsGrow /\ ProcsKept
  BY <1>1 DEF ProcsGrow, ProcsKept
<1>3. /\ hnds' \in [Handle -> SlotRec]
      /\ \A h \in Handle : hnds'[h] = IF h \in H THEN FreeSlot ELSE hnds[h]
  BY <1>0, CloseIs
<1>4. \A h : Owns(t, h) => hnds[h] # FreeSlot
  BY <1>0, OwnersApart
<1>5. TouchesOwn(t)
  BY <1>3, <1>4 DEF TouchesOwn
<1>6. Local(t)
  BY <1>2, <1>5 DEF Local
<1>7. WinTypeOK'
  <2>1. \A i \in 1 .. Len(procs') : IsProc(procs'[i])
    BY <1>0 DEF WinTypeOK
  <2>2. \E Q : procs' \in Seq(Q)
    BY <1>1
  <2>3. children' \in [entries : Seq(ChildRec), num_max : Nat] /\ toExit' \in Handle \cup {0}
        /\ self' \in ExitCode \cup {"running"}
    BY <1>0 DEF WinTypeOK
  <2>4. Handle' = Handle /\ ChildRec' = ChildRec /\ SlotRec' = SlotRec /\ ExitCode' = ExitCode
    OBVIOUS
  <2> QED
    BY <1>3, <2>1, <2>2, <2>3, <2>4 DEF WinTypeOK, ThreadsTyped
<1>8. PidsDiffer'
  <2>1. \A h \in Handle : hnds'[h].obj = hnds[h].obj \/ \A i : hnds'[h].obj # ProcObj(i)
    BY <1>3, SlotIs, ObjectsDiffer
  <2> QED
    BY <1>0, <2>1, PidsKept
<1>9. ListRight'
  BY <1>0, <1>2, ListKept
<1> QED
  BY <1>6, <1>7, <1>8, <1>9, LocalStep

\* mm_wait_process() closes the handle of the child it has waited for.
LEMMA ChildClosed ==
    ASSUME WinInv, NEW t \in WinThread, CloseChild(t)
    PROVE  WinInv'
<1> USE DEF CloseChild, Now
<1>0. WinTypeOK /\ Held /\ Called(t) /\ Told(t) /\ Holds(t) /\ self = "running" /\ winAt[t] = "close"
  BY DEF WinInv, Held
<1>1. /\ winAt' \in [WinThread -> WinLabel] /\ winAt'[t] = "done"
      /\ \A u \in WinThread : u # t => winAt'[u] = winAt[u]
  BY <1>0, WinGotoIs DEF WinLabel
<1>2. /\ winCode' = [u \in WinThread |-> winCode'[u]]
      /\ winCode'[t] = translate_exitcode_in_status(winCode[t])
      /\ \A u \in WinThread : u # t => winCode'[u] = winCode[u]
  BY <1>0 DEF WinTypeOK
<1>3. OthersStand(t) /\ CallsStand(t)
  BY <1>1, <1>2 DEF OthersStand, CallsStand
<1>4. ThreadsTyped'
  BY <1>0, <1>1, <1>2 DEF WinTypeOK, ThreadsTyped
<1>5. winCfg[t].inherited = {}
  BY <1>0 DEF Holds, Inheriting
<1>6. Closes(t, {winHnd[t]})
  <2>1. \A h : Owns(t, h) <=> h = winHnd[t]
    BY <1>0, <1>5 DEF Owns, HasProcess
  <2>2. \A h : ~Owns(t, h)'
    BY <1>1, <1>5 DEF Owns, HasProcess
  <2>3. /\ winAt'[t] \notin HasProcess /\ winAt[t] \notin {"execwait", "gone"} \cup InList
        /\ winAt'[t] \notin {"execwait", "gone"} \cup InList
    BY <1>0, <1>1 DEF HasProcess, InList
  <2> QED
    BY <2>1, <2>2, <2>3 DEF Closes
<1>7. Called(t)'
  BY <1>0, <1>1 DEF Called, HasRead
<1>8. Told(t)'
  <2>1. Ended(t) /\ winCode[t] = procs[winMine[t]].state
    BY <1>0 DEF Told, HasRead
  <2>2. Ended(t)'
    BY <2>1 DEF Ended, Mine
  <2> QED
    BY <1>1, <1>2, <2>1, <2>2 DEF Told, HasRead
<1>9. Holds(t)'
  BY <1>1, <1>5 DEF Holds, HasProcess, InList
<1> QED
  BY <1>0, <1>3, <1>4, <1>6, <1>7, <1>8, <1>9, ClosingStep

\* The handle of a daemon is closed at once.
LEMMA DaemonForgotten ==
    ASSUME WinInv, NEW t \in WinThread, ForgetDaemon(t)
    PROVE  WinInv'
<1> USE DEF ForgetDaemon, Now
<1>0. WinTypeOK /\ Held /\ Called(t) /\ Holds(t) /\ self = "running" /\ winAt[t] = "register"
  BY DEF WinInv, Held
<1>1. /\ winAt' \in [WinThread -> WinLabel] /\ winAt'[t] = "done"
      /\ \A u \in WinThread : u # t => winAt'[u] = winAt[u]
  BY <1>0, WinGotoIs DEF WinLabel
<1>2. winMine' \in [WinThread -> Nat] /\ \A u \in WinThread : u # t => winMine'[u] = winMine[u]
  BY <1>0 DEF WinTypeOK
<1>3. OthersStand(t) /\ CallsStand(t)
  BY <1>1, <1>2 DEF OthersStand, CallsStand
<1>4. ThreadsTyped'
  BY <1>0, <1>1, <1>2 DEF WinTypeOK, ThreadsTyped
<1>5. winCfg[t].inherited = {}
  BY <1>0 DEF Holds, Inheriting
<1>6. Closes(t, {winHnd[t]})
  <2>1. \A h : Owns(t, h) <=> h = winHnd[t]
    BY <1>0, <1>5 DEF Owns, HasProcess
  <2>2. \A h : ~Owns(t, h)'
    BY <1>1, <1>5 DEF Owns, HasProcess
  <2>3. /\ winAt'[t] \notin HasProcess /\ winAt[t] \notin {"execwait", "gone"} \cup InList
        /\ winAt'[t] \notin {"execwait", "gone"} \cup InList
    BY <1>0, <1>1 DEF HasProcess, InList
  <2> QED
    BY <2>1, <2>2, <2>3 DEF Closes
<1>7. Called(t)' /\ winCode'[t] = "none"
  BY <1>0, <1>1 DEF Called, HasRead
<1>8. Told(t)'
  BY <1>1, <1>7 DEF Told, HasRead
<1>9. Holds(t)'
  BY <1>1, <1>5 DEF Holds, HasProcess, InList
<1> QED
  BY <1>0, <1>3, <1>4, <1>6, <1>7, <1>8, <1>9, ClosingStep

\* startup_config_deinit() closes the duplicates, after success and failure.
LEMMA ConfigReleased ==
    ASSUME WinInv, NEW t \in WinThread, startup_config_deinit(t)
    PROVE  WinInv'
<1> DEFINE H == winCfg[t].inherited
<1>0. WinTypeOK /\ Held /\ Called(t) /\ Holds(t) /\ self = "running"
  BY DEF WinInv, Held, startup_config_deinit, Now
<1>1. PICK l \in {"register", "done"} :
        WinGoto(t, l) /\ winAt[t] = IF l = "register" THEN "created" ELSE "abort"
  BY DEF startup_config_deinit, Now
<1>2. /\ winAt' \in [WinThread -> WinLabel] /\ winAt'[t] = l
      /\ \A u \in WinThread : u # t => winAt'[u] = winAt[u]
  BY <1>0, <1>1, WinGotoIs DEF WinLabel, HasProcess
<1>3. /\ winCfg' = [u \in WinThread |-> winCfg'[u]] /\ winCfg'[t].inherited = {}
      /\ \A u \in WinThread : u # t => winCfg'[u] = winCfg[u]
  BY <1>0 DEF WinTypeOK, startup_config_deinit, NoConfig
<1>4. hnds' = CloseHandle(hnds, H) /\ UNCHANGED <<winCall, winPid, winHnd, winMine, winCode, procs, children, toExit, self>>
  BY DEF startup_config_deinit
<1>5. OthersStand(t) /\ CallsStand(t)
  BY <1>2, <1>3, <1>4 DEF OthersStand, CallsStand
<1>6. ThreadsTyped'
  BY <1>0, <1>2, <1>3, <1>4 DEF WinTypeOK, ThreadsTyped
<1>7. winAt[t] \in HasProcess => winHnd[t] \notin H
  BY <1>0, OwnersApart
<1>8. /\ winAt'[t] \in HasProcess <=> winAt[t] \in HasProcess
      /\ winAt[t] \notin {"execwait", "gone"} \cup InList /\ winAt'[t] \notin {"execwait", "gone"} \cup InList
  BY <1>1, <1>2 DEF HasProcess, InList
<1>9. Closes(t, H)
  <2>1. \A h \in H : Owns(t, h)
    BY DEF Owns
  <2>2. \A h : Owns(t, h)' <=> Owns(t, h) /\ h \notin H
    BY <1>3, <1>4, <1>7, <1>8 DEF Owns
  <2> QED
    BY <1>3, <1>4, <1>8, <2>1, <2>2 DEF Closes
<1>10. winCode[t] = "none" /\ winAt[t] # "idle"
  BY <1>0, <1>1 DEF Called, HasRead
<1>11. Called(t)'
  BY <1>0, <1>2, <1>4, <1>10 DEF Called
<1>12. Told(t)'
  BY <1>2, <1>4, <1>10 DEF Told, HasRead
<1>13. Holds(t)'
  <2>1. winAt'[t] \in HasProcess => /\ Mine(t)' /\ winHnd'[t] \in Handle
                                    /\ hnds'[winHnd'[t]] = Slot(ProcObj(winMine'[t]), FALSE)
    <3> SUFFICES ASSUME winAt[t] \in HasProcess
                 PROVE  Mine(t)' /\ winHnd[t] \in Handle /\ hnds'[winHnd[t]] = Slot(ProcObj(winMine[t]), FALSE)
      BY <1>4, <1>8
    <3>1. Mine(t) /\ winHnd[t] \in Handle /\ hnds[winHnd[t]] = Slot(ProcObj(winMine[t]), FALSE)
      BY <1>0 DEF Holds
    <3>2. hnds'[winHnd[t]] = hnds[winHnd[t]]
      <4>1. \A h \in Handle : CloseHandle(hnds, H)[h] = IF h \in H THEN FreeSlot ELSE hnds[h]
        BY <1>0, CloseIs
      <4> HIDE DEF H
      <4> QED
        BY <1>4, <1>7, <3>1, <4>1
    <3>3. Mine(t)'
      BY <1>4, <3>1 DEF Mine
    <3> QED
      BY <3>1, <3>2, <3>3
  <2>2. winAt'[t] \notin InList /\ winAt'[t] # "execwait"
    BY <1>8
  <2> QED
    BY <1>3, <2>1, <2>2 DEF Holds
<1> QED
  BY <1>0, <1>5, <1>6, <1>9, <1>11, <1>12, <1>13, ClosingStep

-----------------------------------------------------------------------------
(***************************************************************************)
(* Spawning                                                                *)
(***************************************************************************)
\* What startup_config_init() has set up before the handles are duplicated.
LEMMA ConfigMade ==
    ASSUME WinTypeOK, FdFiles, NEW m \in Seq(MapRec), ~Mapped(m).failed
    PROVE  /\ Mapped(m).num_fd \in Nat /\ FilesOnly(Mapped(m), Mapped(m).num_fd)
           /\ ConfigFor(Mapped(m), m, Mapped(m).num_fd)
<1> DEFINE c == Mapped(m)
           n == c.num_fd
<1>1. ConfigFor(c, m, n)
  BY MappedIs
<1> HIDE DEF c
<1>2. n \in Nat /\ c \in Config(n) /\ c.inherited = {}
  BY <1>1 DEF ConfigFor
<1>3. ASSUME NEW fd \in Fds(n), Inherited(c, fd) PROVE \E p \in OpenFd : c.hnd[fd] = p + 1
  <2>1. RowFor(c, fd, m)
    BY <1>1 DEF ConfigFor
  <2> QED
    BY <1>3, <2>1 DEF RowFor, Inherited
<1>4. FilesOnly(c, n)
  BY <1>2, <1>3 DEF FilesOnly, FdFiles, WinTypeOK
<1> QED
  BY <1>1, <1>2, <1>4 DEF c

\* Handles that are duplicated for the child of one thread.
Duplicates(d) ==
    /\ d.cfg.inherited \subseteq Handle /\ d.table \in [Handle -> SlotRec]
    /\ \A h \in Handle : h \notin d.cfg.inherited => d.table[h] = hnds[h]
    /\ \A h \in d.cfg.inherited :
        hnds[h] = FreeSlot /\ d.table[h].inherit /\ d.table[h].obj \in FileObjects

\* Duplicates that are made for one thread keep the invariant.
LEMMA DuplicatingStep ==
    ASSUME WinInv, self = "running", NEW t \in WinThread, winAt[t] = "config", NEW d, Duplicates(d),
           winCfg' = [winCfg EXCEPT ![t] = d.cfg], hnds' = d.table,
           NEW l \in {"create", "abort"}, WinGoto(t, l),
           UNCHANGED <<winCall, winPid, winHnd, winMine, winCode, procs, children, toExit, self>>
    PROVE  WinInv'
<1>0. WinTypeOK /\ Held /\ Called(t) /\ Holds(t) /\ PidsDiffer
  BY DEF WinInv, Held
<1>1. /\ winAt' \in [WinThread -> WinLabel] /\ winAt'[t] = l
      /\ \A u \in WinThread : u # t => winAt'[u] = winAt[u]
  BY <1>0, WinGotoIs DEF WinLabel, Inheriting
<1>2. /\ winCfg' = [u \in WinThread |-> winCfg'[u]] /\ winCfg'[t] = d.cfg
      /\ \A u \in WinThread : u # t => winCfg'[u] = winCfg[u]
  BY <1>0 DEF WinTypeOK
<1>3. OthersStand(t) /\ CallsStand(t)
  BY <1>1, <1>2 DEF OthersStand, CallsStand
<1>4. PICK S : procs \in Seq(S)
  BY <1>0 DEF WinTypeOK
<1>5. ProcsGrow /\ ProcsKept
  BY <1>4 DEF ProcsGrow, ProcsKept
<1>6. winCfg[t].inherited = {} /\ winAt[t] \notin HasProcess /\ winAt[t] \notin InList
  BY <1>0 DEF Holds, Inheriting, HasProcess, InList
<1>7. winAt'[t] \notin HasProcess /\ winAt'[t] \notin InList /\ winAt'[t] \notin {"execwait", "gone"}
      /\ winAt'[t] \in Inheriting /\ winAt[t] \notin {"execwait", "gone"}
  BY <1>1 DEF HasProcess, InList, Inheriting
<1>8. \A h : ~Owns(t, h) /\ (Owns(t, h)' <=> h \in d.cfg.inherited)
  BY <1>2, <1>6, <1>7 DEF Owns
<1>9. TouchesOwn(t)
  <2>1. \A h \in d.cfg.inherited : d.table[h] # FreeSlot
    BY SlotIs DEF Duplicates
  <2> QED
    BY <1>8, <2>1 DEF TouchesOwn, Duplicates
<1>10. \A h \in winCfg'[t].inherited : hnds[h] = FreeSlot
  BY <1>2 DEF Duplicates
<1>11. Local(t)
  BY <1>3, <1>5, <1>7, <1>9, <1>10 DEF Local
<1>12. WinTypeOK'
  <2>1. ThreadsTyped'
    BY <1>0, <1>1, <1>2 DEF WinTypeOK, ThreadsTyped
  <2>2. hnds' \in [Handle -> SlotRec]
    BY DEF Duplicates
  <2>3. /\ \A i \in 1 .. Len(procs') : IsProc(procs'[i])
        /\ children' \in [entries : Seq(ChildRec), num_max : Nat] /\ toExit' \in Handle \cup {0}
        /\ self' \in ExitCode \cup {"running"}
    BY <1>0 DEF WinTypeOK
  <2> QED
    BY <1>4, <2>1, <2>2, <2>3 DEF WinTypeOK, ThreadsTyped
<1>13. Called(t)' /\ winCode'[t] = "none"
  BY <1>0, <1>1 DEF Called, HasRead
<1>14. Told(t)'
  BY <1>1 DEF Told, HasRead
<1>15. Holds(t)'
  BY <1>2, <1>7 DEF Holds, Duplicates
<1>16. PidsDiffer'
  <2>1. \A h \in Handle : hnds'[h].obj = hnds[h].obj \/ \A i : hnds'[h].obj # ProcObj(i)
    BY ObjectsDiffer DEF Duplicates, FileObjects
  <2> QED
    BY <1>0, <2>1, PidsKept
<1>17. ListRight'
  BY <1>0, <1>3, <1>5, <1>6, <1>7, ListKept
<1> QED
  BY <1>11, <1>12, <1>13, <1>14, <1>15, <1>16, <1>17, LocalStep

\* What the child is told, once all handles are duplicated: the files that were
\* asked for, each by a duplicate that no other descriptor stands for.
ConfigRight(c, table, m) ==
    \E n \in Nat :
        /\ c \in Config(n)
        /\ \A fd \in Fds(n) :
            \/ AskedFile(m, fd) = NoObject /\ "FOPEN" \notin c.flags[fd]
            \/ \E p \in 0 .. 3 :
                /\ AskedFile(m, fd) = FileObj(p) /\ "FOPEN" \in c.flags[fd]
                /\ c.hnd[fd] \in c.inherited /\ table[c.hnd[fd]].obj = FileObj(p)
                /\ c.infos[fd] = get_fd_info(p)
        /\ \A h \in c.inherited : \E fd \in Fds(n) : "FOPEN" \in c.flags[fd] /\ c.hnd[fd] = h
        /\ \A fd \in Nat : fd \notin Fds(n) => AskedFile(m, fd) = NoObject

\* After the last turn of the loop the configuration is complete.
LEMMA ConfigComplete ==
    ASSUME NEW n \in Nat, NEW m, NEW c, FilesOnly(c, n), ConfigFor(c, m, n),
           NEW d, DupAt(d, c, n, n), ~d.cfg.failed
    PROVE  ConfigRight(d.cfg, d.table, m)
<1>1. d.cfg \in Config(n) /\ d.cfg.flags = c.flags /\ d.cfg.infos = c.infos
  BY DEF DupAt, Duped, Alike
<1>2. \A fd \in 0 .. n - 1 : fd \in Fds(n)
  BY RoundedUp DEF Fds
<1>3. \A fd \in Fds(n) : fd \in Nat /\ RowFor(c, fd, m)
  BY RoundedUp DEF ConfigFor, Fds
<1>4. ASSUME NEW fd \in Fds(n)
      PROVE  \/ AskedFile(m, fd) = NoObject /\ "FOPEN" \notin d.cfg.flags[fd]
             \/ \E p \in 0 .. 3 :
                /\ AskedFile(m, fd) = FileObj(p) /\ "FOPEN" \in d.cfg.flags[fd]
                /\ d.cfg.hnd[fd] \in d.cfg.inherited /\ d.table[d.cfg.hnd[fd]].obj = FileObj(p)
                /\ d.cfg.infos[fd] = get_fd_info(p)
  <2>1. CASE AskedFile(m, fd) = NoObject
    <3>1. c.flags[fd] = {}
      BY <1>3, <2>1, ObjectsDiffer DEF RowFor
    <3> QED
      BY <1>1, <2>1, <3>1
  <2>2. CASE AskedFile(m, fd) # NoObject
    <3>1. PICK p \in OpenFd : /\ AskedFile(m, fd) = FileObj(p)
                              /\ c.hnd[fd] = p + 1 /\ "FOPEN" \in c.flags[fd] /\ c.infos[fd] = get_fd_info(p)
      BY <1>3, <2>2 DEF RowFor
    <3>2. p \in 0 .. 3 /\ p + 1 # 0
      BY HandlesAre
    <3>3. Inherited(c, fd)
      BY <3>1, <3>2 DEF Inherited
    <3>4. fd \in 0 .. n - 1
      <4>1. ~(fd >= n)
        BY <1>3, <2>2 DEF ConfigFor
      <4> QED
        BY <1>3, <4>1
    <3>5. d.cfg.hnd[fd] \in d.cfg.inherited /\ d.table[d.cfg.hnd[fd]].obj = hnds[p + 1].obj
      BY <3>1, <3>3, <3>4 DEF DupAt
    <3>6. hnds[p + 1].obj = FileObj(p)
      BY SlotIs DEF FilesOnly
    <3> QED
      BY <1>1, <3>1, <3>2, <3>5, <3>6
  <2> QED
    BY <2>1, <2>2
<1>5. ASSUME NEW h \in d.cfg.inherited
      PROVE  \E fd \in Fds(n) : "FOPEN" \in d.cfg.flags[fd] /\ d.cfg.hnd[fd] = h
  <2>1. PICK fd \in 0 .. n - 1 : Inherited(c, fd) /\ d.cfg.hnd[fd] = h
    BY DEF DupAt
  <2> QED
    BY <1>1, <1>2, <2>1 DEF Inherited
<1>6. ASSUME NEW fd \in Nat, fd \notin Fds(n) PROVE AskedFile(m, fd) = NoObject
  <2>1. fd >= n
    BY <1>6, RoundedUp DEF Fds
  <2> QED
    BY <2>1 DEF ConfigFor
<1> QED
  BY <1>1, <1>4, <1>5, <1>6 DEF ConfigRight

\* startup_config_init() ends with handles that are duplicated, all of them when
\* the spawn goes on, or fails without an effect.
Initialises(t, d, l) ==
    /\ Duplicates(d) /\ l \in {"create", "abort"}
    /\ winCfg' = [winCfg EXCEPT ![t] = d.cfg] /\ hnds' = d.table /\ WinGoto(t, l)
    /\ l = "create" => ConfigRight(d.cfg, d.table, winCall[t].fd_map)

\* What startup_config_init() does, in one of three ways.
LEMMA InitIs ==
    ASSUME WinTypeOK, FdFiles, NEW t \in WinThread, winCall[t] \in WinCalls, startup_config_init(t)
    PROVE  /\ UNCHANGED <<winCall, winPid, winHnd, winMine, winCode, procs, children, toExit, self>>
           /\ \/ WinGoto(t, "done") /\ UNCHANGED <<winCfg, hnds>>
              \/ \E d, l : Initialises(t, d, l)
<1> DEFINE m == winCall[t].fd_map
           c == Mapped(m)
           n == c.num_fd
<1>1. UNCHANGED <<winCall, winPid, winHnd, winMine, winCode, procs, children, toExit, self>>
  BY DEF startup_config_init
<1>2. CASE c.failed
  <2>1. WinGoto(t, "done") /\ UNCHANGED <<winCfg, hnds>>
    BY <1>2 DEF startup_config_init
  <2> QED
    BY <1>1, <2>1
<1>3. CASE ~c.failed
  <2>1. PICK end \in LoopEnds(c) :
          LET dup == DupRun(c)[end]
          IN  /\ winCfg' = [winCfg EXCEPT ![t] = dup.cfg]
              /\ hnds' = dup.table
              /\ WinGoto(t, IF end = c.num_fd /\ ~dup.cfg.failed THEN "create" ELSE "abort")
    BY <1>3 DEF startup_config_init
  <2>2. m \in Seq(MapRec)
    BY ProcessAssumption DEF MapRec
  <2>3. n \in Nat /\ FilesOnly(c, n) /\ ConfigFor(c, m, n)
    BY <1>3, <2>2, ConfigMade
  <2> HIDE DEF c
  <2>4. end \in 0 .. n
    BY <2>1, <2>3 DEF LoopEnds
  <2> DEFINE d == DupRun(c)[end]
             l == IF end = n /\ ~d.cfg.failed THEN "create" ELSE "abort"
  <2>5. DupAt(d, c, end, n)
    BY <2>3, <2>4, DupsAre
  <2>6. winCfg' = [winCfg EXCEPT ![t] = d.cfg] /\ hnds' = d.table /\ WinGoto(t, l)
    BY <2>1
  <2>7. l \in {"create", "abort"} /\ (l = "create" => end = n /\ ~d.cfg.failed)
    OBVIOUS
  <2> HIDE DEF d, l, m, n
  <2>8. Duplicates(d)
    BY <2>5 DEF DupAt, Duped, Config, Duplicates
  <2>9. l = "create" => ConfigRight(d.cfg, d.table, m)
    BY <2>3, <2>5, <2>7, ConfigComplete
  <2>10. Initialises(t, d, l)
    BY <2>6, <2>7, <2>8, <2>9 DEF Initialises, m
  <2> QED
    BY <1>1, <2>10
<1> QED
  BY <1>2, <1>3

\* startup_config_init() keeps the invariant.
LEMMA ConfigInitialised ==
    ASSUME WinInv, NEW t \in WinThread, startup_config_init(t)
    PROVE  WinInv'
<1>0. /\ WinTypeOK /\ Held /\ FdFiles /\ winCall[t] \in WinCalls
      /\ self = "running" /\ winAt[t] = "config"
  BY DEF WinInv, Held, startup_config_init, Now, Called
<1>1. UNCHANGED <<winCall, winPid, winHnd, winMine, winCode, procs, children, toExit, self>>
  BY <1>0, InitIs
<1>2. ASSUME WinGoto(t, "done"), UNCHANGED <<winCfg, hnds>> PROVE WinInv'
  BY <1>0, <1>1, <1>2, GoesOn DEF WinLabel, HasProcess, InList, HasRead, Inheriting
<1>3. ASSUME NEW d, NEW l, Initialises(t, d, l) PROVE WinInv'
  BY <1>0, <1>1, <1>3, DuplicatingStep DEF Initialises
<1> QED
  BY <1>0, <1>2, <1>3, InitIs

\* A process more.
LEMMA OneMore ==
    ASSUME NEW S, NEW s \in Seq(S), NEW x
    PROVE  /\ Append(s, x) \in Seq(S \cup {x}) /\ Len(Append(s, x)) = Len(s) + 1
           /\ \A i \in 1 .. Len(s) : Append(s, x)[i] = s[i]
           /\ Append(s, x)[Len(s) + 1] = x
<1>1. s \in Seq(S \cup {x}) /\ x \in S \cup {x}
  <2>1. \A i \in 1 .. Len(s) : s[i] \in S \cup {x}
    OBVIOUS
  <2> QED
    BY <2>1, IsASeq, ElementOfSeq, SeqDef
<1> QED
  BY <1>1, AppendProperties

\* What CreateProcessW() does when it succeeds.
Creates(t, r, h) ==
    /\ hnds[h] = FreeSlot /\ IsProc(r) /\ ~PidInUse(r.pid)
    /\ procs' = Append(procs, r)
    /\ hnds' = [hnds EXCEPT ![h] = Slot(ProcObj(Len(procs) + 1), FALSE)]
    /\ winHnd' = [winHnd EXCEPT ![t] = h]
    /\ winMine' = [winMine EXCEPT ![t] = Len(procs) + 1]
    /\ WinGoto(t, "created")
    /\ UNCHANGED <<winCall, winCfg, winPid, winCode, children, toExit, self>>

\* The identifier of the new process is nobody else's.
LEMMA NewPidDiffers ==
    ASSUME WinTypeOK, PidsDiffer, NEW t \in WinThread, NEW r, NEW h \in Handle, Creates(t, r, h)
    PROVE  PidsDiffer'
<1> DEFINE n == Len(procs)
           q == procs'
           T == hnds'
<1>1. PICK S : procs \in Seq(S)
  BY DEF WinTypeOK
<1>2. /\ n \in Nat /\ Len(q) = n + 1 /\ q[n + 1] = r
      /\ \A i \in 1 .. n : q[i] = procs[i]
  BY <1>1, OneMore DEF Creates
<1>3. \A x \in Handle : T[x] = IF x = h THEN Slot(ProcObj(n + 1), FALSE) ELSE hnds[x]
  BY DEF Creates, WinTypeOK
<1>4. T[h].obj = ProcObj(n + 1)
  BY <1>3, SlotIs
<1> DEFINE Used(i) == q[i].state \notin ExitCode \/ \E x \in Handle : T[x].obj = ProcObj(i)
<1>5. \A i : InUse(i)' <=> Used(i)
  BY DEF InUse
<1> HIDE DEF n, q, T
<1>6. \A i \in 1 .. n : Used(i) => InUse(i)
  <2> SUFFICES ASSUME NEW i \in 1 .. n, Used(i) PROVE InUse(i)
    OBVIOUS
  <2>1. CASE q[i].state \notin ExitCode
    BY <1>2, <2>1 DEF InUse
  <2>2. CASE \E x \in Handle : T[x].obj = ProcObj(i)
    <3>1. PICK x \in Handle : T[x].obj = ProcObj(i)
      BY <2>2
    <3>2. i # n + 1
      BY <1>2
    <3>3. x # h
      BY <1>4, <3>1, <3>2, ObjectsDiffer
    <3> QED
      BY <1>3, <3>1, <3>3 DEF InUse
  <2> QED
    BY <2>1, <2>2
<1>7. \A i \in 1 .. n : InUse(i) => procs[i].pid # r.pid
  BY DEF Creates, PidInUse, InUse, n
<1>8. \A i, j \in 1 .. n + 1 : i # j /\ Used(i) /\ Used(j) => q[i].pid # q[j].pid
  <2> SUFFICES ASSUME NEW i \in 1 .. n + 1, NEW j \in 1 .. n + 1, i # j, Used(i), Used(j)
               PROVE  q[i].pid # q[j].pid
    OBVIOUS
  <2>1. CASE i \in 1 .. n /\ j \in 1 .. n
    <3>1. InUse(i) /\ InUse(j)
      BY <1>6, <2>1
    <3>2. procs[i].pid # procs[j].pid
      BY <2>1, <3>1 DEF PidsDiffer, n
    <3> QED
      BY <1>2, <2>1, <3>2
  <2>2. CASE i \in 1 .. n /\ j = n + 1
    BY <1>2, <1>6, <1>7, <2>2
  <2>3. CASE i = n + 1 /\ j \in 1 .. n
    BY <1>2, <1>6, <1>7, <2>3
  <2> QED
    BY <1>2, <2>1, <2>2, <2>3
<1>9. \A i, j \in 1 .. Len(q) : i # j /\ InUse(i)' /\ InUse(j)' => q[i].pid # q[j].pid
  <2> HIDE DEF Used
  <2> QED
    BY <1>2, <1>5, <1>8
<1> QED
  BY <1>9 DEF PidsDiffer, q

\* A process is created under a free handle, and belongs to one thread.
LEMMA CreatingStep ==
    ASSUME WinInv, self = "running", NEW t \in WinThread, winAt[t] = "create", NEW r, NEW h \in Handle,
           Creates(t, r, h)
    PROVE  WinInv'
<1> DEFINE n == Len(procs)
<1>0. WinTypeOK /\ Held /\ Called(t) /\ Holds(t) /\ PidsDiffer
  BY DEF WinInv, Held
<1>1. /\ winAt' \in [WinThread -> WinLabel] /\ winAt'[t] = "created"
      /\ \A u \in WinThread : u # t => winAt'[u] = winAt[u]
  BY <1>0, WinGotoIs DEF WinLabel, HasProcess, Creates
<1>2. PICK S : procs \in Seq(S)
  BY <1>0 DEF WinTypeOK
<1>3. /\ n \in Nat /\ Len(procs') = n + 1 /\ procs'[n + 1] = r /\ procs' \in Seq(S \cup {r})
      /\ \A i \in 1 .. n : procs'[i] = procs[i]
  BY <1>2, OneMore DEF Creates
<1>4. /\ hnds' \in [Handle -> SlotRec] /\ hnds'[h] = Slot(ProcObj(n + 1), FALSE)
      /\ \A x \in Handle : x # h => hnds'[x] = hnds[x]
  <2>1. ProcObj(n + 1) \in Objects
    BY <1>3 DEF Objects
  <2>2. Slot(ProcObj(n + 1), FALSE) \in SlotRec
    BY <2>1, SlotIs
  <2> QED
    BY <1>0, <2>2 DEF WinTypeOK, Creates
<1>5. /\ winHnd' \in [WinThread -> Handle \cup {0}] /\ winHnd'[t] = h
      /\ winMine' \in [WinThread -> Nat] /\ winMine'[t] = n + 1
      /\ \A u \in WinThread : u # t => winHnd'[u] = winHnd[u] /\ winMine'[u] = winMine[u]
  BY <1>0, <1>3 DEF WinTypeOK, Creates
<1>6. UNCHANGED <<winCall, winCfg, winPid, winCode, children, toExit, self>>
  BY DEF Creates
<1>7. OthersStand(t) /\ CallsStand(t)
  BY <1>1, <1>5, <1>6 DEF OthersStand, CallsStand
<1> HIDE DEF n
<1>8. ProcsGrow /\ ProcsKept
  BY <1>3 DEF ProcsGrow, ProcsKept, n
<1>9. winAt[t] \notin HasProcess \cup InList \cup {"execwait", "gone"} /\ winAt'[t] \in HasProcess
      /\ winAt'[t] \notin InList \cup {"execwait", "gone"} /\ winAt'[t] \in Inheriting
  BY <1>1 DEF HasProcess, InList, Inheriting
<1>10. \A x : /\ Owns(t, x) <=> x \in winCfg[t].inherited
              /\ Owns(t, x)' <=> x \in winCfg[t].inherited \/ x = h
  BY <1>5, <1>6, <1>9 DEF Owns
<1>11. hnds'[h] # FreeSlot /\ hnds[h] = FreeSlot
  <2>1. hnds'[h].obj = ProcObj(n + 1)
    BY <1>4, SlotIs
  <2> QED
    BY <2>1, SlotIs, ObjectsDiffer DEF Creates
<1>12. \A x : x \in winCfg[t].inherited => hnds[x] # FreeSlot
  BY <1>0, <1>10, OwnersApart
<1>13. TouchesOwn(t)
  BY <1>4, <1>10, <1>11, <1>12 DEF TouchesOwn
<1>14. Local(t)
  BY <1>5, <1>6, <1>7, <1>8, <1>9, <1>13 DEF Local, n
<1>15. WinTypeOK'
  <2>1. ThreadsTyped'
    BY <1>0, <1>1, <1>5, <1>6 DEF WinTypeOK, ThreadsTyped
  <2>2. \A i \in 1 .. Len(procs') : IsProc(procs'[i])
    <3>1. \A i \in 1 .. n : IsProc(procs[i])
      BY <1>0 DEF WinTypeOK, n
    <3>2. IsProc(r)
      BY DEF Creates
    <3>3. \A i \in 1 .. n + 1 : i \in 1 .. n \/ i = n + 1
      BY <1>3
    <3> QED
      BY <1>3, <3>1, <3>2, <3>3
  <2>3. /\ children' \in [entries : Seq(ChildRec), num_max : Nat] /\ toExit' \in Handle \cup {0}
        /\ self' \in ExitCode \cup {"running"}
    BY <1>0, <1>6 DEF WinTypeOK
  <2>4. \E Q : procs' \in Seq(Q)
    BY <1>3
  <2> QED
    BY <1>4, <2>1, <2>2, <2>3, <2>4 DEF WinTypeOK, ThreadsTyped
<1>16. Called(t)' /\ winCode'[t] = "none"
  BY <1>0, <1>1, <1>6 DEF Called, HasRead
<1>17. Told(t)'
  BY <1>1, <1>16 DEF Told, HasRead
<1>18. Holds(t)'
  <2>1. Mine(t)' /\ winHnd'[t] \in Handle /\ hnds'[winHnd'[t]] = Slot(ProcObj(winMine'[t]), FALSE)
    BY <1>3, <1>4, <1>5 DEF Mine
  <2>2. winCfg'[t].inherited \subseteq Handle
        /\ \A x \in winCfg'[t].inherited : hnds'[x].inherit /\ hnds'[x].obj \in FileObjects
    <3>1. h \notin winCfg[t].inherited
      BY <1>11, <1>12
    <3> QED
      BY <1>0, <1>4, <1>6, <3>1 DEF Holds
  <2> QED
    BY <1>9, <2>1, <2>2 DEF Holds
<1>19. PidsDiffer'
  BY <1>0, NewPidDiffers
<1>20. ListRight'
  BY <1>0, <1>6, <1>7, <1>8, <1>9, ListKept
<1> QED
  BY <1>14, <1>15, <1>16, <1>17, <1>18, <1>19, <1>20, LocalStep

\* The record of the process that a call creates.
Created(t, pid) ==
    LET cfg == winCfg[t]
        passed == IF cfg.inherited # {} THEN cfg.inherited ELSE {h \in Handle : hnds[h].inherit}
    IN  [pid |-> pid, state |-> Alive,
         fds |-> [fd \in DOMAIN cfg.hnd |->
             IF "FOPEN" \in cfg.flags[fd] /\ cfg.hnd[fd] \in passed
             THEN hnds[cfg.hnd[fd]].obj ELSE NoObject],
         infos |-> cfg.infos,
         held |-> {hnds[x].obj : x \in passed},
         asked |-> winCall[t].fd_map]

\* CreateProcessW() creates one process, or none.
LEMMA CreateIs ==
    ASSUME WinTypeOK, NEW t \in WinThread, CreateProcess(t)
    PROVE  \/ \E pid \in Pid : \E h \in Handle : Creates(t, Created(t, pid), h)
           \/ WinGoto(t, "abort") /\ UNCHANGED <<winCall, winCfg, winPid, winCode, winHnd, winMine, procs, hnds,
                                              children, toExit, self>>
<1>1. CASE WinGoto(t, "abort") /\ UNCHANGED <<procs, hnds, winHnd, winMine>>
  BY <1>1 DEF CreateProcess
<1>2. CASE ~(WinGoto(t, "abort") /\ UNCHANGED <<procs, hnds, winHnd, winMine>>)
  <2> DEFINE h == Min(FreeHandles(hnds))
  <2>1. PICK pid \in Pid : ~PidInUse(pid) /\ procs' = Append(procs, Created(t, pid))
    BY <1>2, Zenon DEF CreateProcess, Created
  <2>2. /\ FreeHandles(hnds) # {}
        /\ hnds' = [hnds EXCEPT ![h] = Slot(ProcObj(Len(procs) + 1), FALSE)]
        /\ winHnd' = [winHnd EXCEPT ![t] = h]
        /\ winMine' = [winMine EXCEPT ![t] = Len(procs) + 1]
        /\ WinGoto(t, "created")
        /\ UNCHANGED <<winCall, winCfg, winPid, winCode, children, toExit, self>>
    BY <1>2, Zenon DEF CreateProcess
  <2>3. h \in Handle /\ hnds[h] = FreeSlot
    BY <2>2, LowestHandle
  <2> HIDE DEF h
  <2>4. Created(t, pid).pid = pid /\ Created(t, pid).state = Alive /\ IsProc(Created(t, pid))
    <3>1. pid \in Nat
      BY HandlesAre DEF Pid
    <3> QED
      BY <3>1 DEF Created, IsProc
  <2>5. Creates(t, Created(t, pid), h)
    BY <2>1, <2>2, <2>3, <2>4 DEF Creates
  <2> QED
    BY <2>3, <2>5
<1> QED
  BY <1>1, <1>2

\* CreateProcessW() keeps the invariant, whether it succeeds or fails.
LEMMA ProcessCreated ==
    ASSUME WinInv, NEW t \in WinThread, CreateProcess(t)
    PROVE  WinInv'
<1>0. WinTypeOK /\ self = "running" /\ winAt[t] = "create"
  BY DEF WinInv, CreateProcess, Now
<1>1. ASSUME NEW pid \in Pid, NEW h \in Handle, Creates(t, Created(t, pid), h) PROVE WinInv'
  BY <1>0, <1>1, CreatingStep
<1>2. ASSUME WinGoto(t, "abort"), UNCHANGED <<winCall, winCfg, winPid, winCode, winHnd, winMine, procs, hnds,
                                           children, toExit, self>>
      PROVE  WinInv'
  BY <1>0, <1>2, GoesOn DEF WinLabel, HasProcess, InList, HasRead, Inheriting
<1> QED
  BY <1>0, <1>1, <1>2, CreateIs

-----------------------------------------------------------------------------
(***************************************************************************)
(* The list of children                                                    *)
(***************************************************************************)
\* RemoveAt() shifts the entries behind the one that goes.
LEMMA RemoveAtShifts ==
    ASSUME NEW S, NEW s \in Seq(S), NEW i \in 1 .. Len(s)
    PROVE  /\ RemoveAt(s, i) \in Seq(S) /\ Len(RemoveAt(s, i)) = Len(s) - 1
           /\ \A k \in 1 .. Len(s) - 1 :
                 RemoveAt(s, i)[k] = IF k < i THEN s[k] ELSE s[k + 1]
<1> DEFINE n == Len(s)
           a == SubSeq(s, 1, i - 1)
           b == SubSeq(s, i + 1, n)
<1>1. n \in Nat /\ i \in Nat /\ 1 <= i /\ i <= n
  OBVIOUS
<1>2. \A k \in 1 .. n : s[k] \in S
  OBVIOUS
<1> HIDE DEF n
<1>3. /\ a \in Seq(S) /\ Len(a) = i - 1
      /\ \A k \in 1 .. i - 1 : a[k] = s[k]
  <2>1. \A k \in 1 .. i - 1 : s[k] \in S
    BY <1>1, <1>2
  <2>2. /\ a \in Seq(S) /\ Len(a) = IF 1 <= i - 1 THEN (i - 1) - 1 + 1 ELSE 0
        /\ \A k \in 1 .. (i - 1) - 1 + 1 : a[k] = s[1 + k - 1]
    BY <1>1, <2>1, SubSeqProperties, i - 1 \in Int
  <2> HIDE DEF a
  <2> QED
    BY <1>1, <2>2
<1>4. /\ b \in Seq(S) /\ Len(b) = n - i
      /\ \A k \in 1 .. n - i : b[k] = s[i + k]
  <2>1. \A k \in i + 1 .. n : s[k] \in S
    BY <1>1, <1>2
  <2>2. /\ b \in Seq(S) /\ Len(b) = IF i + 1 <= n THEN n - (i + 1) + 1 ELSE 0
        /\ \A k \in 1 .. n - (i + 1) + 1 : b[k] = s[(i + 1) + k - 1]
    BY <1>1, <2>1, SubSeqProperties, i + 1 \in Int
  <2> HIDE DEF b
  <2> QED
    BY <1>1, <2>2
<1>5. RemoveAt(s, i) = a \o b
  BY DEF RemoveAt, n
<1> HIDE DEF a, b
<1>6. /\ a \o b \in Seq(S) /\ Len(a \o b) = n - 1
      /\ \A k \in 1 .. n - 1 : (a \o b)[k] = IF k <= i - 1 THEN a[k] ELSE b[k - (i - 1)]
  <2>1. /\ a \o b \in Seq(S) /\ Len(a \o b) = Len(a) + Len(b)
        /\ \A k \in 1 .. Len(a) + Len(b) :
              (a \o b)[k] = IF k <= Len(a) THEN a[k] ELSE b[k - Len(a)]
    BY <1>3, <1>4, ConcatProperties
  <2>2. Len(a) + Len(b) = n - 1
    BY <1>1, <1>3, <1>4
  <2> QED
    BY <1>3, <2>1, <2>2
<1>7. ASSUME NEW k \in 1 .. n - 1
      PROVE  (a \o b)[k] = IF k < i THEN s[k] ELSE s[k + 1]
  <2>1. CASE k < i
    BY <1>1, <1>3, <1>6, <2>1
  <2>2. CASE ~(k < i)
    <3>1. k - (i - 1) \in 1 .. n - i /\ i + (k - (i - 1)) = k + 1 /\ ~(k <= i - 1)
      BY <1>1, <2>2
    <3>2. b[k - (i - 1)] = s[i + (k - (i - 1))]
      BY <1>4, <3>1
    <3> QED
      BY <1>6, <2>2, <3>1, <3>2
  <2> QED
    BY <2>1, <2>2
<1> QED
  BY <1>5, <1>6, <1>7 DEF n

\* Threads that are in the list have different identifiers there.
LEMMA EntriesDiffer ==
    ASSUME Held, NEW t \in WinThread, NEW u \in WinThread, t # u,
           winAt[t] \in HasProcess, winAt[u] \in HasProcess
    PROVE  EntryOf(t).pid # EntryOf(u).pid
<1>1. Mine(t) /\ hnds[winHnd[t]] = Slot(ProcObj(winMine[t]), FALSE) /\ winHnd[t] \in Handle
  BY DEF Held, Holds
<1>2. Mine(u) /\ hnds[winHnd[u]] = Slot(ProcObj(winMine[u]), FALSE) /\ winHnd[u] \in Handle
  BY DEF Held, Holds
<1>3. InUse(winMine[t]) /\ InUse(winMine[u])
  BY <1>1, <1>2, SlotIs DEF InUse
<1>4. winMine[t] # winMine[u]
  BY DEF Held, Apart
<1> QED
  BY <1>1, <1>2, <1>3, <1>4 DEF Held, PidsDiffer, Mine, EntryOf

\* add_to_children_list() adds an entry under an identifier no other has.
LEMMA ChildRegistered ==
    ASSUME WinInv, ~ListAllocFails, NEW t \in WinThread, RegisterChild(t)
    PROVE  WinInv'
<1> DEFINE s == children.entries
           e == EntryOf(t)
<1>0. WinTypeOK /\ Held /\ Called(t) /\ Holds(t) /\ PidsDiffer /\ ListRight
      /\ self = "running" /\ winAt[t] = "register"
  BY DEF WinInv, Held, RegisterChild, Now
<1>1. /\ winPid' = [winPid EXCEPT ![t] = procs[winMine[t]].pid]
      /\ UNCHANGED <<winCall, winCfg, winHnd, winMine, winCode, hnds, procs, toExit, self>>
  BY DEF RegisterChild
<1>2. PICK l \in {"exec", "spawned"} : WinGoto(t, l) /\ (l = "exec" => winCall[t].exec)
  BY DEF RegisterChild
<1>3. \E max \in Nat : children' = [entries |-> Append(s, e), num_max |-> max]
  <2> DEFINE full == Len(s) >= children.num_max
             max == CASE ~full -> children.num_max
                      [] full /\ children.num_max = 0 -> FirstMax
                      [] OTHER -> 2 * children.num_max
  <2>1. children' = [entries |-> Append(s, e), num_max |-> max]
    BY DEF RegisterChild, EntryOf
  <2>2. max \in Nat
    <3>1. children.num_max \in Nat /\ FirstMax \in Nat
      BY <1>0, ProcessAssumption DEF WinTypeOK
    <3> HIDE DEF full
    <3> QED
      BY <3>1
  <2> HIDE DEF max
  <2> QED
    BY <2>1, <2>2
<1>4. /\ winAt' \in [WinThread -> WinLabel] /\ winAt'[t] = l
      /\ \A u \in WinThread : u # t => winAt'[u] = winAt[u]
  BY <1>0, <1>2, WinGotoIs DEF WinLabel, HasProcess
<1>5. winAt[t] \in HasProcess /\ winAt[t] \notin InList /\ winAt[t] \notin Inheriting
      /\ winAt'[t] \in HasProcess /\ winAt'[t] \in InList
      /\ winAt[t] \notin {"execwait", "gone"} /\ winAt'[t] \notin {"execwait", "gone"}
  BY <1>0, <1>4 DEF HasProcess, InList, Inheriting
<1>6. /\ Mine(t) /\ winHnd[t] \in Handle /\ hnds[winHnd[t]] = Slot(ProcObj(winMine[t]), FALSE)
      /\ procs[winMine[t]].pid \in Nat
  <2>1. Mine(t) /\ winHnd[t] \in Handle /\ hnds[winHnd[t]] = Slot(ProcObj(winMine[t]), FALSE)
    BY <1>0, <1>5 DEF Holds
  <2>2. IsProc(procs[winMine[t]])
    BY <1>0, <2>1 DEF WinTypeOK, Mine
  <2> QED
    BY <2>1, <2>2 DEF IsProc
<1>7. /\ winPid' \in [WinThread -> Nat] /\ winPid'[t] = procs[winMine[t]].pid
      /\ \A u \in WinThread : u # t => winPid'[u] = winPid[u]
  BY <1>0, <1>1, <1>6 DEF WinTypeOK
<1>8. OthersStand(t) /\ CallsStand(t)
  BY <1>1, <1>4, <1>7 DEF OthersStand, CallsStand
<1>9. PICK S : procs \in Seq(S)
  BY <1>0 DEF WinTypeOK
<1>10. ProcsGrow /\ ProcsKept
  BY <1>1, <1>9 DEF ProcsGrow, ProcsKept
<1>11. \A h : Owns(t, h)' <=> Owns(t, h)
  BY <1>1, <1>5 DEF Owns
<1>12. TouchesOwn(t)
  BY <1>0, <1>1, <1>11, OwnersApart DEF TouchesOwn
<1>13. Local(t)
  BY <1>1, <1>5, <1>8, <1>10, <1>12 DEF Local
<1>14. /\ e \in ChildRec /\ s \in Seq(ChildRec) /\ Len(s) \in Nat
       /\ children'.entries = Append(s, e) /\ children' \in [entries : Seq(ChildRec), num_max : Nat]
  <2>1. e \in ChildRec
    BY <1>6 DEF EntryOf, ChildRec
  <2>2. s \in Seq(ChildRec)
    BY <1>0 DEF WinTypeOK
  <2> HIDE DEF e, s
  <2>3. Append(s, e) \in Seq(ChildRec) /\ Len(s) \in Nat
    BY <2>1, <2>2, AppendProperties
  <2>4. PICK max \in Nat : children' = [entries |-> Append(s, e), num_max |-> max]
    BY <1>3
  <2> QED
    BY <2>1, <2>2, <2>3, <2>4
<1>15. WinTypeOK'
  <2>1. ThreadsTyped'
    BY <1>0, <1>1, <1>4, <1>7 DEF WinTypeOK, ThreadsTyped
  <2>2. /\ \A i \in 1 .. Len(procs') : IsProc(procs'[i])
        /\ hnds' \in [Handle -> SlotRec] /\ toExit' \in Handle \cup {0}
        /\ self' \in ExitCode \cup {"running"}
    BY <1>0, <1>1 DEF WinTypeOK
  <2>3. \E Q : procs' \in Seq(Q)
    BY <1>1, <1>9
  <2> QED
    BY <1>14, <2>1, <2>2, <2>3 DEF WinTypeOK, ThreadsTyped
<1>16. Called(t)' /\ winCode'[t] = "none"
  BY <1>0, <1>1, <1>2, <1>4, <1>5 DEF Called, HasRead
<1>17. Told(t)'
  BY <1>4, <1>5 DEF Told, HasRead
<1>18. Holds(t)'
  <2>1. Mine(t)'
    BY <1>1, <1>6 DEF Mine
  <2>2. winCfg'[t].inherited = {}
    BY <1>0, <1>1, <1>5 DEF Holds
  <2> QED
    BY <1>1, <1>5, <1>6, <1>7, <2>1, <2>2 DEF Holds
<1>19. PidsDiffer'
  BY <1>0, <1>1, PidsKept
<1>20. ListRight'
  <2> DEFINE r == children'.entries
             n == Len(s)
  <2>1. /\ n \in Nat /\ Len(r) = n + 1 /\ r[n + 1] = e
        /\ \A i \in 1 .. n : r[i] = s[i]
    BY <1>14, AppendProperties
  <2>2. \A u \in WinThread : EntryOf(u)' = EntryOf(u)
    BY <1>1 DEF EntryOf
  <2>3. \A u \in WinThread : u # t => (winAt'[u] \in InList <=> winAt[u] \in InList)
    BY <1>4
  <2>4. \A k \in 1 .. n : \E u \in WinThread : winAt[u] \in InList /\ s[k] = EntryOf(u)
    BY <1>0 DEF ListRight
  <2>5. \A u \in WinThread : winAt[u] \in InList => \E k \in 1 .. n : s[k] = EntryOf(u)
    BY <1>0 DEF ListRight
  <2>6. \A k, j \in 1 .. n : s[k].pid = s[j].pid => k = j
    BY <1>0 DEF ListRight
  <2>7. \A k \in 1 .. n : s[k].pid # e.pid
    <3> SUFFICES ASSUME NEW k \in 1 .. n PROVE s[k].pid # e.pid
      OBVIOUS
    <3>1. PICK u \in WinThread : winAt[u] \in InList /\ s[k] = EntryOf(u)
      BY <2>4
    <3>2. u # t /\ winAt[u] \in HasProcess
      BY <1>5, <3>1 DEF InList, HasProcess
    <3>3. EntryOf(t).pid # EntryOf(u).pid
      BY <1>0, <1>5, <3>2, EntriesDiffer
    <3> QED
      BY <3>1, <3>3
  <2>8. \A i \in 1 .. n + 1 : i \in 1 .. n \/ i = n + 1
    BY <2>1
  <2> HIDE DEF r, s, e, n
  <2>9. \A k \in 1 .. n + 1 : \E u \in WinThread : winAt'[u] \in InList /\ r[k] = EntryOf(u)'
    <3> SUFFICES ASSUME NEW k \in 1 .. n + 1
                 PROVE  \E u \in WinThread : winAt'[u] \in InList /\ r[k] = EntryOf(u)'
      OBVIOUS
    <3>1. CASE k = n + 1
      BY <1>5, <2>1, <2>2, <3>1 DEF e
    <3>2. CASE k \in 1 .. n
      <4>1. PICK u \in WinThread : winAt[u] \in InList /\ s[k] = EntryOf(u)
        BY <2>4, <3>2
      <4>2. winAt'[u] \in InList
        BY <1>5, <2>3, <4>1
      <4> QED
        BY <2>1, <2>2, <3>2, <4>1, <4>2
    <3> QED
      BY <2>8, <3>1, <3>2
  <2>10. \A u \in WinThread : winAt'[u] \in InList => \E k \in 1 .. n + 1 : r[k] = EntryOf(u)'
    <3> SUFFICES ASSUME NEW u \in WinThread, winAt'[u] \in InList
                 PROVE  \E k \in 1 .. n + 1 : r[k] = EntryOf(u)
      BY <2>2
    <3>1. CASE u = t
      <4>1. n + 1 \in 1 .. n + 1 /\ r[n + 1] = EntryOf(u)
        BY <2>1, <3>1 DEF e
      <4> QED
        BY <4>1
    <3>2. CASE u # t
      <4>1. PICK k \in 1 .. n : s[k] = EntryOf(u)
        BY <2>3, <2>5, <3>2
      <4>2. k \in 1 .. n + 1 /\ r[k] = EntryOf(u)
        BY <2>1, <4>1
      <4> QED
        BY <4>2
    <3> QED
      BY <3>1, <3>2
  <2>11. \A k, j \in 1 .. n + 1 : r[k].pid = r[j].pid => k = j
    BY <2>1, <2>6, <2>7, <2>8
  <2> QED
    BY <2>1, <2>9, <2>10, <2>11 DEF ListRight, r
<1> QED
  BY <1>0, <1>13, <1>15, <1>16, <1>17, <1>18, <1>19, <1>20, LocalStep

\* The entry of a thread is dropped, and no other.
LEMMA ListDropped ==
    ASSUME WinTypeOK, Held, NEW t \in WinThread, winAt[t] \in InList, winAt'[t] \notin InList, OthersStand(t),
           procs' = procs, children' = drop_child_from_children_list(winPid[t])
    PROVE  ListRight' /\ children' \in [entries : Seq(ChildRec), num_max : Nat]
<1> DEFINE s == children.entries
           i == Min(Entries(winPid[t]))
           r == children'.entries
           n == Len(s)
<1>1. i \in 1 .. n /\ s[i] = EntryOf(t)
  BY ListFinds
<1>2. s \in Seq(ChildRec) /\ n \in Nat /\ children = [entries |-> s, num_max |-> children.num_max]
      /\ children.num_max \in Nat
  <2>1. s \in Seq(ChildRec) /\ children = [entries |-> s, num_max |-> children.num_max]
        /\ children.num_max \in Nat
    BY DEF WinTypeOK
  <2> HIDE DEF s
  <2> QED
    BY <2>1
<1>3. r = RemoveAt(s, i) /\ children' = [entries |-> r, num_max |-> children.num_max]
  BY <1>2 DEF drop_child_from_children_list
<1>4. ListRight
  BY DEF Held
<1>5. \A k \in 1 .. n : \E u \in WinThread : winAt[u] \in InList /\ s[k] = EntryOf(u)
  BY <1>4 DEF ListRight
<1>6. \A u \in WinThread : winAt[u] \in InList => \E k \in 1 .. n : s[k] = EntryOf(u)
  BY <1>4 DEF ListRight
<1>7. \A k, j \in 1 .. n : s[k].pid = s[j].pid => k = j
  BY <1>4 DEF ListRight
<1>8. \A u \in WinThread : u # t => EntryOf(u)' = EntryOf(u) /\ (winAt'[u] \in InList <=> winAt[u] \in InList)
  BY DEF EntryOf, OthersStand
<1> HIDE DEF s, i, n, r
<1>9. /\ r \in Seq(ChildRec) /\ Len(r) = n - 1
      /\ \A k \in 1 .. n - 1 : r[k] = IF k < i THEN s[k] ELSE s[k + 1]
  BY <1>1, <1>2, <1>3, RemoveAtShifts DEF n
<1>10. i \in Nat /\ 1 <= i /\ i <= n
  BY <1>1, <1>2
<1> DEFINE At(k) == IF k < i THEN k ELSE k + 1
<1>11. \A k \in 1 .. n - 1 : At(k) \in 1 .. n /\ At(k) # i /\ r[k] = s[At(k)]
  BY <1>2, <1>9, <1>10
<1>12. \A k, j \in 1 .. n - 1 : At(k) = At(j) => k = j
  BY <1>2, <1>10
<1>13. \A j \in 1 .. n : j # i => \E k \in 1 .. n - 1 : At(k) = j
  <2> SUFFICES ASSUME NEW j \in 1 .. n, j # i PROVE \E k \in 1 .. n - 1 : At(k) = j
    OBVIOUS
  <2>1. CASE j < i
    <3>1. j \in 1 .. n - 1 /\ At(j) = j
      BY <1>2, <1>10, <2>1
    <3> QED
      BY <3>1
  <2>2. CASE ~(j < i)
    <3>1. j - 1 \in 1 .. n - 1 /\ At(j - 1) = j
      BY <1>2, <1>10, <2>2
    <3> QED
      BY <3>1
  <2> QED
    BY <2>1, <2>2
<1> HIDE DEF At
<1>14. \A k \in 1 .. n - 1 : \E u \in WinThread : winAt'[u] \in InList /\ r[k] = EntryOf(u)'
  <2> SUFFICES ASSUME NEW k \in 1 .. n - 1
               PROVE  \E u \in WinThread : winAt'[u] \in InList /\ r[k] = EntryOf(u)'
    OBVIOUS
  <2>1. PICK u \in WinThread : winAt[u] \in InList /\ s[At(k)] = EntryOf(u)
    BY <1>5, <1>11
  <2>2. u # t
    BY <1>1, <1>7, <1>11, <2>1
  <2> QED
    BY <1>8, <1>11, <2>1, <2>2
<1>15. \A u \in WinThread : winAt'[u] \in InList => \E k \in 1 .. n - 1 : r[k] = EntryOf(u)'
  <2> SUFFICES ASSUME NEW u \in WinThread, winAt'[u] \in InList PROVE \E k \in 1 .. n - 1 : r[k] = EntryOf(u)'
    OBVIOUS
  <2>1. u # t /\ winAt[u] \in InList
    BY <1>8
  <2>2. PICK j \in 1 .. n : s[j] = EntryOf(u)
    BY <1>6, <2>1
  <2>3. j # i
    <3>1. EntryOf(t).pid # EntryOf(u).pid
      <4>1. winAt[t] \in HasProcess /\ winAt[u] \in HasProcess
        BY <2>1 DEF InList, HasProcess
      <4> QED
        BY <2>1, <4>1, EntriesDiffer
    <3> QED
      BY <1>1, <2>2, <3>1
  <2>4. PICK k \in 1 .. n - 1 : At(k) = j
    BY <1>13, <2>3
  <2> QED
    BY <1>8, <1>11, <2>1, <2>2, <2>4
<1>16. \A k, j \in 1 .. n - 1 : r[k].pid = r[j].pid => k = j
  BY <1>7, <1>11, <1>12
<1>17. ListRight'
  BY <1>9, <1>14, <1>15, <1>16 DEF ListRight, r
<1> QED
  BY <1>2, <1>3, <1>9, <1>17

\* drop_child_from_children_list() finds the entry of the caller.
LEMMA ChildDropped ==
    ASSUME WinInv, NEW t \in WinThread, DropChild(t)
    PROVE  WinInv'
<1>0. /\ WinTypeOK /\ Held /\ Called(t) /\ Told(t) /\ Holds(t) /\ PidsDiffer
      /\ self = "running" /\ winAt[t] = "drop"
  BY DEF WinInv, Held, DropChild, Now
<1>1. Entries(winPid[t]) # {}
  BY <1>0, ListFinds DEF InList
<1>2. /\ children' = drop_child_from_children_list(winPid[t]) /\ WinGoto(t, "close")
      /\ UNCHANGED <<winCall, winCfg, winPid, winHnd, winMine, winCode, hnds, procs, toExit, self>>
  BY <1>1 DEF DropChild
<1>3. /\ winAt' \in [WinThread -> WinLabel] /\ winAt'[t] = "close"
      /\ \A u \in WinThread : u # t => winAt'[u] = winAt[u]
  BY <1>0, <1>2, WinGotoIs DEF WinLabel, HasProcess
<1>4. winAt[t] \in HasProcess /\ winAt[t] \in InList /\ winAt'[t] \in HasProcess /\ winAt'[t] \notin InList
      /\ winAt[t] \notin {"execwait", "gone"} /\ winAt'[t] \notin {"execwait", "gone"}
      /\ winAt[t] \notin Inheriting /\ winAt[t] \in HasRead /\ winAt'[t] \in HasRead
  BY <1>0, <1>3 DEF HasProcess, InList, Inheriting, HasRead
<1>5. OthersStand(t) /\ CallsStand(t)
  BY <1>2, <1>3 DEF OthersStand, CallsStand
<1>6. PICK S : procs \in Seq(S)
  BY <1>0 DEF WinTypeOK
<1>7. ProcsGrow /\ ProcsKept
  BY <1>2, <1>6 DEF ProcsGrow, ProcsKept
<1>8. \A h : Owns(t, h)' <=> Owns(t, h)
  BY <1>2, <1>4 DEF Owns
<1>9. TouchesOwn(t)
  BY <1>0, <1>2, <1>8, OwnersApart DEF TouchesOwn
<1>10. Local(t)
  BY <1>2, <1>4, <1>5, <1>7, <1>9 DEF Local
<1>11. ListRight' /\ children' \in [entries : Seq(ChildRec), num_max : Nat]
  BY <1>0, <1>2, <1>4, <1>5, ListDropped
<1>12. WinTypeOK'
  <2>1. ThreadsTyped'
    BY <1>0, <1>2, <1>3 DEF WinTypeOK, ThreadsTyped
  <2>2. /\ \A i \in 1 .. Len(procs') : IsProc(procs'[i])
        /\ hnds' \in [Handle -> SlotRec] /\ toExit' \in Handle \cup {0}
        /\ self' \in ExitCode \cup {"running"}
    BY <1>0, <1>2 DEF WinTypeOK
  <2>3. \E Q : procs' \in Seq(Q)
    BY <1>2, <1>6
  <2> QED
    BY <1>11, <2>1, <2>2, <2>3 DEF WinTypeOK, ThreadsTyped
<1>13. Called(t)'
  BY <1>0, <1>2, <1>3, <1>4 DEF Called
<1>14. Told(t)'
  <2>1. Ended(t)' /\ winCode'[t] = procs'[winMine'[t]].state
    BY <1>0, <1>2, <1>4 DEF Told, Ended, Mine
  <2> QED
    BY <1>3, <2>1 DEF Told
<1>15. Holds(t)'
  <2>1. Mine(t)' /\ winHnd[t] \in Handle /\ hnds[winHnd[t]] = Slot(ProcObj(winMine[t]), FALSE)
    BY <1>0, <1>2, <1>4 DEF Mine, Holds
  <2>2. winCfg'[t].inherited = {}
    BY <1>0, <1>2, <1>4 DEF Holds
  <2> QED
    BY <1>2, <1>4, <2>1, <2>2 DEF Holds
<1>16. PidsDiffer'
  BY <1>0, <1>2, PidsKept
<1> QED
  BY <1>0, <1>10, <1>11, <1>12, <1>13, <1>14, <1>15, <1>16, LocalStep

-----------------------------------------------------------------------------
(***************************************************************************)
(* mm_execv(), and processes that end                                      *)
(***************************************************************************)
\* mm_execv() publishes the handle of its program and closes the descriptors that
\* the library knows.
LEMMA ExecTakesOver ==
    ASSUME WinInv, NEW t \in WinThread, ExecTakeOver(t)
    PROVE  WinInv'
<1> DEFINE Known == {fd + 1 : fd \in KnownFds}
<1>0. /\ WinTypeOK /\ Held /\ Called(t) /\ Holds(t) /\ PidsDiffer
      /\ self = "running" /\ winAt[t] = "exec"
  BY DEF WinInv, Held, ExecTakeOver, Now
<1>1. get_handle_from_children_list(winPid[t]) = winHnd[t] /\ winHnd[t] \in Handle
  BY <1>0, ListFinds DEF InList
<1>2. toExit' = winHnd[t] /\ toExit' # 0
  BY <1>1, HandlesAre DEF ExecTakeOver
<1>3. /\ children' = drop_child_from_children_list(winPid[t]) /\ WinGoto(t, "execwait")
      /\ hnds' = CloseHandle(hnds, Known)
      /\ UNCHANGED <<winCall, winCfg, winPid, winMine, winCode, procs, self>>
  BY <1>2 DEF ExecTakeOver
<1>4. winHnd' = winHnd
  <2>1. winHnd' = [winHnd EXCEPT ![t] = winHnd[t]]
    BY <1>2 DEF ExecTakeOver
  <2> QED
    BY <1>0, <2>1 DEF WinTypeOK
<1>5. /\ winAt' \in [WinThread -> WinLabel] /\ winAt'[t] = "execwait"
      /\ \A u \in WinThread : u # t => winAt'[u] = winAt[u]
  BY <1>0, <1>3, WinGotoIs DEF WinLabel, HasProcess
<1>6. winAt[t] \in HasProcess /\ winAt[t] \in InList /\ winAt'[t] \in HasProcess /\ winAt'[t] \notin InList
      /\ winAt[t] \notin Inheriting /\ winAt[t] # "idle"
  BY <1>0, <1>5 DEF HasProcess, InList, Inheriting
<1>7. OthersStand(t) /\ CallsStand(t)
  BY <1>3, <1>4, <1>5 DEF OthersStand, CallsStand
<1>8. PICK S : procs \in Seq(S)
  BY <1>0 DEF WinTypeOK
<1>9. ProcsGrow /\ ProcsKept
  BY <1>3, <1>8 DEF ProcsGrow, ProcsKept
<1>10. \A u \in WinThread : \A h : Owns(u, h)' <=> Owns(u, h)
  BY <1>3, <1>4, <1>5, <1>6 DEF Owns
<1>11. /\ OpenFd = 0 .. 3 /\ OpenFd' = (0 .. 3) \ KnownFds
       /\ \A h : h \in FdHandles' <=> h \in FdHandles /\ h \notin Known
  <2>1. OpenFd' = (0 .. 3) \ KnownFds
    BY <1>5 DEF OpenFd
  <2>2. OpenFd = 0 .. 3
    <3>1. ASSUME NEW u \in WinThread PROVE winAt[u] \notin {"execwait", "gone"}
      <4>1. Called(u) /\ Called(t)
        BY DEF WinInv
      <4>2. CASE u = t
        BY <1>0, <4>2
      <4>3. CASE u # t
        BY <1>0, <4>1, <4>3 DEF Called
      <4> QED
        BY <4>2, <4>3
    <3> QED
      BY <3>1 DEF OpenFd
  <2>3. FdHandles' = {fd + 1 : fd \in (0 .. 3) \ KnownFds}
    BY <2>1 DEF FdHandles, _get_osfhandle
  <2>4. FdHandles = {fd + 1 : fd \in 0 .. 3}
    BY <2>2 DEF FdHandles, _get_osfhandle
  <2>5. KnownFds \subseteq 0 .. 3
    BY ProcessAssumption
  <2>6. ASSUME NEW h PROVE h \in FdHandles' <=> h \in FdHandles /\ h \notin Known
    <3>1. ASSUME h \in FdHandles' PROVE h \in FdHandles /\ h \notin Known
      BY ONLY <2>3, <2>4, <2>5, <3>1
    <3>2. ASSUME h \in FdHandles, h \notin Known PROVE h \in FdHandles'
      BY ONLY <2>3, <2>4, <2>5, <3>2
    <3> QED
      BY <3>1, <3>2
  <2> QED
    BY <2>1, <2>2, <2>6
<1>12. /\ hnds' \in [Handle -> SlotRec]
       /\ \A h \in Handle : hnds'[h] = IF h \in Known THEN FreeSlot ELSE hnds[h]
  BY <1>0, <1>3, CloseIs
<1>12a. \A h \in Known : h \in FdHandles
  <2>1. FdHandles = {fd + 1 : fd \in 0 .. 3} /\ KnownFds \subseteq 0 .. 3
    BY <1>11, ProcessAssumption DEF FdHandles, _get_osfhandle
  <2> QED
    BY <2>1
<1> HIDE DEF Known
<1>13. \A u \in WinThread : \A h : Owns(u, h) => h \in Handle /\ h \notin FdHandles /\ hnds'[h] = hnds[h]
  BY <1>0, <1>12, <1>12a, OwnersApart
<1>14. TableRight'
  <2> SUFFICES ASSUME NEW h \in Handle
               PROVE  hnds'[h] # FreeSlot <=> h \in FdHandles' \/ \E u \in WinThread : Owns(u, h)'
    BY DEF TableRight
  <2>1. hnds[h] # FreeSlot <=> h \in FdHandles \/ \E u \in WinThread : Owns(u, h)
    BY <1>0 DEF Held, TableRight
  <2> QED
    BY <1>10, <1>11, <1>12, <1>12a, <1>13, <2>1
<1>15. FdFiles'
  <2> SUFFICES ASSUME NEW fd \in (0 .. 3) \ KnownFds PROVE hnds'[fd + 1] = Slot(FileObj(fd), FALSE)
    BY <1>11 DEF FdFiles, Slot, FileObj
  <2>1. fd + 1 \in Handle
    <3>1. fd + 1 \in 1 .. 4
      OBVIOUS
    <3> QED
      BY <3>1, HandlesAre
  <2>2. fd + 1 \notin Known
    <3>1. KnownFds \subseteq 0 .. 3
      BY ProcessAssumption
    <3> QED
      BY <3>1 DEF Known
  <2>3. hnds[fd + 1] = Slot(FileObj(fd), FALSE)
    BY <1>0, <1>11 DEF Held, FdFiles
  <2> QED
    BY <1>12, <2>1, <2>2, <2>3
<1>16. ASSUME NEW u \in WinThread PROVE Holds(u)'
  <2>1. Holds(u) /\ Called(u)
    BY <1>0 DEF Held, WinInv
  <2>2. /\ winCfg'[u] = winCfg[u] /\ winHnd'[u] = winHnd[u] /\ winMine'[u] = winMine[u]
        /\ winPid'[u] = winPid[u] /\ (Mine(u)' <=> Mine(u)) /\ procs' = procs
    BY <1>3, <1>4 DEF Mine
  <2>3. /\ winAt'[u] \in HasProcess <=> winAt[u] \in HasProcess
        /\ winAt'[u] \in InList => winAt[u] \in InList
        /\ winAt'[u] \notin Inheriting => winAt[u] \notin Inheriting
    BY <1>5, <1>6
  <2>4. winAt[u] \in HasProcess => hnds'[winHnd[u]] = hnds[winHnd[u]]
    BY <1>13 DEF Owns
  <2>5. \A h \in winCfg[u].inherited : hnds'[h] = hnds[h]
    BY <1>13 DEF Owns
  <2>6. winAt'[u] = "execwait" => u = t
    <3>1. CASE u # t
      BY <1>0, <1>5, <2>1, <3>1 DEF Called
    <3> QED
      BY <3>1
  <2>7. (winAt[u] = "execwait" => toExit = winHnd[u])'
    BY <1>2, <1>4, <2>6
  <2>8. (winAt[u] \in HasProcess =>
            Mine(u) /\ winHnd[u] \in Handle /\ hnds[winHnd[u]] = Slot(ProcObj(winMine[u]), FALSE))'
    BY <2>1, <2>2, <2>3, <2>4 DEF Holds
  <2>9. (\A h \in winCfg[u].inherited : hnds[h].inherit /\ hnds[h].obj \in FileObjects)'
    BY <2>1, <2>2, <2>5 DEF Holds
  <2> QED
    BY <2>1, <2>2, <2>3, <2>7, <2>8, <2>9 DEF Holds
<1>17. Apart'
  BY <1>0, <1>3, <1>5, <1>6 DEF Held, Apart
<1>18. PidsDiffer'
  <2>1. \A h \in Handle : hnds'[h].obj = hnds[h].obj \/ \A i : hnds'[h].obj # ProcObj(i)
    BY <1>12, SlotIs, ObjectsDiffer
  <2> QED
    BY <1>0, <1>3, <2>1, PidsKept
<1>19. ListRight' /\ children' \in [entries : Seq(ChildRec), num_max : Nat]
  BY <1>0, <1>3, <1>6, <1>7, ListDropped
<1>20. WinTypeOK'
  <2>1. ThreadsTyped'
    BY <1>0, <1>3, <1>4, <1>5 DEF WinTypeOK, ThreadsTyped
  <2>2. /\ \A i \in 1 .. Len(procs') : IsProc(procs'[i])
        /\ toExit' \in Handle \cup {0} /\ self' \in ExitCode \cup {"running"}
    BY <1>0, <1>1, <1>2, <1>3 DEF WinTypeOK
  <2>3. \E Q : procs' \in Seq(Q)
    BY <1>3, <1>8
  <2> QED
    BY <1>12, <1>19, <2>1, <2>2, <2>3 DEF WinTypeOK, ThreadsTyped
<1>21. Called(t)'
  BY <1>0, <1>3, <1>5, <1>6 DEF Called, HasRead
<1>22. Told(t)'
  BY <1>0, <1>3, <1>5 DEF Told, HasRead
<1>23. \A u \in WinThread : u # t => Called(u)' /\ Told(u)'
  <2> SUFFICES ASSUME NEW u \in WinThread, u # t PROVE Called(u)' /\ Told(u)'
    OBVIOUS
  <2>1. Called(u) /\ Told(u) /\ self' = self
    BY <1>3 DEF WinInv
  <2> QED
    BY <1>7, <1>9, <2>1, OthersTold
<1>24. Held'
  BY <1>14, <1>15, <1>16, <1>17, <1>18, <1>19 DEF Held
<1> QED
  BY <1>20, <1>21, <1>22, <1>23, <1>24 DEF WinInv

\* The step with which the process ends: what is left to show.
LEMMA EndingStep ==
    ASSUME WinInv, NEW t \in WinThread, t = ExecThread, self' \in ExitCode, OthersStand(t), CallsStand(t),
           ProcsGrow, WinTypeOK', Called(t)', Told(t)'
    PROVE  WinInv'
<1>2. self' # "running"
  BY DEF ExitCode
<1>3. ASSUME NEW u \in WinThread, u # t PROVE Called(u)' /\ Told(u)'
  <2>1. Called(u) /\ Told(u)
    BY DEF WinInv
  <2>2. winAt[u] \notin {"gone", "execwait"}
    BY <1>3, <2>1 DEF Called
  <2> QED
    BY <1>2, <1>3, <2>1, <2>2, OthersTold
<1> QED
  BY <1>2, <1>3 DEF WinInv

\* The process ends with the code of the program it stands for.
LEMMA ExecFinishes ==
    ASSUME WinInv, NEW t \in WinThread, ExecFinish(t)
    PROVE  WinInv'
<1>0. /\ WinTypeOK /\ Held /\ Called(t) /\ Holds(t) /\ self = "running" /\ winAt[t] = "execwait"
  BY DEF WinInv, Held, ExecFinish, Now
<1>1. Ended(t) /\ CodeOf(winHnd[t]) = procs[winMine[t]].state
  BY <1>0, HandleTells DEF HasProcess, ExecFinish
<1>2. /\ self' = procs[winMine[t]].state /\ toExit' = 0 /\ hnds' = CloseHandle(hnds, {winHnd[t]})
      /\ WinGoto(t, "gone")
      /\ UNCHANGED <<winCall, winCfg, winPid, winHnd, winMine, winCode, procs, children>>
  BY <1>1 DEF ExecFinish
<1>3. self' \in ExitCode
  <2>1. IsProc(procs[winMine[t]])
    BY <1>0, <1>1 DEF WinTypeOK, Ended, Mine
  <2> QED
    BY <1>1, <1>2, <2>1 DEF Ended
<1>4. /\ winAt' \in [WinThread -> WinLabel] /\ winAt'[t] = "gone"
      /\ \A u \in WinThread : u # t => winAt'[u] = winAt[u]
  BY <1>0, <1>2, WinGotoIs DEF WinLabel
<1>5. OthersStand(t) /\ CallsStand(t)
  BY <1>2, <1>4 DEF OthersStand, CallsStand
<1>6. PICK S : procs \in Seq(S)
  BY <1>0 DEF WinTypeOK
<1>7. ProcsGrow
  BY <1>2, <1>6 DEF ProcsGrow, ProcsKept
<1>8. WinTypeOK'
  <2>1. ThreadsTyped'
    BY <1>0, <1>2, <1>4 DEF WinTypeOK, ThreadsTyped
  <2>2. /\ \A i \in 1 .. Len(procs') : IsProc(procs'[i])
        /\ children' \in [entries : Seq(ChildRec), num_max : Nat]
        /\ toExit' \in Handle \cup {0}
    BY <1>0, <1>2 DEF WinTypeOK
  <2>3. \E Q : procs' \in Seq(Q)
    BY <1>2, <1>6
  <2>4. hnds' \in [Handle -> SlotRec]
    BY <1>0, <1>2, CloseIs
  <2>5. self' \in ExitCode \cup {"running"}
    BY <1>3
  <2> QED
    BY <2>1, <2>2, <2>3, <2>4, <2>5 DEF WinTypeOK, ThreadsTyped
<1>9. Called(t)'
  <2>1. self' # "running"
    BY <1>3 DEF ExitCode
  <2> QED
    BY <1>0, <1>2, <1>4, <2>1 DEF Called, HasRead
<1>10. Told(t)'
  <2>1. Ended(t)'
    BY <1>1, <1>2 DEF Ended, Mine
  <2> QED
    BY <1>2, <1>4, <2>1 DEF Told, HasRead
<1>11. t = ExecThread
  BY <1>0 DEF Called
<1> QED
  BY <1>3, <1>5, <1>7, <1>8, <1>9, <1>10, <1>11, EndingStep

\* What a process was given does not change.
SameMap(p, q) == p.fds = q.fds /\ p.infos = q.infos /\ p.held = q.held /\ p.asked = q.asked

\* The state of one process is set.
LEMMA StateSet ==
    ASSUME WinTypeOK, NEW i \in 1 .. Len(procs), NEW code \in ExitCode \cup {Ending}
    PROVE  LET q == [procs EXCEPT ![i].state = code]
           IN  /\ Len(q) = Len(procs) /\ Len(procs) \in Nat /\ (\E S : q \in Seq(S))
               /\ \A j \in 1 .. Len(procs) :
                    /\ IsProc(q[j]) /\ q[j].pid = procs[j].pid /\ SameMap(q[j], procs[j])
                    /\ q[j].state = IF j = i THEN code ELSE procs[j].state
<1> DEFINE r == [procs[i] EXCEPT !.state = code]
           q == [procs EXCEPT ![i] = r]
<1>1. PICK S : procs \in Seq(S)
  BY DEF WinTypeOK
<1>2. IsProc(procs[i]) /\ \A j \in 1 .. Len(procs) : IsProc(procs[j])
  BY DEF WinTypeOK
<1>3. IsProc(r) /\ r.pid = procs[i].pid /\ r.state = code /\ SameMap(r, procs[i])
  <2> DEFINE p == procs[i]
  <2>1. IsProc(p)
    BY <1>2
  <2> HIDE DEF p
  <2>2. [p EXCEPT !.state = code] = [pid |-> p.pid, state |-> code, fds |-> p.fds, infos |-> p.infos,
                                     held |-> p.held, asked |-> p.asked]
    BY <2>1 DEF IsProc
  <2>3. r = [pid |-> p.pid, state |-> code, fds |-> p.fds, infos |-> p.infos,
             held |-> p.held, asked |-> p.asked]
    BY <2>2 DEF p
  <2>4. p.pid \in Nat
    BY <2>1 DEF IsProc
  <2> HIDE DEF r
  <2>5. r.pid = p.pid /\ r.state = code /\ SameMap(r, p)
    BY <2>3 DEF SameMap
  <2>6. IsProc(r)
    BY <2>3, <2>4 DEF IsProc
  <2> QED
    BY <2>5, <2>6 DEF p
<1> HIDE DEF r
<1>4. Len(procs) \in Nat /\ DOMAIN procs = 1 .. Len(procs)
  BY <1>1
<1>5. /\ q \in Seq(S \cup {r}) /\ Len(q) = Len(procs)
      /\ \A j \in 1 .. Len(procs) : q[j] = IF j = i THEN r ELSE procs[j]
  <2>1. procs \in Seq(S \cup {r})
    <3>1. \A j \in 1 .. Len(procs) : procs[j] \in S \cup {r}
      BY <1>1
    <3> QED
      BY <1>1, <3>1, SeqDef
  <2>2. q \in Seq(S \cup {r}) /\ Len(q) = Len(procs)
    BY <2>1
  <2>3. \A j \in 1 .. Len(procs) : q[j] = IF j = i THEN r ELSE procs[j]
    BY <1>4
  <2> QED
    BY <2>2, <2>3
<1> HIDE DEF q
<1>6. \A j \in 1 .. Len(procs) : /\ IsProc(q[j]) /\ q[j].pid = procs[j].pid /\ SameMap(q[j], procs[j])
                                 /\ q[j].state = IF j = i THEN code ELSE procs[j].state
  BY <1>2, <1>3, <1>5 DEF SameMap
<1>7. q = [procs EXCEPT ![i].state = code]
  BY DEF q, r
<1> QED
  BY <1>4, <1>5, <1>6, <1>7

\* The destructor waited_child() tells the program that is still running to end.
LEMMA ExitsEarly ==
    ASSUME WinInv, NEW t \in WinThread, ExitEarly(t)
    PROVE  WinInv'
<1> DEFINE i == winMine[t]
<1>0. /\ WinTypeOK /\ Held /\ Called(t) /\ Holds(t) /\ self = "running" /\ winAt[t] = "execwait"
  BY DEF WinInv, Held, ExitEarly, Now
<1>1. i \in 1 .. Len(procs) /\ hnds[winHnd[t]].obj = ProcObj(i)
  BY <1>0, HandleTells DEF HasProcess, Mine
<1>2. toExit = winHnd[t] /\ toExit # 0 /\ hnds[toExit].obj[2] = i
  <2>1. toExit = winHnd[t] /\ winHnd[t] \in Handle
    BY <1>0 DEF Holds, HasProcess
  <2> QED
    BY <1>1, <2>1, ObjectsDiffer, HandlesAre
<1>3. /\ self' = "ctrl_c" /\ toExit' = 0 /\ hnds' = CloseHandle(hnds, {toExit})
      /\ UNCHANGED <<winAt, winCall, winCfg, winPid, winHnd, winMine, winCode, children>>
      /\ \/ procs' = IF procs[i].state = Alive THEN [procs EXCEPT ![i].state = Ending] ELSE procs
         \/ RemoteThreadFails /\ procs' = procs
  <2>1. PICK started \in IF RemoteThreadFails THEN BOOLEAN ELSE {TRUE} :
            procs' = IF started /\ procs[i].state = Alive
                     THEN [procs EXCEPT ![i].state = Ending] ELSE procs
    BY <1>2 DEF ExitEarly
  <2>2. started = TRUE \/ (RemoteThreadFails /\ started = FALSE)
    BY <2>1
  <2> QED
    BY <2>1, <2>2 DEF ExitEarly
<1>4. self' \in ExitCode /\ self' # "running" /\ Ending # Alive
  BY <1>3 DEF ExitCode, Alive, Ending
<1>5. /\ Len(procs') = Len(procs) /\ Len(procs) \in Nat /\ (\E S : procs' \in Seq(S))
      /\ \A j \in 1 .. Len(procs) :
            /\ IsProc(procs'[j]) /\ procs'[j].pid = procs[j].pid
            /\ procs[j].state # Alive => procs'[j].state = procs[j].state
      /\ RemoteThreadFails \/ procs'[i].state # Alive
  <2>1. CASE procs[i].state = Alive /\ procs' # procs
    <3> DEFINE q == [procs EXCEPT ![i].state = Ending]
    <3>0. Ending \in ExitCode \cup {Ending} /\ i \in 1 .. Len(procs)
      BY <1>1
    <3> HIDE DEF i
    <3>1. /\ Len(q) = Len(procs) /\ Len(procs) \in Nat /\ (\E S : q \in Seq(S))
          /\ \A j \in 1 .. Len(procs) :
                /\ IsProc(q[j]) /\ q[j].pid = procs[j].pid /\ SameMap(q[j], procs[j])
                /\ q[j].state = IF j = i THEN Ending ELSE procs[j].state
      BY <1>0, <3>0, StateSet, Zenon
    <3>2. procs' = q
      BY <1>3, <2>1
    <3> HIDE DEF q
    <3> QED
      BY <1>1, <1>4, <2>1, <3>1, <3>2
  <2>2. CASE procs' = procs
    <3>2. PICK S : procs \in Seq(S)
      BY <1>0 DEF WinTypeOK
    <3>3. Len(procs) \in Nat
      BY <3>2
    <3>4. RemoteThreadFails \/ procs[i].state # Alive
      <4>1. CASE procs[i].state = Alive /\ ~RemoteThreadFails
        <5> DEFINE q == [procs EXCEPT ![i].state = Ending]
        <5>1. q[i].state = Ending
          BY <1>0, <1>1, StateSet
        <5>2. procs' = q
          BY <1>3, <4>1
        <5> HIDE DEF q
        <5> QED
          BY <1>4, <2>2, <4>1, <5>1, <5>2
      <4> QED
        BY <4>1
    <3> QED
      BY <1>0, <2>2, <3>2, <3>3, <3>4 DEF WinTypeOK
  <2> QED
    BY <1>3, <2>1, <2>2
<1>6. ProcsGrow
  BY <1>5 DEF ProcsGrow, ProcsKept
<1>7. OthersStand(t) /\ CallsStand(t)
  BY <1>3 DEF OthersStand, CallsStand
<1>8. WinTypeOK'
  <2>1. ThreadsTyped'
    BY <1>0, <1>3 DEF WinTypeOK, ThreadsTyped
  <2>2. children' \in [entries : Seq(ChildRec), num_max : Nat] /\ toExit' \in Handle \cup {0}
    BY <1>0, <1>3 DEF WinTypeOK
  <2>3. hnds' \in [Handle -> SlotRec]
    BY <1>0, <1>3, CloseIs
  <2>4. self' \in ExitCode \cup {"running"}
    BY <1>4
  <2>5. \A j \in 1 .. Len(procs') : IsProc(procs'[j])
    BY <1>5
  <2> QED
    BY <1>5, <2>1, <2>2, <2>3, <2>4, <2>5 DEF WinTypeOK, ThreadsTyped
<1>9. Called(t)'
  BY <1>0, <1>3 DEF Called
<1>10. Told(t)'
  <2>1. Doomed(t)'
    BY <1>1, <1>3, <1>5 DEF Doomed, Mine
  <2> QED
    BY <1>0, <1>3, <2>1 DEF Told, HasRead
<1>11. t = ExecThread
  BY <1>0 DEF Called
<1> QED
  BY <1>4, <1>6, <1>7, <1>8, <1>9, <1>10, <1>11, EndingStep

\* The process exits before mm_execv() has published the handle.
LEMMA ExitsBefore ==
    ASSUME WinInv, NEW t \in WinThread, ExitBeforeTakeOver(t)
    PROVE  WinInv'
<1>0. /\ WinTypeOK /\ Called(t) /\ Told(t) /\ winAt[t] \in {"created", "register", "exec"} /\ winCall[t].exec
  BY DEF WinInv, ExitBeforeTakeOver, Now
<1>1. /\ self' = "ctrl_c"
      /\ UNCHANGED <<winAt, winCall, winCfg, winPid, winHnd, winMine, winCode, hnds, procs, children, toExit>>
  BY DEF ExitBeforeTakeOver
<1>2. self' \in ExitCode
  BY <1>1 DEF ExitCode
<1>3. t = ExecThread
  BY <1>0 DEF Called
<1>4. PICK S : procs \in Seq(S)
  BY <1>0 DEF WinTypeOK
<1>5. ProcsGrow
  BY <1>1, <1>4 DEF ProcsGrow, ProcsKept
<1>6. OthersStand(t) /\ CallsStand(t)
  BY <1>1 DEF OthersStand, CallsStand
<1>7. WinTypeOK'
  BY <1>0, <1>1, <1>2 DEF WinTypeOK
<1>8. Called(t)'
  BY <1>0, <1>1 DEF Called
<1>9. Told(t)'
  BY <1>0, <1>1 DEF Told, HasRead
<1> QED
  BY <1>2, <1>3, <1>5, <1>6, <1>7, <1>8, <1>9, EndingStep

\* A process ends by itself, whatever this one is doing.
LEMMA OneEnds ==
    ASSUME WinInv, NEW i \in 1 .. Len(procs), ProcessEnds(i)
    PROVE  WinInv'
<1>0. WinTypeOK /\ procs[i].state \notin ExitCode
      /\ UNCHANGED <<winAt, winCall, winCfg, winPid, winHnd, winMine, winCode, hnds, children, toExit, self>>
  BY DEF WinInv, ProcessEnds
<1>1. PICK code \in ExitCode : procs' = [procs EXCEPT ![i].state = code]
  BY DEF ProcessEnds
<1>2. /\ Len(procs') = Len(procs) /\ Len(procs) \in Nat /\ (\E S : procs' \in Seq(S))
      /\ \A j \in 1 .. Len(procs) :
            /\ IsProc(procs'[j]) /\ procs'[j].pid = procs[j].pid
            /\ procs'[j].state = IF j = i THEN code ELSE procs[j].state
  BY <1>0, <1>1, StateSet
<1>3. code # Alive
  BY DEF ExitCode, Alive
<1>4. \A j \in 1 .. Len(procs) :
        /\ procs[j].state \in ExitCode => procs'[j].state = procs[j].state
        /\ procs[j].state # Alive => procs'[j].state # Alive
  BY <1>0, <1>2, <1>3
<1>5. WinTypeOK'
  <2>1. ThreadsTyped'
    BY <1>0 DEF WinTypeOK, ThreadsTyped
  <2>2. /\ children' \in [entries : Seq(ChildRec), num_max : Nat] /\ toExit' \in Handle \cup {0}
        /\ hnds' \in [Handle -> SlotRec] /\ self' \in ExitCode \cup {"running"}
    BY <1>0 DEF WinTypeOK
  <2>3. \A j \in 1 .. Len(procs') : IsProc(procs'[j])
    BY <1>2
  <2> QED
    BY <1>2, <2>1, <2>2, <2>3 DEF WinTypeOK, ThreadsTyped
<1>6. ASSUME NEW t \in WinThread PROVE Called(t)' /\ Told(t)'
  <2>1. Called(t) /\ Told(t)
    BY DEF WinInv
  <2>2. Ended(t) => Ended(t)' /\ procs'[winMine[t]].state = procs[winMine[t]].state
    BY <1>0, <1>2, <1>4 DEF Ended, Mine
  <2>2a. Doomed(t) => Doomed(t)'
    BY <1>0, <1>2, <1>4 DEF Doomed, Mine
  <2>3. Called(t)'
    BY <1>0, <2>1 DEF Called
  <2>4. Told(t)'
    BY <1>0, <2>1, <2>2, <2>2a DEF Told
  <2> QED
    BY <2>3, <2>4
<1>7. ASSUME Held PROVE Held'
  <2>1. OpenFd' = OpenFd /\ FdHandles' = FdHandles
    BY <1>0, FdsKept
  <2>2. TableRight' /\ FdFiles'
    BY <1>0, <1>7, <2>1 DEF Held, TableRight, FdFiles, Owns
  <2>3. \A t \in WinThread : winAt[t] \in HasProcess => Mine(t)' /\ procs'[winMine[t]].pid = procs[winMine[t]].pid
    BY <1>0, <1>2, <1>7 DEF Held, Holds, Mine
  <2>4. \A l \in InList : l \in HasProcess
    BY DEF InList, HasProcess
  <2>5. \A t \in WinThread : Holds(t)'
    <3> SUFFICES ASSUME NEW t \in WinThread PROVE Holds(t)'
      OBVIOUS
    <3>1. Holds(t)
      BY <1>7 DEF Held
    <3>2. (winAt[t] \in InList => winPid[t] = procs[winMine[t]].pid)'
      BY <1>0, <2>3, <2>4, <3>1 DEF Holds
    <3> QED
      BY <1>0, <2>3, <3>1, <3>2 DEF Holds
  <2>6. Apart'
    BY <1>0, <1>7 DEF Held, Apart
  <2>7. PidsDiffer'
    <3>1. \A j \in 1 .. Len(procs) : InUse(j)' => InUse(j)
      BY <1>0, <1>4 DEF InUse
    <3> QED
      BY <1>2, <1>7, <3>1 DEF Held, PidsDiffer
  <2>8. ListRight'
    <3>1. \A t \in WinThread : winAt[t] \in InList => EntryOf(t)' = EntryOf(t)
      BY <1>0, <2>3, <2>4 DEF EntryOf
    <3>2. ListRight
      BY <1>7 DEF Held
    <3>3. children' = children /\ winAt' = winAt
      BY <1>0
    <3>4. \A k \in 1 .. Len(children.entries) :
            \E t \in WinThread : winAt[t] \in InList /\ children.entries[k] = EntryOf(t)'
      BY <3>1, <3>2 DEF ListRight
    <3>5. \A t \in WinThread : winAt[t] \in InList =>
            \E k \in 1 .. Len(children.entries) : children.entries[k] = EntryOf(t)'
      BY <3>1, <3>2 DEF ListRight
    <3>6. \A k, l \in 1 .. Len(children.entries) :
            children.entries[k].pid = children.entries[l].pid => k = l
      BY <3>2 DEF ListRight
    <3> QED
      BY <3>3, <3>4, <3>5, <3>6 DEF ListRight
  <2> QED
    BY <2>2, <2>5, <2>6, <2>7, <2>8 DEF Held
<1> QED
  BY <1>0, <1>5, <1>6, <1>7 DEF WinInv

-----------------------------------------------------------------------------
(***************************************************************************)
(* The theorems                                                            *)
(***************************************************************************)
\* The invariant holds in every reachable state.
LEMMA WinInvariance ==
    ASSUME ~ListAllocFails
    PROVE  WinSpec => []WinInv
<1>1. WinInit => WinInv
  BY WinStarts
<1>2. WinInv /\ [WinNext]_winVars => WinInv'
  <2> SUFFICES ASSUME WinInv, [WinNext]_winVars PROVE WinInv'
    OBVIOUS
  <2>1. ASSUME NEW t \in WinThread, WinStep(t) PROVE WinInv'
    BY <2>1, SpawnCalled, ConfigInitialised, ProcessCreated, ConfigReleased, ChildRegistered,
       DaemonForgotten, HandleFound, ExitRead, ChildDropped, ChildClosed, ExecTakesOver,
       ExecFinishes, ExitsEarly, ExitsBefore DEF WinStep
  <2>2. ASSUME NEW i \in 1 .. Len(procs), ProcessEnds(i) PROVE WinInv'
    BY <2>2, OneEnds
  <2>3. ASSUME UNCHANGED winVars PROVE WinInv'
    BY <2>3, WinStutters
  <2> QED
    BY <2>1, <2>2, <2>3 DEF WinNext
<1> QED
  BY <1>1, <1>2, PTL DEF WinSpec

\* The codes that were read are those of the own child.
LEMMA InvTells ==
    ASSUME ~RemoteThreadFails
    PROVE  WinInv => WaitTellsOwnChild
<1> SUFFICES ASSUME WinInv PROVE WaitTellsOwnChild
  OBVIOUS
<1>1. self # "aborted"
  BY DEF WinInv, WinTypeOK, ExitCode
<1>2. ASSUME NEW t \in WinThread
      PROVE  /\ winAt[t] # "echild"
             /\ (winAt[t] = "done" /\ winCode[t] # "none") =>
                    winCode[t] = translate_exitcode_in_status(procs[winMine[t]].state)
             /\ (winAt[t] \in {"gone", "execwait"} /\ self \in ExitCode) =>
                    /\ procs[winMine[t]].state # Alive
                    /\ winAt[t] = "gone" => self = procs[winMine[t]].state
  <2>1. winAt[t] \in WinLabel /\ Told(t)
    BY DEF WinInv, WinTypeOK
  <2>2. winAt[t] # "echild"
    BY <2>1 DEF WinLabel, HasProcess, Inheriting
  <2>3. self \in ExitCode => self # "running"
    BY DEF ExitCode
  <2> QED
    BY <2>1, <2>2, <2>3 DEF Told, Ended, Doomed, ExitCode, Alive
<1> QED
  BY <1>1, <1>2 DEF WaitTellsOwnChild

\* The handles that are open are those somebody has to close.
LEMMA InvAccounts == WinInv => HandlesAccounted
<1> SUFFICES ASSUME WinInv, self = "running" PROVE HandlesAccounted
  BY DEF HandlesAccounted
<1> DEFINE s == children.entries
           Listed == {e.hnd : e \in Range(s)}
           Passing == UNION {winCfg[t].inherited : t \in {u \in WinThread :
                                winAt[u] \in {"create", "created", "abort"}}}
           Working == {winHnd[t] : t \in {u \in WinThread :
                                winAt[u] \in {"created", "register", "close", "execwait"}}}
<1>0. WinTypeOK /\ Held /\ TableRight /\ ListRight
  BY DEF WinInv, Held
<1>1. s \in Seq(ChildRec)
  BY <1>0 DEF WinTypeOK
<1>2. Range(s) = {s[k] : k \in 1 .. Len(s)}
  <2> HIDE DEF s
  <2> QED
    BY <1>1 DEF Range
<1>3. \A k \in 1 .. Len(s) : \E t \in WinThread : winAt[t] \in InList /\ s[k] = EntryOf(t)
  BY <1>0 DEF ListRight
<1>4. \A t \in WinThread : winAt[t] \in InList => \E k \in 1 .. Len(s) : s[k] = EntryOf(t)
  BY <1>0 DEF ListRight
<1>5. \A t : EntryOf(t).hnd = winHnd[t] /\ EntryOf(t).pid = procs[winMine[t]].pid
  BY DEF EntryOf
<1>6. \A l : l \in HasProcess <=> l \in InList \/ l \in {"created", "register", "close", "execwait"}
  BY DEF HasProcess, InList
<1>7. \A h : (\E t \in WinThread : Owns(t, h)) <=> h \in Listed \cup Passing \cup Working
  <2> SUFFICES ASSUME NEW h PROVE (\E t \in WinThread : Owns(t, h)) <=> h \in Listed \cup Passing \cup Working
    OBVIOUS
  <2>1. h \in Listed <=> \E t \in WinThread : winAt[t] \in InList /\ h = winHnd[t]
    <3>1. h \in Listed <=> \E k \in 1 .. Len(s) : h = s[k].hnd
      BY <1>2
    <3> HIDE DEF s, Listed
    <3> QED
      BY <1>3, <1>4, <1>5, <3>1
  <2>2. h \in Passing <=> \E t \in WinThread : winAt[t] \in Inheriting /\ h \in winCfg[t].inherited
    BY DEF Inheriting
  <2>3. h \in Working <=> \E t \in WinThread :
            winAt[t] \in {"created", "register", "close", "execwait"} /\ h = winHnd[t]
    OBVIOUS
  <2>4. \A t \in WinThread : h \in winCfg[t].inherited => winAt[t] \in Inheriting
    BY <1>0 DEF Held, Holds
  <2> HIDE DEF Listed, Passing, Working
  <2>5. ASSUME NEW t \in WinThread, Owns(t, h) PROVE h \in Listed \cup Passing \cup Working
    BY <1>6, <2>1, <2>2, <2>3, <2>4, <2>5 DEF Owns
  <2>6. ASSUME h \in Listed \cup Passing \cup Working PROVE \E t \in WinThread : Owns(t, h)
    BY <1>6, <2>1, <2>2, <2>3, <2>6 DEF Owns
  <2> QED
    BY <2>5, <2>6
<1>8. \A t \in WinThread : \A h : Owns(t, h) => h \in Handle
  BY <1>0, OwnersApart
<1>9. \A h \in FdHandles : h \in Handle
  <2> SUFFICES ASSUME NEW h \in FdHandles PROVE h \in Handle
    OBVIOUS
  <2>1. PICK fd \in OpenFd : h = fd + 1
    BY HandlesAre
  <2>2. fd \in 0 .. 3 /\ fd + 1 \in 1 .. 4
    BY HandlesAre
  <2> QED
    BY <2>1, <2>2, HandlesAre
<1>10. {h \in Handle : hnds[h] # FreeSlot} = FdHandles \cup Listed \cup Passing \cup Working
  <2> HIDE DEF Listed, Passing, Working
  <2> QED
    BY <1>0, <1>7, <1>8, <1>9 DEF TableRight
<1>11. \A e \in Range(s) : \E i \in 1 .. Len(procs) : hnds[e.hnd].obj = ProcObj(i) /\ procs[i].pid = e.pid
  <2> SUFFICES ASSUME NEW k \in 1 .. Len(s)
               PROVE  \E i \in 1 .. Len(procs) : hnds[s[k].hnd].obj = ProcObj(i) /\ procs[i].pid = s[k].pid
    BY <1>2
  <2>1. PICK t \in WinThread : winAt[t] \in InList /\ s[k] = EntryOf(t)
    BY <1>3
  <2>2. winAt[t] \in HasProcess /\ Holds(t)
    BY <1>0, <1>6, <2>1 DEF Held
  <2>3. Mine(t) /\ hnds[winHnd[t]].obj = ProcObj(winMine[t])
    BY <1>0, <2>2, HandleTells
  <2> QED
    BY <1>5, <2>1, <2>3 DEF Mine
<1>12. \A i, j \in 1 .. Len(s) : s[i].pid = s[j].pid => i = j
  BY <1>0 DEF ListRight
<1> QED
  BY <1>10, <1>11, <1>12, Zenon DEF HandlesAccounted

\* mm_wait_process() returns the status of the process that was created for the
\* caller, and a process that stands for a program ends with its code or has told
\* it to end, when CreateRemoteThread() and realloc() do not fail.
THEOREM WaitRight ==
    ASSUME ~ListAllocFails, ~RemoteThreadFails
    PROVE  WinSpec => []WaitTellsOwnChild
BY WinInvariance, InvTells, PTL

\* No handle is left behind, or closed twice, on any path of mm_spawn(),
\* mm_wait_process() and mm_execv().
THEOREM HandlesRight ==
    ASSUME ~ListAllocFails
    PROVE  WinSpec => []HandlesAccounted
BY WinInvariance, InvAccounts, PTL

-----------------------------------------------------------------------------
(***************************************************************************)
(* What a child is given                                                   *)
(***************************************************************************)
ProcRight(p) ==
    /\ \A fd \in DOMAIN p.fds :
        /\ p.fds[fd] = AskedFile(p.asked, fd)
        /\ p.fds[fd] # NoObject => p.infos[fd] = get_fd_info(p.fds[fd][2])
    /\ p.held = Range(p.fds) \ {NoObject} \/ \A fd \in DOMAIN p.fds : p.fds[fd] = NoObject

\* Where a process is about to be created, its configuration is complete.
MapInv ==
    /\ \A i \in 1 .. Len(procs) : ProcRight(procs[i])
    /\ self = "running" =>
        \A t \in WinThread : winAt[t] = "create" => ConfigRight(winCfg[t], hnds, winCall[t].fd_map)

\* A process that is created from a complete configuration has what was asked.
LEMMA CreatedRight ==
    ASSUME NEW t \in WinThread, NEW pid, ConfigRight(winCfg[t], hnds, winCall[t].fd_map),
           winCfg[t].inherited # {}
    PROVE  ProcRight(Created(t, pid))
<1> DEFINE c == winCfg[t]
           m == winCall[t].fd_map
           r == Created(t, pid)
           F(fd) == IF "FOPEN" \in c.flags[fd] /\ c.hnd[fd] \in c.inherited
                    THEN hnds[c.hnd[fd]].obj ELSE NoObject
<1>1. PICK n \in Nat :
        /\ c \in Config(n)
        /\ \A fd \in Fds(n) :
            \/ AskedFile(m, fd) = NoObject /\ "FOPEN" \notin c.flags[fd]
            \/ \E p \in 0 .. 3 :
                /\ AskedFile(m, fd) = FileObj(p) /\ "FOPEN" \in c.flags[fd]
                /\ c.hnd[fd] \in c.inherited /\ hnds[c.hnd[fd]].obj = FileObj(p)
                /\ c.infos[fd] = get_fd_info(p)
        /\ \A h \in c.inherited : \E fd \in Fds(n) : "FOPEN" \in c.flags[fd] /\ c.hnd[fd] = h
        /\ \A fd \in Nat : fd \notin Fds(n) => AskedFile(m, fd) = NoObject
  BY DEF ConfigRight
<1>2. c.inherited # {}
  OBVIOUS
<1>3. DOMAIN c.hnd = Fds(n)
  <2> HIDE DEF c
  <2> QED
    BY <1>1 DEF Config
<1>4. r = [pid |-> pid, state |-> Alive, fds |-> [fd \in DOMAIN c.hnd |-> F(fd)], infos |-> c.infos,
           held |-> {hnds[x].obj : x \in c.inherited}, asked |-> m]
  BY <1>2 DEF Created
<1> HIDE DEF r, c, m, F
<1>5. /\ r.fds = [fd \in Fds(n) |-> F(fd)] /\ r.infos = c.infos /\ r.asked = m
      /\ r.held = {hnds[x].obj : x \in c.inherited}
  BY <1>3, <1>4
<1>6. ASSUME NEW fd \in Fds(n)
      PROVE  /\ F(fd) = AskedFile(m, fd)
             /\ F(fd) # NoObject => /\ "FOPEN" \in c.flags[fd] /\ c.hnd[fd] \in c.inherited
                                    /\ F(fd) = hnds[c.hnd[fd]].obj /\ c.infos[fd] = get_fd_info(F(fd)[2])
             /\ "FOPEN" \in c.flags[fd] => F(fd) # NoObject /\ F(fd) = hnds[c.hnd[fd]].obj
  <2>1. CASE AskedFile(m, fd) = NoObject /\ "FOPEN" \notin c.flags[fd]
    BY <2>1 DEF F
  <2>2. ASSUME NEW p \in 0 .. 3, AskedFile(m, fd) = FileObj(p), "FOPEN" \in c.flags[fd],
               c.hnd[fd] \in c.inherited, hnds[c.hnd[fd]].obj = FileObj(p), c.infos[fd] = get_fd_info(p)
        PROVE  /\ F(fd) = AskedFile(m, fd) /\ F(fd) # NoObject
               /\ "FOPEN" \in c.flags[fd] /\ c.hnd[fd] \in c.inherited
               /\ F(fd) = hnds[c.hnd[fd]].obj /\ c.infos[fd] = get_fd_info(F(fd)[2])
    <3>1. F(fd) = FileObj(p)
      BY <2>2 DEF F
    <3>2. FileObj(p) # NoObject /\ FileObj(p)[2] = p
      BY ObjectsDiffer
    <3> QED
      BY <2>2, <3>1, <3>2
  <2> QED
    BY <1>1, <2>1, <2>2
<1>7. DOMAIN r.fds = Fds(n) /\ \A fd \in Fds(n) : r.fds[fd] = F(fd)
  BY <1>5
<1>8. \A fd \in DOMAIN r.fds :
        /\ r.fds[fd] = AskedFile(r.asked, fd)
        /\ r.fds[fd] # NoObject => r.infos[fd] = get_fd_info(r.fds[fd][2])
  BY <1>5, <1>6, <1>7
<1>9. \A o : o \in r.held <=> o \in Range(r.fds) \ {NoObject}
  <2> SUFFICES ASSUME NEW o PROVE o \in r.held <=> o \in Range(r.fds) \ {NoObject}
    OBVIOUS
  <2>1. o \in Range(r.fds) <=> \E fd \in Fds(n) : o = F(fd)
    BY <1>7 DEF Range
  <2>2. o \in r.held <=> \E x \in c.inherited : o = hnds[x].obj
    BY <1>5
  <2>3. ASSUME o \in r.held PROVE o \in Range(r.fds) \ {NoObject}
    <3>1. PICK x \in c.inherited : o = hnds[x].obj
      BY <2>2, <2>3
    <3>2. PICK fd \in Fds(n) : "FOPEN" \in c.flags[fd] /\ c.hnd[fd] = x
      BY <1>1
    <3>3. o = F(fd) /\ F(fd) # NoObject
      BY <1>6, <3>1, <3>2
    <3> QED
      BY <2>1, <3>3
  <2>4. ASSUME o \in Range(r.fds), o # NoObject PROVE o \in r.held
    BY <1>6, <2>1, <2>2, <2>4
  <2> QED
    BY <2>3, <2>4
<1>10. r.held = Range(r.fds) \ {NoObject}
  BY <1>9
<1>11. ProcRight(r)
  BY <1>8, <1>10 DEF ProcRight
<1> QED
  BY <1>11 DEF r

\* One that is to have no file has none, whatever handles it inherits.
LEMMA CreatedBare ==
    ASSUME NEW t \in WinThread, NEW pid, ConfigRight(winCfg[t], hnds, winCall[t].fd_map),
           winCfg[t].inherited = {}
    PROVE  ProcRight(Created(t, pid))
<1> DEFINE c == winCfg[t]
           m == winCall[t].fd_map
           r == Created(t, pid)
           passed == {h \in Handle : hnds[h].inherit}
           F(fd) == IF "FOPEN" \in c.flags[fd] /\ c.hnd[fd] \in passed
                    THEN hnds[c.hnd[fd]].obj ELSE NoObject
<1>1. PICK n \in Nat :
        /\ c \in Config(n)
        /\ \A fd \in Fds(n) :
            \/ AskedFile(m, fd) = NoObject /\ "FOPEN" \notin c.flags[fd]
            \/ \E p \in 0 .. 3 :
                /\ AskedFile(m, fd) = FileObj(p) /\ "FOPEN" \in c.flags[fd]
                /\ c.hnd[fd] \in c.inherited /\ hnds[c.hnd[fd]].obj = FileObj(p)
                /\ c.infos[fd] = get_fd_info(p)
  BY DEF ConfigRight
<1>2. DOMAIN c.hnd = Fds(n)
  <2> HIDE DEF c
  <2> QED
    BY <1>1 DEF Config
<1>3. r = [pid |-> pid, state |-> Alive, fds |-> [fd \in DOMAIN c.hnd |-> F(fd)], infos |-> c.infos,
           held |-> {hnds[x].obj : x \in passed}, asked |-> m]
  BY DEF Created
<1>4. \A fd \in Fds(n) : AskedFile(m, fd) = NoObject /\ "FOPEN" \notin c.flags[fd]
  BY <1>1
<1> HIDE DEF r, c, m, F, passed
<1>5. /\ r.fds = [fd \in Fds(n) |-> F(fd)] /\ r.asked = m
  BY <1>2, <1>3
<1>6. \A fd \in Fds(n) : F(fd) = NoObject
  BY <1>4 DEF F
<1>7. DOMAIN r.fds = Fds(n) /\ \A fd \in Fds(n) : r.fds[fd] = NoObject
  BY <1>5, <1>6
<1>8. ProcRight(r)
  BY <1>4, <1>5, <1>7 DEF ProcRight
<1> QED
  BY <1>8 DEF r

\* What a step of thread u leaves alone while the process goes on.
LeftAlone(u) ==
    \A t \in WinThread : t # u =>
        /\ winAt'[t] = winAt[t] /\ winCfg'[t] = winCfg[t] /\ winCall'[t] = winCall[t]
        /\ \A h \in winCfg[t].inherited : hnds'[h] = hnds[h]

\* A complete configuration stays complete while its handles are left alone.
LEMMA RightKept ==
    ASSUME NEW c, NEW m, NEW T, NEW U, ConfigRight(c, T, m), \A h \in c.inherited : U[h] = T[h]
    PROVE  ConfigRight(c, U, m)
BY DEF ConfigRight

\* A step of one thread leaves the configurations of the others complete.
LEMMA LeftAloneStep ==
    ASSUME MapInv, self = "running", NEW u \in WinThread, LeftAlone(u),
           winAt'[u] = "create" => ConfigRight(winCfg'[u], hnds', winCall'[u].fd_map),
           \A i \in 1 .. Len(procs') : ProcRight(procs'[i])
    PROVE  MapInv'
<1>1. ASSUME NEW t \in WinThread, t # u, winAt'[t] = "create"
      PROVE  ConfigRight(winCfg'[t], hnds', winCall'[t].fd_map)
  <2>1. /\ winAt[t] = "create" /\ winCfg'[t] = winCfg[t] /\ winCall'[t] = winCall[t]
        /\ \A h \in winCfg[t].inherited : hnds'[h] = hnds[h]
    BY <1>1 DEF LeftAlone
  <2>2. ConfigRight(winCfg[t], hnds, winCall[t].fd_map)
    BY <2>1 DEF MapInv
  <2>3. ConfigRight(winCfg[t], hnds', winCall[t].fd_map)
    BY <2>1, <2>2, RightKept
  <2> QED
    BY <2>1, <2>3
<1>2. \A t \in WinThread : winAt'[t] = "create" => ConfigRight(winCfg'[t], hnds', winCall'[t].fd_map)
  BY <1>1
<1> QED
  BY <1>2 DEF MapInv, ProcRight

\* The steps that touch no handle of another thread, one after the other.
LEMMA StepsApart ==
    ASSUME WinInv, self = "running", self' = "running", NEW u \in WinThread, WinStep(u)
    PROVE  LeftAlone(u)
<1>0. WinTypeOK /\ Held /\ Holds(u) /\ Called(u) /\ FdFiles
  BY DEF WinInv, Held
<1>1. \A t \in WinThread : \A h \in winCfg[t].inherited :
        h \in Handle /\ Owns(t, h) /\ hnds[h] # FreeSlot /\ h \notin FdHandles
  BY <1>0, OwnersApart DEF Owns
<1>2. \A t \in WinThread : t # u => \A h \in winCfg[t].inherited : ~Owns(u, h)
  BY <1>0, <1>1, OwnersApart
<1>3. ASSUME NEW l, WinGoto(u, l), winCfg' = winCfg, winCall' = winCall, hnds' = hnds PROVE LeftAlone(u)
  BY <1>0, <1>3 DEF WinTypeOK, WinGoto, LeftAlone
<1>4. ASSUME NEW l, WinGoto(u, l), NEW H, \A h \in H : Owns(u, h) \/ h \in FdHandles,
             hnds' = CloseHandle(hnds, H), winCall' = winCall,
             \A t \in WinThread : t # u => winCfg'[t] = winCfg[t]
      PROVE  LeftAlone(u)
  <2>1. \A h \in Handle : hnds'[h] = IF h \in H THEN FreeSlot ELSE hnds[h]
    BY <1>0, <1>4, CloseIs
  <2>2. \A t \in WinThread : t # u => \A h \in winCfg[t].inherited : hnds'[h] = hnds[h]
    BY <1>1, <1>2, <1>4, <2>1
  <2>3. \A t \in WinThread : t # u => winAt'[t] = winAt[t]
    BY <1>0, <1>4 DEF WinTypeOK, WinGoto
  <2> QED
    BY <1>4, <2>2, <2>3 DEF LeftAlone
<1>5. CASE CallSpawn(u)
  BY <1>0, <1>5 DEF CallSpawn, WinTypeOK, WinGoto, LeftAlone
<1>6. CASE startup_config_init(u)
  <2>0. winCall[u] \in WinCalls
    BY <1>0, <1>6 DEF Called, startup_config_init, Now
  <2>1. winCall' = winCall
    BY <1>6 DEF startup_config_init
  <2>2. CASE WinGoto(u, "done") /\ UNCHANGED <<winCfg, hnds>>
    BY <1>3, <2>1, <2>2
  <2>3. ASSUME NEW d, NEW l, Initialises(u, d, l) PROVE LeftAlone(u)
    <3>1. \A t \in WinThread : t # u => winAt'[t] = winAt[t] /\ winCfg'[t] = winCfg[t]
      BY <1>0, <2>3 DEF WinTypeOK, WinGoto, Initialises
    <3>2. \A t \in WinThread : t # u => \A h \in winCfg[t].inherited : hnds'[h] = hnds[h]
      BY <1>1, <2>3 DEF Initialises, Duplicates
    <3> QED
      BY <2>1, <3>1, <3>2 DEF LeftAlone
  <2> QED
    BY <1>0, <1>6, <2>0, <2>2, <2>3, InitIs
<1>7. CASE CreateProcess(u)
  <2>1. CASE WinGoto(u, "abort") /\ UNCHANGED <<winCall, winCfg, winPid, winCode, winHnd, winMine, procs, hnds,
                                             children, toExit, self>>
    BY <1>3, <2>1
  <2>2. ASSUME NEW pid \in Pid, NEW h \in Handle, Creates(u, Created(u, pid), h) PROVE LeftAlone(u)
    <3>1. winCall' = winCall /\ winCfg' = winCfg /\ \A t \in WinThread : t # u => winAt'[t] = winAt[t]
      BY <1>0, <2>2 DEF WinTypeOK, WinGoto, Creates
    <3>2. \A x \in Handle : hnds[x] # FreeSlot => hnds'[x] = hnds[x]
      BY <1>0, <2>2 DEF WinTypeOK, Creates
    <3> QED
      BY <1>1, <3>1, <3>2 DEF LeftAlone
  <2> QED
    BY <1>0, <1>7, <2>1, <2>2, CreateIs
<1>8. CASE startup_config_deinit(u)
  <2>1. PICK l : WinGoto(u, l)
    BY <1>8 DEF startup_config_deinit
  <2>2. \A t \in WinThread : t # u => winCfg'[t] = winCfg[t]
    BY <1>0, <1>8 DEF startup_config_deinit, WinTypeOK
  <2>3. hnds' = CloseHandle(hnds, winCfg[u].inherited) /\ winCall' = winCall
    BY <1>8 DEF startup_config_deinit
  <2>4. \A h \in winCfg[u].inherited : Owns(u, h)
    BY DEF Owns
  <2> QED
    BY <1>4, <2>1, <2>2, <2>3, <2>4
<1>9. CASE RegisterChild(u)
  BY <1>3, <1>9 DEF RegisterChild
<1>10. CASE ForgetDaemon(u)
  <2>1. \A h \in {winHnd[u]} : Owns(u, h)
    BY <1>10 DEF ForgetDaemon, Now, Owns, HasProcess
  <2> QED
    BY <1>4, <1>10, <2>1 DEF ForgetDaemon
<1>11. CASE GetHandle(u)
  BY <1>3, <1>11 DEF GetHandle
<1>12. CASE WaitExit(u)
  BY <1>3, <1>12 DEF WaitExit
<1>13. CASE DropChild(u)
  <2>1. WinGoto(u, "close")
    BY <1>13 DEF DropChild
  <2> QED
    BY <1>3, <1>13, <2>1 DEF DropChild
<1>14. CASE CloseChild(u)
  <2>1. \A h \in {winHnd[u]} : Owns(u, h)
    BY <1>14 DEF CloseChild, Now, Owns, HasProcess
  <2> QED
    BY <1>4, <1>14, <2>1 DEF CloseChild
<1>15. CASE ExecTakeOver(u)
  <2>1. /\ WinGoto(u, "execwait") /\ hnds' = CloseHandle(hnds, {fd + 1 : fd \in KnownFds})
        /\ winCall' = winCall /\ winCfg' = winCfg
    BY <1>15 DEF ExecTakeOver
  <2>2. \A t \in WinThread : winAt[t] \notin {"execwait", "gone"}
    <3> SUFFICES ASSUME NEW t \in WinThread PROVE winAt[t] \notin {"execwait", "gone"}
      OBVIOUS
    <3>1. Called(t) /\ winAt[u] = "exec"
      BY <1>15 DEF WinInv, ExecTakeOver, Now
    <3> QED
      BY <1>0, <3>1 DEF Called
  <2>3. OpenFd = 0 .. 3 /\ KnownFds \subseteq 0 .. 3
    BY <2>2, ProcessAssumption DEF OpenFd
  <2>4. \A h \in {fd + 1 : fd \in KnownFds} : h \in FdHandles
    BY <2>3, HandlesAre
  <2> QED
    BY <1>4, <2>1, <2>4
<1>16. CASE ExecFinish(u)
  <2>1. \A h \in {winHnd[u]} : Owns(u, h)
    BY <1>16 DEF ExecFinish, Now, Owns, HasProcess
  <2> QED
    BY <1>4, <1>16, <2>1 DEF ExecFinish
<1>17. CASE ExitEarly(u) \/ ExitBeforeTakeOver(u)
  BY <1>17 DEF ExitEarly, ExitBeforeTakeOver
<1> QED
  BY <1>5, <1>6, <1>7, <1>8, <1>9, <1>10, <1>11, <1>12, <1>13, <1>14, <1>15, <1>16, <1>17 DEF WinStep

\* Of the steps of a thread, one creates a process, and one tells a process to end.
LEMMA ProcsRight ==
    ASSUME WinInv, MapInv, NEW u \in WinThread, WinStep(u)
    PROVE  \A i \in 1 .. Len(procs') : ProcRight(procs'[i])
<1>0. WinTypeOK /\ self = "running"
  BY DEF WinInv, WinStep, CallSpawn, startup_config_init, CreateProcess, startup_config_deinit, RegisterChild,
         ForgetDaemon, GetHandle, WaitExit, DropChild, CloseChild, ExecTakeOver, ExecFinish, ExitEarly,
         ExitBeforeTakeOver, Now
<1>1. \A i \in 1 .. Len(procs) : ProcRight(procs[i])
  BY DEF MapInv
<1>2. \A p, q : SameMap(p, q) /\ ProcRight(q) => ProcRight(p)
  BY DEF SameMap, ProcRight
<1>3. CASE procs' = procs
  BY <1>1, <1>3
<1>4. CASE CreateProcess(u)
  <2>1. ASSUME NEW pid \in Pid, NEW h \in Handle, Creates(u, Created(u, pid), h)
        PROVE  \A i \in 1 .. Len(procs') : ProcRight(procs'[i])
    <3>1. winAt[u] = "create" /\ Called(u)
      BY <1>4 DEF WinInv, CreateProcess, Now
    <3>2. ConfigRight(winCfg[u], hnds, winCall[u].fd_map)
      BY <1>0, <3>1 DEF MapInv
    <3>4. ProcRight(Created(u, pid))
      BY <3>2, CreatedRight, CreatedBare
    <3>5. PICK S : procs \in Seq(S)
      BY <1>0 DEF WinTypeOK
    <3> DEFINE r == Created(u, pid)
               n == Len(procs)
    <3> HIDE DEF r
    <3>6. procs' = Append(procs, r)
      BY <2>1 DEF Creates, r
    <3>7. /\ n \in Nat /\ Len(procs') = n + 1 /\ procs'[n + 1] = r
          /\ \A i \in 1 .. n : procs'[i] = procs[i]
      BY <3>5, <3>6, OneMore
    <3>8. \A i \in 1 .. n + 1 : i \in 1 .. n \/ i = n + 1
      BY <3>7
    <3> QED
      BY <1>1, <3>4, <3>7, <3>8 DEF r
  <2> QED
    BY <1>0, <1>3, <1>4, <2>1, CreateIs
<1>5. CASE ExitEarly(u)
  <2> DEFINE i == hnds[toExit].obj[2]
  <2>1. Held /\ Holds(u) /\ winAt[u] = "execwait"
    BY <1>0, <1>5 DEF WinInv, Held, ExitEarly, Now
  <2>2. i = winMine[u] /\ winMine[u] \in 1 .. Len(procs)
    <3>1. toExit = winHnd[u] /\ Mine(u) /\ hnds[winHnd[u]].obj = ProcObj(winMine[u])
      BY <1>0, <2>1, HandleTells DEF Holds, HasProcess
    <3> QED
      BY <3>1, ObjectsDiffer DEF Mine
  <2>3. procs' = procs \/ procs' = [procs EXCEPT ![i].state = Ending]
    BY <1>5 DEF ExitEarly
  <2> HIDE DEF i
  <2> DEFINE q == [procs EXCEPT ![i].state = Ending]
  <2>4. Len(q) = Len(procs) /\ \A j \in 1 .. Len(procs) : SameMap(q[j], procs[j])
    <3>1. i \in 1 .. Len(procs)
      BY <2>2
    <3> QED
      BY <1>0, <3>1, StateSet
  <2> HIDE DEF q
  <2>5. CASE procs' = q
    BY <1>1, <1>2, <2>4, <2>5
  <2> QED
    BY <1>3, <2>3, <2>5 DEF q
<1> QED
  BY <1>3, <1>4, <1>5 DEF WinStep, CallSpawn, startup_config_init, startup_config_deinit, RegisterChild,
         ForgetDaemon, GetHandle, WaitExit, DropChild, CloseChild, ExecTakeOver, ExecFinish, ExitBeforeTakeOver

\* The step that gets a thread to create has completed its configuration.
LEMMA CreateReady ==
    ASSUME WinInv, self = "running", NEW u \in WinThread, WinStep(u), winAt'[u] = "create"
    PROVE  ConfigRight(winCfg'[u], hnds', winCall'[u].fd_map)
<1>0. WinTypeOK /\ Called(u) /\ FdFiles
  BY DEF WinInv, Held
<1>1. \A l : WinGoto(u, l) => l = "create"
  BY <1>0 DEF WinTypeOK, WinGoto
<1>2. startup_config_init(u)
  <2>1. ~CallSpawn(u) /\ ~CreateProcess(u) /\ ~startup_config_deinit(u) /\ ~RegisterChild(u)
    BY <1>1 DEF CallSpawn, CreateProcess, startup_config_deinit, RegisterChild
  <2>2. ~ForgetDaemon(u) /\ ~GetHandle(u) /\ ~WaitExit(u) /\ ~CloseChild(u) /\ ~ExecFinish(u)
    BY <1>1 DEF ForgetDaemon, GetHandle, WaitExit, CloseChild, ExecFinish
  <2>3. ~DropChild(u) /\ ~ExecTakeOver(u) /\ ~ExitEarly(u) /\ ~ExitBeforeTakeOver(u)
    BY <1>1 DEF DropChild, ExecTakeOver, ExitEarly, ExitBeforeTakeOver, Now
  <2> QED
    BY <2>1, <2>2, <2>3 DEF WinStep
<1>3. winCall[u] \in WinCalls
  BY <1>0, <1>2 DEF Called, startup_config_init, Now
<1>4. winCall' = winCall /\ \E d, l : Initialises(u, d, l)
  BY <1>0, <1>1, <1>2, <1>3, InitIs
<1>5. PICK d, l : Initialises(u, d, l)
  BY <1>4
<1>6. ConfigRight(d.cfg, d.table, winCall[u].fd_map)
  BY <1>1, <1>5 DEF Initialises
<1>7. winCfg'[u] = d.cfg /\ hnds' = d.table
  BY <1>0, <1>5 DEF Initialises, WinTypeOK
<1> QED
  BY <1>4, <1>6, <1>7

\* Configurations are complete, and children right, in every reachable state.
LEMMA MapInvariance ==
    ASSUME ~ListAllocFails
    PROVE  WinSpec => []MapInv
<1>1. WinInit => MapInv
  <2> SUFFICES ASSUME WinInit PROVE MapInv
    OBVIOUS
  <2>1. Len(procs) = 0 /\ \A t \in WinThread : winAt[t] = "idle"
    BY DEF WinInit
  <2> QED
    BY <2>1 DEF MapInv
<1>2. WinInv /\ MapInv /\ [WinNext]_winVars => MapInv'
  <2> SUFFICES ASSUME WinInv, MapInv, [WinNext]_winVars PROVE MapInv'
    OBVIOUS
  <2>1. ASSUME NEW u \in WinThread, WinStep(u) PROVE MapInv'
    <3>0. self = "running"
      BY <2>1 DEF WinStep, CallSpawn, startup_config_init, CreateProcess, startup_config_deinit, RegisterChild,
         ForgetDaemon, GetHandle, WaitExit, DropChild, CloseChild, ExecTakeOver, ExecFinish, ExitEarly,
         ExitBeforeTakeOver, Now
    <3>1. \A i \in 1 .. Len(procs') : ProcRight(procs'[i])
      BY <2>1, ProcsRight
    <3>2. CASE self' # "running"
      BY <3>1, <3>2 DEF MapInv, ProcRight
    <3>3. CASE self' = "running"
      <4>1. LeftAlone(u)
        BY <2>1, <3>0, <3>3, StepsApart
      <4>2. winAt'[u] = "create" => ConfigRight(winCfg'[u], hnds', winCall'[u].fd_map)
        BY <2>1, <3>0, CreateReady
      <4> QED
        BY <3>0, <3>1, <4>1, <4>2, LeftAloneStep
    <3> QED
      BY <3>2, <3>3
  <2>2. ASSUME NEW i \in 1 .. Len(procs), ProcessEnds(i) PROVE MapInv'
    <3>0. WinTypeOK /\ UNCHANGED <<winAt, winCall, winCfg, hnds, self>>
      BY <2>2 DEF WinInv, ProcessEnds
    <3>1. PICK code \in ExitCode : procs' = [procs EXCEPT ![i].state = code]
      BY <2>2 DEF ProcessEnds
    <3>2. Len(procs') = Len(procs) /\ \A j \in 1 .. Len(procs) : SameMap(procs'[j], procs[j])
      BY <3>0, <3>1, StateSet
    <3>3. \A p, q : SameMap(p, q) /\ ProcRight(q) => ProcRight(p)
      BY DEF SameMap, ProcRight
    <3>4. \A j \in 1 .. Len(procs') : ProcRight(procs'[j])
      BY <3>2, <3>3 DEF MapInv
    <3> QED
      BY <3>0, <3>4 DEF MapInv, ProcRight
  <2>3. ASSUME UNCHANGED winVars PROVE MapInv'
    BY <2>3 DEF MapInv, ProcRight, winVars
  <2> QED
    BY <2>1, <2>2, <2>3 DEF WinNext
<1>3. WinSpec => []WinInv
  BY WinInvariance
<1> QED
  BY <1>1, <1>2, <1>3, PTL DEF WinSpec

\* A child has the files it was asked to have, with what the library knows of
\* them, and no handle that another thread has duplicated for its own child unless
\* it is to have no file at all: for every map.
THEOREM MapRight ==
    ASSUME ~ListAllocFails
    PROVE  WinSpec => []ChildGetsMap
<1>1. MapInv => ChildGetsMap
  BY DEF MapInv, ProcRight, ChildGetsMap, get_fd_info
<1> QED
  BY <1>1, MapInvariance, PTL
=============================================================================
