------------------------ MODULE RefereeServerProofs ------------------------
(***************************************************************************)
(* Proofs about the lock referee server, for any number of threads, locks  *)
(* and requests, in every order of connections, completions and ends of    *)
(* threads: the accounts of the clients are exact, so that no callback is  *)
(* for a freed client and the server ends only when nobody needs it, and   *)
(* the queues of the locks and the timeout list say who sleeps.            *)
(*                                                                         *)
(* The proof goes along the code: the array of locks and its binary        *)
(* search, the queues, the list of timeouts, the accounts of one client,   *)
(* the requests, the callbacks, and then each step of the threads and of   *)
(* the main loop. The inductive invariant is RefereeInv.                   *)
(***************************************************************************)
EXTENDS RefereeServer, RefereeLockProofs, WellFoundedInduction

-----------------------------------------------------------------------------
(***************************************************************************)
(* The array of locks                                                      *)
(***************************************************************************)
WaiterRec == [tc : Thread, wakeup_val : Int]
LockRec == [nwaiter : Int, max_wakeup_val : Int, waiters_queue : Seq(WaiterRec)]
EntryRec == [key : Nat, lock : LockRec]

Sorted(L) == \A i, j \in DOMAIN L : i < j => L[i].key < L[j].key

\* A client is in one queue, once.
OnceQueued(L) ==
    \A i, j \in DOMAIN L :
        \A k \in DOMAIN L[i].lock.waiters_queue, l \in DOMAIN L[j].lock.waiters_queue :
            L[i].lock.waiters_queue[k].tc = L[j].lock.waiters_queue[l].tc => i = j /\ k = l

LocksOK(L) == L \in Seq(EntryRec) /\ Sorted(L) /\ OnceQueued(L)

IsAsleep(L, t) == \E i \in DOMAIN L : t \in Sleepers(L[i].lock)

\* A set that holds 0 and the successor of each of its numbers holds all.
LEMMA SetInduction ==
    ASSUME NEW T, 0 \in T, \A n \in Nat : n \in T => n + 1 \in T
    PROVE  Nat \subseteq T
<1> DEFINE R == {p \in Nat \X Nat : p[1] < p[2]}
           Bad == Nat \ T
<1> SUFFICES ASSUME Bad # {} PROVE FALSE
  OBVIOUS
<1>1. IsWellFoundedOn(R, Nat)
  BY NatLessThanWellFounded DEF OpToRel
<1>2. Bad \subseteq Nat
  OBVIOUS
<1> HIDE DEF R, Bad
<1>3. PICK x \in Bad : \A y \in Bad : ~(<<y, x>> \in R)
  BY <1>1, <1>2, WFMin
<1>4. x \in Nat /\ x # 0
  BY DEF Bad
<1>5. x - 1 \in Nat /\ <<x - 1, x>> \in R
  BY <1>4 DEF R
<1>6. x - 1 \in T
  BY <1>3, <1>5 DEF Bad
<1>7. (x - 1) + 1 = x
  BY <1>4
<1> QED
  BY <1>3, <1>5, <1>6, <1>7 DEF Bad

\* The intervals the binary search looks at, and what it does with one when g
\* gives the result for those inside it.
Intervals(n) == (1 .. n + 1) \X (0 .. n)
Halve(L, key, b, g) ==
    LET l == b[1]  h == b[2]  m == (l + h) \div 2
    IN  IF l > h THEN [found |-> FALSE, index |-> l]
        ELSE IF key = L[m].key THEN [found |-> TRUE, index |-> m]
        ELSE IF key < L[m].key THEN g[<<l, m - 1>>]
        ELSE g[<<m + 1, h>>]

\* The two halves of an interval are smaller intervals.
LEMMA Halves ==
    ASSUME NEW n \in Nat, NEW l \in 1 .. n + 1, NEW h \in 0 .. n, l <= h
    PROVE  /\ (l + h) \div 2 \in l .. h
           /\ <<l, (l + h) \div 2 - 1>> \in Intervals(n)
           /\ <<(l + h) \div 2 + 1, h>> \in Intervals(n)
<1> DEFINE m == (l + h) \div 2
<1>1. m \in Int /\ l <= m /\ m <= h
  OBVIOUS
<1> HIDE DEF m
<1>2. m - 1 \in 0 .. n /\ m + 1 \in 1 .. n + 1
  BY <1>1
<1> QED
  BY <1>1, <1>2 DEF m, Intervals

\* The search is defined for every interval.
LEMMA NarrowDefined ==
    ASSUME NEW L, Len(L) \in Nat, NEW key
    PROVE  \A b \in Intervals(Len(L)) : Narrow(L, key)[b] = Halve(L, key, b, Narrow(L, key))
<1> DEFINE n == Len(L)
           Is(g) == g = [b \in Intervals(n) |-> Halve(L, key, b, g)]
           Size(b) == b[2] - b[1] + 1
           Upto(g, k) == \A b \in Intervals(n) : Size(b) <= k => g[b] = Halve(L, key, b, g)
           T == {k \in Nat : \E g : Upto(g, k)}
<1>1. n \in Nat
  OBVIOUS
<1>2. Narrow(L, key) = CHOOSE g : Is(g)
  BY DEF Narrow, Halve, Intervals
<1> HIDE DEF n
<1>3. ASSUME NEW b \in Intervals(n), NEW f, NEW g, NEW k \in Int, Size(b) <= k + 1,
             \A c \in Intervals(n) : Size(c) <= k => f[c] = g[c]
      PROVE  Halve(L, key, b, f) = Halve(L, key, b, g)
  <2>1. PICK l \in 1 .. n + 1, h \in 0 .. n : b = <<l, h>>
    BY DEF Intervals
  <2>2. CASE l > h
    BY <2>1, <2>2 DEF Halve
  <2>3. CASE l <= h
    <3> DEFINE m == (l + h) \div 2
    <3>1. m \in l .. h /\ <<l, m - 1>> \in Intervals(n) /\ <<m + 1, h>> \in Intervals(n)
      BY <1>1, <2>3, Halves
    <3>2. b[1] = l /\ b[2] = h
      BY <2>1
    <3>3. Halve(L, key, b, f) = 
            IF key = L[m].key THEN [found |-> TRUE, index |-> m]
            ELSE IF key < L[m].key THEN f[<<l, m - 1>>] ELSE f[<<m + 1, h>>]
      BY <2>3, <3>2 DEF Halve
    <3>4. Halve(L, key, b, g) = 
            IF key = L[m].key THEN [found |-> TRUE, index |-> m]
            ELSE IF key < L[m].key THEN g[<<l, m - 1>>] ELSE g[<<m + 1, h>>]
      BY <2>3, <3>2 DEF Halve
    <3> HIDE DEF m
    <3>5. Size(<<l, m - 1>>) <= k /\ Size(<<m + 1, h>>) <= k
      BY <1>3, <2>1, <3>1
    <3>6. f[<<l, m - 1>>] = g[<<l, m - 1>>] /\ f[<<m + 1, h>>] = g[<<m + 1, h>>]
      BY <1>3, <3>1, <3>5
    <3> QED
      BY <3>3, <3>4, <3>6
  <2> QED
    BY <2>1, <2>2, <2>3
<1>4. 0 \in T
  <2> DEFINE g == [b \in Intervals(n) |-> [found |-> FALSE, index |-> b[1]]]
  <2>1. ASSUME NEW b \in Intervals(n), Size(b) <= 0 PROVE g[b] = Halve(L, key, b, g)
    <3>1. PICK l \in 1 .. n + 1, h \in 0 .. n : b = <<l, h>>
      BY DEF Intervals
    <3>2. l > h
      BY <1>1, <2>1, <3>1
    <3> QED
      BY <3>1, <3>2 DEF Halve
  <2> HIDE DEF g
  <2> QED
    BY <2>1
<1>5. ASSUME NEW k \in Nat, k \in T PROVE k + 1 \in T
  <2>1. PICK g : Upto(g, k)
    BY <1>5
  <2> DEFINE f == [b \in Intervals(n) |-> IF Size(b) <= k THEN g[b] ELSE Halve(L, key, b, g)]
  <2>2. \A c \in Intervals(n) : Size(c) <= k => f[c] = g[c]
    OBVIOUS
  <2>3. ASSUME NEW b \in Intervals(n), Size(b) <= k + 1 PROVE f[b] = Halve(L, key, b, f)
    <3>1. Halve(L, key, b, f) = Halve(L, key, b, g)
      <4> HIDE DEF f
      <4> QED
        BY <1>3, <2>2, <2>3
    <3>2. CASE Size(b) <= k
      BY <2>1, <3>1, <3>2
    <3>3. CASE ~(Size(b) <= k)
      BY <3>1, <3>3
    <3> QED
      BY <3>2, <3>3
  <2> HIDE DEF f
  <2>4. Upto(f, k + 1)
    BY <2>3
  <2> QED
    BY <2>4
<1>6. n \in T
  <2> HIDE DEF T
  <2>1. Nat \subseteq T
    BY <1>4, <1>5, SetInduction
  <2> QED
    BY <1>1, <2>1
<1>7. PICK g : Upto(g, n)
  BY <1>6
<1> DEFINE f == [b \in Intervals(n) |-> Halve(L, key, b, g)]
<1>8. \A b \in Intervals(n) : f[b] = g[b]
  <2> SUFFICES ASSUME NEW b \in Intervals(n) PROVE f[b] = g[b]
    OBVIOUS
  <2>1. PICK l \in 1 .. n + 1, h \in 0 .. n : b = <<l, h>>
    BY DEF Intervals
  <2>2. Size(b) <= n
    BY <1>1, <2>1
  <2> QED
    BY <1>7, <2>2
<1>9. Is(f)
  <2>1. ASSUME NEW b \in Intervals(n) PROVE Halve(L, key, b, g) = Halve(L, key, b, f)
    <3>1. PICK l \in 1 .. n + 1, h \in 0 .. n : b = <<l, h>>
      BY DEF Intervals
    <3>2. Size(b) <= n + 1
      BY <1>1, <3>1
    <3> HIDE DEF f
    <3> QED
      BY <1>1, <1>3, <1>8, <3>2
  <2> QED
    BY <2>1, Zenon
<1> HIDE DEF f
<1>10. Is(Narrow(L, key))
  BY <1>2, <1>9
<1> QED
  BY <1>10 DEF n

\* What the search finds: the entry of the key, or the place where it belongs.
FoundAt(L, key, r) ==
    \/ \E i \in 1 .. Len(L) : r = [found |-> TRUE, index |-> i] /\ L[i].key = key
    \/ \E i \in 1 .. Len(L) + 1 :
            /\ r = [found |-> FALSE, index |-> i]
            /\ \A j \in 1 .. Len(L) : /\ j < i => L[j].key < key
                                      /\ j >= i => key < L[j].key

\* search_key_index(): binary search of a sorted array finds a key that is there,
\* and the place of one that is not.
LEMMA SearchFinds ==
    ASSUME NEW L \in Seq(EntryRec), Sorted(L), NEW key \in Nat
    PROVE  FoundAt(L, key, search_key_index(L, key))
<1> DEFINE n == Len(L)
           s == Narrow(L, key)
           Around(l, h) == /\ l <= h + 1
                           /\ \A j \in 1 .. n : /\ j < l => L[j].key < key
                                                /\ j > h => key < L[j].key
           T == {k \in Nat : \A l \in 1 .. n + 1, h \in 0 .. n :
                    h - l + 1 <= k /\ Around(l, h) => FoundAt(L, key, s[<<l, h>>])}
<1>1. n \in Nat /\ DOMAIN L = 1 .. n /\ \A j \in 1 .. n : L[j].key \in Nat
  <2>1. n \in Nat /\ DOMAIN L = 1 .. n /\ \A j \in 1 .. n : L[j] \in EntryRec
    OBVIOUS
  <2>2. \A e \in EntryRec : e.key \in Nat
    BY DEF EntryRec
  <2> QED
    BY <2>1, <2>2
<1>2. \A l \in 1 .. n + 1, h \in 0 .. n : s[<<l, h>>] = Halve(L, key, <<l, h>>, s)
  <2>1. \A b \in Intervals(n) : s[b] = Halve(L, key, b, s)
    BY <1>1, NarrowDefined
  <2>2. \A l \in 1 .. n + 1, h \in 0 .. n : <<l, h>> \in Intervals(n)
    BY DEF Intervals
  <2> HIDE DEF s, n
  <2> QED
    BY <2>1, <2>2
<1>3. \A i, j \in 1 .. n : i < j => L[i].key < L[j].key
  BY <1>1 DEF Sorted
<1> HIDE DEF n, s
<1>4. 0 \in T
  <2> SUFFICES ASSUME NEW l \in 1 .. n + 1, NEW h \in 0 .. n, h - l + 1 <= 0, Around(l, h)
               PROVE  FoundAt(L, key, s[<<l, h>>])
    OBVIOUS
  <2>1. l > h
    BY <1>1
  <2>2. s[<<l, h>>] = [found |-> FALSE, index |-> l]
    BY <1>2, <2>1 DEF Halve
  <2>3. \A j \in 1 .. n : j >= l => j > h
    BY <1>1, <2>1
  <2> QED
    BY <1>1, <2>2, <2>3 DEF FoundAt, n
<1>5. ASSUME NEW k \in Nat, k \in T PROVE k + 1 \in T
  <2> SUFFICES ASSUME NEW l \in 1 .. n + 1, NEW h \in 0 .. n, h - l + 1 <= k + 1, Around(l, h)
               PROVE  FoundAt(L, key, s[<<l, h>>])
    OBVIOUS
  <2>1. CASE l > h
    <3>1. s[<<l, h>>] = [found |-> FALSE, index |-> l]
      BY <1>2, <2>1 DEF Halve
    <3>2. \A j \in 1 .. n : j >= l => j > h
      BY <1>1, <2>1
    <3> QED
      BY <1>1, <3>1, <3>2 DEF FoundAt, n
  <2>2. CASE l <= h
    <3> DEFINE m == (l + h) \div 2
    <3>1. /\ m \in l .. h /\ m - 1 \in 0 .. n /\ m + 1 \in 1 .. n + 1
      <4>1. /\ m \in l .. h /\ <<l, m - 1>> \in Intervals(n) /\ <<m + 1, h>> \in Intervals(n)
        BY <1>1, <2>2, Halves
      <4> HIDE DEF m
      <4> QED
        BY <4>1 DEF Intervals
    <3>2. s[<<l, h>>] = IF key = L[m].key THEN [found |-> TRUE, index |-> m]
                        ELSE IF key < L[m].key THEN s[<<l, m - 1>>] ELSE s[<<m + 1, h>>]
      <4> DEFINE b == <<l, h>>
      <4>1. s[b] = Halve(L, key, b, s)
        BY <1>2
      <4>2. b[1] = l /\ b[2] = h /\ ~(l > h)
        BY <2>2
      <4> HIDE DEF b
      <4>3. s[b] = IF key = L[m].key THEN [found |-> TRUE, index |-> m]
                   ELSE IF key < L[m].key THEN s[<<l, m - 1>>] ELSE s[<<m + 1, h>>]
        BY <4>1, <4>2 DEF Halve
      <4> QED
        BY <4>3 DEF b
    <3> HIDE DEF m
    <3>3. m \in 1 .. n
      BY <1>1, <3>1
    <3>4. CASE key = L[m].key
      BY <3>2, <3>3, <3>4 DEF FoundAt, n
    <3>5. CASE key < L[m].key
      <4>1. Around(l, m - 1)
        <5>1. ASSUME NEW j \in 1 .. n, j > m - 1 PROVE key < L[j].key
          <6>1. j = m \/ m < j
            BY <1>1, <3>3, <5>1
          <6>2. L[j].key \in Nat /\ L[m].key \in Nat /\ (m < j => L[m].key < L[j].key)
            BY <1>1, <1>3, <3>3
          <6> QED
            BY <3>5, <6>1, <6>2
        <5> QED
          BY <1>1, <3>1, <5>1
      <4>2. (m - 1) - l + 1 <= k
        BY <1>1, <3>1
      <4>3. s[<<l, h>>] = s[<<l, m - 1>>]
        <5>1. key # L[m].key
          BY <1>1, <3>3, <3>5
        <5> QED
          BY <3>2, <3>5, <5>1
      <4> QED
        BY <1>5, <3>1, <4>1, <4>2, <4>3
    <3>6. CASE key # L[m].key /\ ~(key < L[m].key)
      <4>0. L[m].key < key
        BY <1>1, <3>3, <3>6
      <4>1. Around(m + 1, h)
        <5>1. ASSUME NEW j \in 1 .. n, j < m + 1 PROVE L[j].key < key
          <6>1. j = m \/ j < m
            BY <1>1, <3>3, <5>1
          <6>2. L[j].key \in Nat /\ L[m].key \in Nat /\ (j < m => L[j].key < L[m].key)
            BY <1>1, <1>3, <3>3
          <6> QED
            BY <4>0, <6>1, <6>2
        <5> QED
          BY <1>1, <3>1, <5>1
      <4>2. h - (m + 1) + 1 <= k
        BY <1>1, <3>1
      <4> QED
        BY <1>5, <3>1, <3>2, <3>6, <4>1, <4>2
    <3> QED
      BY <3>4, <3>5, <3>6
  <2> QED
    BY <1>1, <2>1, <2>2
<1>6. Around(1, n)
  BY <1>1
<1>7. n \in T
  <2> HIDE DEF T
  <2>1. Nat \subseteq T
    BY <1>4, <1>5, SetInduction
  <2> QED
    BY <1>1, <2>1
<1>8. FoundAt(L, key, s[<<1, n>>])
  BY <1>1, <1>6, <1>7
<1> QED
  BY <1>8 DEF search_key_index, s, n

\* What an array of locks is made of.
LEMMA Entries ==
    ASSUME NEW L \in Seq(EntryRec)
    PROVE  /\ Len(L) \in Nat /\ DOMAIN L = 1 .. Len(L)
           /\ \A i \in DOMAIN L :
                /\ L[i].key \in Nat
                /\ L[i] = [key |-> L[i].key, lock |-> L[i].lock]
                /\ L[i].lock \in LockRec
                /\ L[i].lock.waiters_queue \in Seq(WaiterRec)
                /\ L[i].lock.nwaiter \in Int /\ L[i].lock.max_wakeup_val \in Int
                /\ Sleepers(L[i].lock) \subseteq Thread
<1>1. Len(L) \in Nat /\ DOMAIN L = 1 .. Len(L) /\ \A i \in DOMAIN L : L[i] \in EntryRec
  OBVIOUS
<1>2. \A e \in EntryRec : e.key \in Nat /\ e.lock \in LockRec /\ e = [key |-> e.key, lock |-> e.lock]
  BY DEF EntryRec
<1>3. \A k \in LockRec : k.waiters_queue \in Seq(WaiterRec) /\ k.nwaiter \in Int /\ k.max_wakeup_val \in Int
  BY DEF LockRec
<1>4. \A q \in Seq(WaiterRec) : \A k \in DOMAIN q : q[k].tc \in Thread
  <2>1. \A q \in Seq(WaiterRec) : \A k \in DOMAIN q : q[k] \in WaiterRec
    OBVIOUS
  <2>2. \A w \in WaiterRec : w.tc \in Thread
    BY DEF WaiterRec
  <2> QED
    BY <2>1, <2>2
<1>5. \A k \in LockRec : Sleepers(k) \subseteq Thread
  BY <1>3, <1>4 DEF Sleepers
<1> QED
  BY <1>1, <1>2, <1>3, <1>5

\* Two sorted arrays with the same entries, but for some with an empty queue.
LEMMA Transfer ==
    ASSUME NEW L, LocksOK(L), NEW M \in Seq(EntryRec), Sorted(M),
           \A j \in DOMAIN M : \/ M[j].lock.waiters_queue = <<>>
                               \/ \E i \in DOMAIN L : M[j] = L[i],
           \A i \in DOMAIN L : \/ L[i].lock.waiters_queue = <<>>
                               \/ \E j \in DOMAIN M : M[j] = L[i]
    PROVE  LocksOK(M) /\ \A t : IsAsleep(M, t) <=> IsAsleep(L, t)
<1>0. DOMAIN << >> = {}
  OBVIOUS
<1>1. OnceQueued(M)
  <2> SUFFICES ASSUME NEW i \in DOMAIN M, NEW j \in DOMAIN M,
                      NEW k \in DOMAIN M[i].lock.waiters_queue,
                      NEW l \in DOMAIN M[j].lock.waiters_queue,
                      M[i].lock.waiters_queue[k].tc = M[j].lock.waiters_queue[l].tc
               PROVE  i = j /\ k = l
    BY DEF OnceQueued
  <2>1. PICK a \in DOMAIN L : M[i] = L[a]
    BY <1>0
  <2>2. PICK b \in DOMAIN L : M[j] = L[b]
    BY <1>0
  <2>3. a = b /\ k = l
    BY <2>1, <2>2 DEF LocksOK, OnceQueued
  <2>4. M[i].key = M[j].key
    BY <2>1, <2>2, <2>3
  <2>5. i \in Int /\ j \in Int /\ M[i].key \in Int /\ M[j].key \in Int
    BY Entries
  <2>6. ~(i < j) /\ ~(j < i)
    BY <2>4, <2>5 DEF Sorted
  <2> QED
    BY <2>3, <2>5, <2>6
<1>2. \A t : IsAsleep(M, t) <=> IsAsleep(L, t)
  <2>1. ASSUME NEW t, IsAsleep(M, t) PROVE IsAsleep(L, t)
    <3>1. PICK j \in DOMAIN M : t \in Sleepers(M[j].lock)
      BY <2>1 DEF IsAsleep
    <3>2. M[j].lock.waiters_queue # <<>>
      BY <1>0, <3>1 DEF Sleepers
    <3> QED
      BY <3>1, <3>2 DEF IsAsleep
  <2>2. ASSUME NEW t, IsAsleep(L, t) PROVE IsAsleep(M, t)
    <3>1. PICK i \in DOMAIN L : t \in Sleepers(L[i].lock)
      BY <2>2 DEF IsAsleep
    <3>2. L[i].lock.waiters_queue # <<>>
      BY <1>0, <3>1 DEF Sleepers
    <3> QED
      BY <3>1, <3>2 DEF IsAsleep
  <2> QED
    BY <2>1, <2>2
<1> QED
  BY <1>1, <1>2 DEF LocksOK

\* The garbage collector: the unused locks go, the others move down.
LEMMA DropUnused ==
    ASSUME NEW L, LocksOK(L)
    PROVE  /\ LocksOK(lock_array_drop_unused(L))
           /\ \A t : IsAsleep(lock_array_drop_unused(L), t) <=> IsAsleep(L, t)
<1> DEFINE gone == {i \in DOMAIN L : lock_is_unused(L[i].lock)}
           M == Unlink(L, gone)
           stay == Stay(L, gone)
           f == [k \in DOMAIN M |-> CHOOSE i \in stay : Rank(stay, i) = k]
<1>1. /\ M \in Seq(EntryRec)
      /\ \A k \in DOMAIN M : \E i \in stay : Rank(stay, i) = k /\ M[k] = L[i]
      /\ \A i \in stay : Rank(stay, i) \in DOMAIN M /\ M[Rank(stay, i)] = L[i]
  <2>1. L \in Seq(EntryRec) /\ gone \in SUBSET DOMAIN L
    BY DEF LocksOK
  <2> HIDE DEF gone
  <2> QED
    BY <2>1, UnlinkEntries
<1>2. stay \in SUBSET DOMAIN L /\ stay \in SUBSET Int /\ IsFiniteSet(stay)
  <2>1. DOMAIN L \in SUBSET Int /\ IsFiniteSet(DOMAIN L)
    BY Entries, SeqDomainSize DEF LocksOK
  <2> QED
    BY <2>1, FS_Subset DEF Stay
<1>3. \A i \in DOMAIN L : L[i].lock.waiters_queue # <<>> => i \in stay
  BY DEF Stay, lock_is_unused
<1> HIDE DEF stay, M
<1>4. \A i, j \in stay : i < j => Rank(stay, i) < Rank(stay, j)
  BY <1>2, RankOrder
<1>5. \A i \in stay : Rank(stay, i) \in Int
  BY <1>1, Entries
<1>6. \A i, j \in stay : Rank(stay, i) = Rank(stay, j) => i = j
  BY <1>2, <1>4, <1>5
<1>7. \A k \in DOMAIN M : f[k] \in stay /\ Rank(stay, f[k]) = k /\ M[k] = L[f[k]]
  BY <1>1, <1>6
<1> HIDE DEF f
<1>8. Sorted(M)
  <2> SUFFICES ASSUME NEW k \in DOMAIN M, NEW l \in DOMAIN M, k < l PROVE M[k].key < M[l].key
    BY DEF Sorted
  <2>1. f[k] \in Int /\ f[l] \in Int /\ k \in Int /\ l \in Int
    BY <1>1, <1>2, <1>7, Entries
  <2>2. f[k] < f[l]
    <3>1. ~(f[l] < f[k]) /\ f[k] # f[l]
      BY <1>4, <1>7, <2>1
    <3> QED
      BY <2>1, <3>1
  <2>3. L[f[k]].key < L[f[l]].key
    <3>1. f[k] \in DOMAIN L /\ f[l] \in DOMAIN L
      BY <1>2, <1>7
    <3> QED
      BY <2>2, <3>1 DEF LocksOK, Sorted
  <2> QED
    BY <1>7, <2>3
<1>9. \A j \in DOMAIN M : \E i \in DOMAIN L : M[j] = L[i]
  BY <1>2, <1>7
<1>10. \A i \in DOMAIN L : \/ L[i].lock.waiters_queue = <<>>
                           \/ \E j \in DOMAIN M : M[j] = L[i]
  BY <1>1, <1>3
<1>11. LocksOK(M) /\ \A t : IsAsleep(M, t) <=> IsAsleep(L, t)
  BY <1>1, <1>8, <1>9, <1>10, Transfer
<1> QED
  BY <1>11 DEF M, lock_array_drop_unused

\* An entry put at place r.
LEMMA Inserted ==
    ASSUME NEW X, NEW L \in Seq(X), NEW r \in 1 .. Len(L) + 1, NEW e \in X
    PROVE  /\ InsertAt(L, r, e) \in Seq(X)
           /\ Len(InsertAt(L, r, e)) = Len(L) + 1
           /\ \A j \in 1 .. Len(L) + 1 :
                InsertAt(L, r, e)[j] = IF j < r THEN L[j] ELSE IF j = r THEN e ELSE L[j - 1]
<1> DEFINE n == Len(L)
           a == SubSeq(L, 1, r - 1)
           b == SubSeq(L, r, n)
           ab == a \o <<e>>
<1>1. n \in Nat /\ r - 1 \in 0 .. n
  OBVIOUS
<1>2. a \in Seq(X) /\ Len(a) = r - 1 /\ \A j \in 1 .. r - 1 : a[j] = L[j]
  <2>1. \A j \in 1 .. r - 1 : L[j] \in X
    BY <1>1
  <2> QED
    BY <1>1, <2>1
<1>3. b \in Seq(X) /\ Len(b) = n - r + 1 /\ \A j \in 1 .. n - r + 1 : b[j] = L[r + j - 1]
  <2>1. \A j \in r .. n : L[j] \in X
    BY <1>1
  <2> QED
    BY <1>1, <2>1
<1> HIDE DEF a, b, n
<1>4. ab \in Seq(X) /\ Len(ab) = r /\ (\A j \in 1 .. r - 1 : ab[j] = L[j]) /\ ab[r] = e
  BY <1>1, <1>2
<1> HIDE DEF ab
<1>5. /\ ab \o b \in Seq(X) /\ Len(ab \o b) = n + 1
      /\ \A j \in 1 .. r : (ab \o b)[j] = ab[j]
      /\ \A j \in r + 1 .. n + 1 : (ab \o b)[j] = b[j - r]
  BY <1>1, <1>3, <1>4
<1>6. \A j \in r + 1 .. n + 1 : b[j - r] = L[j - 1]
  BY <1>1, <1>3
<1>7. \A j \in 1 .. n + 1 : (ab \o b)[j] = IF j < r THEN L[j] ELSE IF j = r THEN e ELSE L[j - 1]
  BY <1>1, <1>4, <1>5, <1>6
<1> QED
  BY <1>5, <1>7 DEF InsertAt, ab, a, b, n

\* A key is in the array once.
LEMMA FoundOnce ==
    ASSUME NEW L \in Seq(EntryRec), Sorted(L), NEW i \in DOMAIN L
    PROVE  search_key_index(L, L[i].key) = [found |-> TRUE, index |-> i]
<1>1. L[i].key \in Nat /\ DOMAIN L = 1 .. Len(L) /\ Len(L) \in Nat
  BY Entries
<1>2. FoundAt(L, L[i].key, search_key_index(L, L[i].key))
  BY <1>1, SearchFinds
<1>3. ~(L[i].key < L[i].key)
  BY <1>1
<1>4. PICK j \in 1 .. Len(L) :
        search_key_index(L, L[i].key) = [found |-> TRUE, index |-> j] /\ L[j].key = L[i].key
  <2>1. \A j \in 1 .. Len(L) + 1 : i < j \/ i >= j
    BY <1>1
  <2> QED
    BY <1>1, <1>2, <1>3, <2>1 DEF FoundAt
<1>5. ~(i < j) /\ ~(j < i)
  <2>1. j \in DOMAIN L
    BY <1>1
  <2> QED
    BY <1>3, <1>4, <2>1 DEF Sorted
<1>6. i = j
  <2>1. i \in Int /\ j \in Int
    BY <1>1
  <2> QED
    BY <1>5, <2>1
<1> QED
  BY <1>4, <1>6

\* lock_array_get_lock() gives an array that has the lock, and who sleeps in it
\* is who slept.
LEMMA GetLock ==
    ASSUME NEW L, LocksOK(L), NEW key \in Nat
    PROVE  LET M == lock_array_get_lock(L, key)
               i == search_key_index(M, key).index
           IN  /\ LocksOK(M) /\ i \in DOMAIN M /\ M[i].key = key
               /\ \A t : IsAsleep(M, t) <=> IsAsleep(L, t)
<1> DEFINE r == search_key_index(L, key)
           e == [key |-> key, lock |-> lock_init]
           M == lock_array_get_lock(L, key)
           n == Len(L)
<1>1. FoundAt(L, key, r)
  BY SearchFinds DEF LocksOK
<1>2. n \in Nat /\ DOMAIN L = 1 .. n /\ \A i \in DOMAIN L : L[i].key \in Nat
  BY Entries DEF LocksOK
<1>3. SUFFICES /\ LocksOK(M) /\ (\A t : IsAsleep(M, t) <=> IsAsleep(L, t))
               /\ \E i \in DOMAIN M : M[i].key = key
  <2> HIDE DEF M
  <2>1. PICK i \in DOMAIN M : M[i].key = key
    BY <1>3
  <2>2. search_key_index(M, key) = [found |-> TRUE, index |-> i]
    BY <1>3, <2>1, FoundOnce DEF LocksOK
  <2>3. search_key_index(M, key).index = i
    BY <2>2
  <2> QED
    BY <1>3, <2>1, <2>3 DEF M
<1> HIDE DEF r
<1>4. CASE \E i \in 1 .. n : r = [found |-> TRUE, index |-> i] /\ L[i].key = key
  <2>1. r.found
    BY <1>4
  <2>2. M = L
    BY <2>1 DEF lock_array_get_lock, r
  <2> QED
    BY <1>2, <1>4, <2>2
<1>5. ASSUME NEW i \in 1 .. n + 1,
             r = [found |-> FALSE, index |-> i],
             \A j \in 1 .. n : (j < i => L[j].key < key) /\ (j >= i => key < L[j].key)
      PROVE  /\ LocksOK(M) /\ (\A t : IsAsleep(M, t) <=> IsAsleep(L, t))
             /\ \E k \in DOMAIN M : M[k].key = key
  <2>1. M = InsertAt(L, i, e)
    <3>1. ~r.found /\ r.index = i
      BY <1>5
    <3> QED
      BY <3>1 DEF lock_array_get_lock, r
  <2>2. e \in EntryRec /\ e.key = key /\ e.lock.waiters_queue = <<>>
    <3>1. lock_init \in LockRec
      BY DEF lock_init, LockRec
    <3> QED
      BY <3>1 DEF EntryRec, lock_init
  <2> HIDE DEF M, e
  <2>3. /\ M \in Seq(EntryRec) /\ Len(M) = n + 1
        /\ \A j \in 1 .. n + 1 : M[j] = IF j < i THEN L[j] ELSE IF j = i THEN e ELSE L[j - 1]
    <3>1. L \in Seq(EntryRec) /\ i \in 1 .. Len(L) + 1
      BY DEF LocksOK
    <3>2. e \in EntryRec
      BY <2>2
    <3>3. /\ InsertAt(L, i, e) \in Seq(EntryRec) /\ Len(InsertAt(L, i, e)) = Len(L) + 1
          /\ \A j \in 1 .. Len(L) + 1 :
                InsertAt(L, i, e)[j] = IF j < i THEN L[j] ELSE IF j = i THEN e ELSE L[j - 1]
      BY <3>1, <3>2, Inserted
    <3> QED
      BY <2>1, <3>3
  <2>4. DOMAIN M = 1 .. n + 1 /\ M[i] = e
    BY <1>2, <2>3
  <2>5. \A j \in 1 .. n + 1 : j < i => j \in 1 .. n /\ M[j] = L[j]
    BY <1>2, <2>3
  <2>6. \A j \in 1 .. n + 1 : j > i => j - 1 \in 1 .. n /\ M[j] = L[j - 1] /\ j - 1 >= i
    BY <1>2, <2>3
  <2>7. Sorted(M)
    <3> SUFFICES ASSUME NEW j \in 1 .. n + 1, NEW k \in 1 .. n + 1, j < k
                 PROVE  M[j].key < M[k].key
      BY <2>4 DEF Sorted
    <3>1. \A a, b \in 1 .. n : a < b => L[a].key < L[b].key
      BY <1>2 DEF LocksOK, Sorted
    <3>2. CASE k < i
      BY <1>2, <2>5, <3>1, <3>2
    <3>3. CASE k = i
      BY <1>2, <1>5, <2>2, <2>4, <2>5, <3>3
    <3>4. CASE k > i /\ j = i
      BY <1>2, <1>5, <2>2, <2>4, <2>6, <3>4
    <3>5. CASE k > i /\ j < i
      <4>1. k - 1 \in 1 .. n /\ j \in 1 .. n /\ j < k - 1
        BY <1>2, <3>5
      <4> QED
        BY <2>5, <2>6, <3>1, <3>5, <4>1
    <3>6. CASE k > i /\ j > i
      <4>1. k - 1 \in 1 .. n /\ j - 1 \in 1 .. n /\ j - 1 < k - 1
        BY <1>2, <3>6
      <4> QED
        BY <2>6, <3>1, <3>6, <4>1
    <3> QED
      BY <1>2, <3>2, <3>3, <3>4, <3>5, <3>6
  <2>8. \A j \in DOMAIN M : M[j].lock.waiters_queue = <<>> \/ \E k \in DOMAIN L : M[j] = L[k]
    <3>1. \A j \in 1 .. n + 1 : j < i \/ j = i \/ j > i
      BY <1>2
    <3> QED
      BY <1>2, <2>2, <2>4, <2>5, <2>6, <3>1
  <2>9. \A k \in DOMAIN L : \E j \in DOMAIN M : M[j] = L[k]
    <3> SUFFICES ASSUME NEW k \in 1 .. n PROVE \E j \in 1 .. n + 1 : M[j] = L[k]
      BY <1>2, <2>4
    <3>1. CASE k < i
      BY <1>2, <2>5, <3>1
    <3>2. CASE k >= i
      <4>1. k + 1 \in 1 .. n + 1 /\ k + 1 > i /\ (k + 1) - 1 = k
        BY <1>2, <3>2
      <4> QED
        BY <2>6, <4>1
    <3> QED
      BY <1>2, <3>1, <3>2
  <2> QED
    BY <2>2, <2>3, <2>4, <2>7, <2>8, <2>9, Transfer
<1> QED
  BY <1>1, <1>4, <1>5 DEF FoundAt

\* A lock of the array is replaced by one whose queue has nobody twice and
\* nobody who sleeps elsewhere.
LEMMA Replaced ==
    ASSUME NEW L, LocksOK(L), NEW i \in DOMAIN L, NEW lk \in LockRec,
           \A k, l \in DOMAIN lk.waiters_queue :
                lk.waiters_queue[k].tc = lk.waiters_queue[l].tc => k = l,
           \A t \in Sleepers(lk) : t \in Sleepers(L[i].lock) \/ ~IsAsleep(L, t)
    PROVE  LET M == [L EXCEPT ![i].lock = lk]
           IN  /\ LocksOK(M)
               /\ \A t : IsAsleep(M, t)
                            <=> \/ t \in Sleepers(lk)
                                \/ IsAsleep(L, t) /\ t \notin Sleepers(L[i].lock)
<1> DEFINE M == [L EXCEPT ![i].lock = lk]
<1>1. /\ L \in Seq(EntryRec) /\ DOMAIN L = 1 .. Len(L) /\ Len(L) \in Nat
      /\ L[i] = [key |-> L[i].key, lock |-> L[i].lock] /\ L[i].key \in Nat
  BY Entries DEF LocksOK
<1>2. M = [L EXCEPT ![i] = [key |-> L[i].key, lock |-> lk]]
  <2>1. [L[i] EXCEPT !.lock = lk] = [key |-> L[i].key, lock |-> lk]
    BY <1>1
  <2> QED
    BY <2>1, Zenon
<1>3. [key |-> L[i].key, lock |-> lk] \in EntryRec
  BY <1>1 DEF EntryRec
<1>4. /\ M \in Seq(EntryRec) /\ DOMAIN M = DOMAIN L
      /\ M[i].lock = lk /\ M[i].key = L[i].key
      /\ \A j \in DOMAIN L : j # i => M[j] = L[j]
  <2> HIDE DEF M
  <2>1. M = [j \in DOMAIN L |-> IF j = i THEN [key |-> L[i].key, lock |-> lk] ELSE L[j]]
    BY <1>2
  <2>2. \A j \in DOMAIN L : M[j] \in EntryRec
    BY <1>1, <1>3, <2>1
  <2>3. M \in Seq(EntryRec)
    BY <1>1, <2>1, <2>2
  <2>4. M[i] = [key |-> L[i].key, lock |-> lk]
    BY <2>1
  <2> QED
    BY <2>1, <2>3, <2>4
<1> HIDE DEF M
<1>5. Sorted(M)
  BY <1>4 DEF LocksOK, Sorted
<1>6. \A t : \A a, b \in DOMAIN L : t \in Sleepers(L[a].lock) /\ t \in Sleepers(L[b].lock) => a = b
  BY DEF LocksOK, OnceQueued, Sleepers
<1>7. OnceQueued(M)
  <2> SUFFICES ASSUME NEW a \in DOMAIN L, NEW b \in DOMAIN L,
                      NEW k \in DOMAIN M[a].lock.waiters_queue,
                      NEW l \in DOMAIN M[b].lock.waiters_queue,
                      M[a].lock.waiters_queue[k].tc = M[b].lock.waiters_queue[l].tc
               PROVE  a = b /\ k = l
    BY <1>4 DEF OnceQueued
  <2> DEFINE t == M[a].lock.waiters_queue[k].tc
  <2>1. t \in Sleepers(M[a].lock) /\ t \in Sleepers(M[b].lock)
    BY DEF Sleepers
  <2>2. ASSUME NEW c \in DOMAIN L, c # i, t \in Sleepers(L[c].lock), t \in Sleepers(lk) PROVE FALSE
    <3>1. IsAsleep(L, t)
      BY <2>2 DEF IsAsleep
    <3> QED
      BY <1>6, <2>2, <3>1
  <2>3. CASE a = i /\ b = i
    BY <1>4, <2>3
  <2>4. CASE a # i /\ b # i
    BY <1>4, <2>4 DEF LocksOK, OnceQueued
  <2>5. CASE (a = i /\ b # i) \/ (a # i /\ b = i)
    <3> HIDE DEF t
    <3> QED
      BY <1>4, <2>1, <2>2, <2>5
  <2> QED
    BY <2>3, <2>4, <2>5
<1>8. ASSUME NEW t
      PROVE  IsAsleep(M, t) <=> \/ t \in Sleepers(lk)
                                \/ IsAsleep(L, t) /\ t \notin Sleepers(L[i].lock)
  BY <1>4, <1>6 DEF IsAsleep
<1> QED
  BY <1>4, <1>5, <1>7, <1>8 DEF M, LocksOK

\* handle_req_wait(): a client that sleeps nowhere is served at once by a banked
\* wake-up, or is appended to the queue and sleeps.
LEMMA AddWaiter ==
    ASSUME NEW L, LocksOK(L), NEW i \in DOMAIN L, NEW u \in Thread, NEW val \in Int,
           ~IsAsleep(L, u)
    PROVE  LET lk == L[i].lock
               M == [L EXCEPT ![i].lock = lock_add_waiter(lk, u, val)]
           IN  /\ LocksOK(M)
               /\ \A t : IsAsleep(M, t) <=> IsAsleep(L, t) \/ (t = u /\ ~WokenInAdvance(lk, val))
<1> DEFINE lk == L[i].lock
           q == lk.waiters_queue
           w == Waiter(u, val)
           new == lock_add_waiter(lk, u, val)
<1>1. q \in Seq(WaiterRec) /\ lk.nwaiter \in Int /\ lk.max_wakeup_val \in Int
  BY Entries DEF LocksOK
<1>2. w \in WaiterRec /\ w.tc = u
  BY DEF Waiter, WaiterRec
<1>3. \A k, l \in DOMAIN q : q[k].tc = q[l].tc => k = l
  BY DEF LocksOK, OnceQueued
<1>4. u \notin Sleepers(lk) /\ \A t \in Sleepers(lk) : IsAsleep(L, t)
  BY DEF IsAsleep
<1>5. new.waiters_queue = IF WokenInAdvance(lk, val) THEN q ELSE Append(q, w)
  BY DEF lock_add_waiter
<1>6. new = [nwaiter |-> lk.nwaiter + 1, max_wakeup_val |-> lk.max_wakeup_val,
             waiters_queue |-> new.waiters_queue]
  BY DEF lock_add_waiter
<1> HIDE DEF new, w, lk
<1>7. /\ Append(q, w) \in Seq(WaiterRec) /\ DOMAIN Append(q, w) = 1 .. Len(q) + 1
      /\ DOMAIN q = 1 .. Len(q) /\ Len(q) \in Nat
      /\ \A k \in DOMAIN q : Append(q, w)[k] = q[k]
      /\ Append(q, w)[Len(q) + 1] = w
  <2> HIDE DEF q
  <2> QED
    BY <1>1, <1>2
<1>8. new \in LockRec
  <2>1. new.waiters_queue \in Seq(WaiterRec)
    BY <1>1, <1>5, <1>7
  <2>2. lk.nwaiter + 1 \in Int
    BY <1>1
  <2> QED
    BY <1>1, <1>6, <2>1, <2>2 DEF LockRec
<1>9. \A k \in DOMAIN q : q[k].tc # u
  BY <1>4 DEF Sleepers
<1>10. \A k, l \in DOMAIN new.waiters_queue :
          new.waiters_queue[k].tc = new.waiters_queue[l].tc => k = l
  <2>1. CASE WokenInAdvance(lk, val)
    BY <1>3, <1>5, <2>1
  <2>2. CASE ~WokenInAdvance(lk, val)
    <3> SUFFICES ASSUME NEW k \in 1 .. Len(q) + 1, NEW l \in 1 .. Len(q) + 1,
                        Append(q, w)[k].tc = Append(q, w)[l].tc
                 PROVE  k = l
      BY <1>5, <1>7, <2>2
    <3>1. (k \in DOMAIN q \/ k = Len(q) + 1) /\ (l \in DOMAIN q \/ l = Len(q) + 1)
      BY <1>7
    <3> HIDE DEF q
    <3> QED
      BY <1>2, <1>3, <1>7, <1>9, <3>1
  <2> QED
    BY <2>1, <2>2
<1>11. ASSUME NEW t PROVE t \in Sleepers(new) <=> t \in Sleepers(lk) \/ (t = u /\ ~WokenInAdvance(lk, val))
  <2>1. CASE WokenInAdvance(lk, val)
    BY <1>5, <2>1 DEF Sleepers
  <2>2. CASE ~WokenInAdvance(lk, val)
    <3> DEFINE a == Append(q, w)
    <3>1. t \in Sleepers(new) <=> \E k \in DOMAIN a : t = a[k].tc
      BY <1>5, <2>2 DEF Sleepers
    <3>2. t \in Sleepers(lk) <=> \E k \in DOMAIN q : t = q[k].tc
      BY DEF Sleepers
    <3>3. DOMAIN a = DOMAIN q \cup {Len(q) + 1}
      BY <1>7
    <3> HIDE DEF q, a
    <3> QED
      BY <1>2, <1>7, <2>2, <3>1, <3>2, <3>3 DEF a
  <2> QED
    BY <2>1, <2>2
<1>12. \A t \in Sleepers(new) : t \in Sleepers(lk) \/ ~IsAsleep(L, t)
  BY <1>11
<1> DEFINE M == [L EXCEPT ![i].lock = new]
<1>13. /\ LocksOK(M)
       /\ \A t : IsAsleep(M, t) <=> \/ t \in Sleepers(new)
                                    \/ IsAsleep(L, t) /\ t \notin Sleepers(lk)
  BY <1>8, <1>10, <1>12, Replaced DEF lk
<1> HIDE DEF M
<1>14. \A t : IsAsleep(M, t) <=> IsAsleep(L, t) \/ (t = u /\ ~WokenInAdvance(lk, val))
  BY <1>4, <1>11, <1>13
<1> QED
  BY <1>13, <1>14 DEF M, new, lk

\* handle_req_wake(): those woken leave the queue, the others sleep on.
LEMMA WakeWaiters ==
    ASSUME NEW L, LocksOK(L), NEW i \in DOMAIN L, NEW num \in Nat, NEW val \in Int
    PROVE  LET lk == L[i].lock
               M == [L EXCEPT ![i].lock = lock_wake_waiters(lk, num, val)]
           IN  /\ LocksOK(M)
               /\ \A t : IsAsleep(M, t) <=> IsAsleep(L, t) /\ t \notin WokenBy(lk, num, val)
               /\ WokenBy(lk, num, val) \subseteq Thread
               /\ \A t \in WokenBy(lk, num, val) : IsAsleep(L, t)
               /\ lk.waiters_queue \in Seq(WaiterRec)
               /\ ToWake(lk.waiters_queue, num, val) \subseteq DOMAIN lk.waiters_queue
               /\ \A k, l \in DOMAIN lk.waiters_queue :
                    lk.waiters_queue[k].tc = lk.waiters_queue[l].tc => k = l
<1> DEFINE lk == L[i].lock
           q == lk.waiters_queue
           gone == ToWake(q, num, val)
           stay == Stay(q, gone)
           u == Unlink(q, gone)
           new == lock_wake_waiters(lk, num, val)
           woken == WokenBy(lk, num, val)
<1>1. q \in Seq(WaiterRec) /\ lk.nwaiter \in Int /\ lk.max_wakeup_val \in Int /\ Sleepers(lk) \subseteq Thread
  BY Entries DEF LocksOK
<1>2. gone \in SUBSET DOMAIN q
  BY DEF ToWake, Eligible
<1>3. \A k, l \in DOMAIN q : q[k].tc = q[l].tc => k = l
  BY DEF LocksOK, OnceQueued
<1>4. \A t \in Sleepers(lk) : IsAsleep(L, t)
  BY DEF IsAsleep
<1>5. new = [nwaiter |-> lk.nwaiter - num,
             max_wakeup_val |-> IF lk.max_wakeup_val < val THEN val ELSE lk.max_wakeup_val,
             waiters_queue |-> u]
  BY DEF lock_wake_waiters
<1>6. woken = {q[k].tc : k \in gone} /\ Sleepers(lk) = {q[k].tc : k \in DOMAIN q}
  BY DEF WokenBy, Sleepers
<1>7. Sleepers(new) = {u[k].tc : k \in DOMAIN u}
  BY <1>5 DEF Sleepers
<1> HIDE DEF gone, q, lk, woken, new
<1>8. /\ u \in Seq(WaiterRec)
      /\ \A k \in DOMAIN u : \E j \in stay : Rank(stay, j) = k /\ u[k] = q[j]
      /\ \A j \in stay : Rank(stay, j) \in DOMAIN u /\ u[Rank(stay, j)] = q[j]
  BY <1>1, <1>2, UnlinkEntries
<1>9. stay = DOMAIN q \ gone
  BY DEF Stay
<1> HIDE DEF stay, u
<1>10. new \in LockRec
  <2>1. lk.nwaiter - num \in Int
        /\ (IF lk.max_wakeup_val < val THEN val ELSE lk.max_wakeup_val) \in Int
    BY <1>1
  <2> QED
    BY <1>5, <1>8, <2>1 DEF LockRec
<1>11. \A k, l \in DOMAIN u : u[k].tc = u[l].tc => k = l
  BY <1>3, <1>8, <1>9
<1>12. Sleepers(new) = Sleepers(lk) \ woken
  <2>1. ASSUME NEW t \in Sleepers(new) PROVE t \in Sleepers(lk) \ woken
    <3>1. PICK k \in DOMAIN u : t = u[k].tc
      BY <1>7
    <3>2. PICK j \in stay : u[k] = q[j]
      BY <1>8
    <3>3. j \in DOMAIN q /\ j \notin gone /\ t = q[j].tc
      BY <1>9, <3>1, <3>2
    <3>4. t \notin woken
      BY <1>2, <1>3, <1>6, <3>3
    <3> QED
      BY <1>6, <3>3, <3>4
  <2>2. ASSUME NEW t \in Sleepers(lk) \ woken PROVE t \in Sleepers(new)
    <3>1. PICK j \in DOMAIN q : t = q[j].tc
      BY <1>6
    <3>2. j \in stay
      BY <1>6, <1>9, <2>2, <3>1
    <3> QED
      BY <1>7, <1>8, <3>1, <3>2
  <2> QED
    BY <2>1, <2>2
<1>13. new.waiters_queue = u
  BY <1>5
<1> DEFINE M == [L EXCEPT ![i].lock = new]
<1>14. /\ LocksOK(M)
       /\ \A t : IsAsleep(M, t) <=> \/ t \in Sleepers(new)
                                    \/ IsAsleep(L, t) /\ t \notin Sleepers(lk)
  <2>1. \A k, l \in DOMAIN new.waiters_queue :
          new.waiters_queue[k].tc = new.waiters_queue[l].tc => k = l
    BY <1>11, <1>13
  <2>2. \A t \in Sleepers(new) : t \in Sleepers(lk) \/ ~IsAsleep(L, t)
    BY <1>12
  <2> QED
    BY <1>10, <2>1, <2>2, Replaced DEF lk
<1> HIDE DEF M
<1>15. woken \subseteq Sleepers(lk)
  BY <1>2, <1>6
<1>16. \A t : IsAsleep(M, t) <=> IsAsleep(L, t) /\ t \notin woken
  BY <1>4, <1>12, <1>14, <1>15
<1>17. woken \subseteq Thread /\ \A t \in woken : IsAsleep(L, t)
  BY <1>1, <1>4, <1>15
<1> QED
  BY <1>1, <1>2, <1>3, <1>14, <1>16, <1>17 DEF M, new, lk, woken, q, gone

-----------------------------------------------------------------------------
(***************************************************************************)
(* The operations that have completed                                      *)
(***************************************************************************)
Reads(a, t)  == {i \in DOMAIN a : a[i].tc = t /\ a[i].op = "read"}
Writes(a, t) == {i \in DOMAIN a : a[i].tc = t /\ a[i].op = "write"}
NR(a, t) == Cardinality(Reads(a, t))
NW(a, t) == Cardinality(Writes(a, t))

\* The reads of a client have got a request; they have failed.
Asking(a, t)  == \A i \in Reads(a, t) : a[i].msg # NoMsg
Leaving(a, t) == \A i \in Reads(a, t) : a[i].msg = NoMsg

ReadDone(t, msg) == [op |-> "read", tc |-> t, msg |-> msg]
WriteDone(t) == [op |-> "write", tc |-> t]

\* The counts are those of subsets of the indices.
LEMMA Counts ==
    ASSUME NEW X, NEW a \in Seq(X), NEW t
    PROVE  /\ IsFiniteSet(Reads(a, t)) /\ NR(a, t) \in Nat
           /\ IsFiniteSet(Writes(a, t)) /\ NW(a, t) \in Nat
           /\ NR(a, t) = 0 <=> Reads(a, t) = {}
           /\ NW(a, t) = 0 <=> Writes(a, t) = {}
<1>1. IsFiniteSet(DOMAIN a)
  BY SeqDomainSize
<1>2. Reads(a, t) \in SUBSET DOMAIN a /\ Writes(a, t) \in SUBSET DOMAIN a
  BY DEF Reads, Writes
<1>3. IsFiniteSet(Reads(a, t)) /\ IsFiniteSet(Writes(a, t))
  BY <1>1, <1>2, FS_Subset
<1> QED
  BY <1>3, FS_CardinalityType, FS_EmptySet DEF NR, NW

\* An operation completes.
LEMMA Completed ==
    ASSUME NEW X, NEW a \in Seq(X), NEW e \in X, NEW t
    PROVE  /\ Reads(Append(a, e), t) = IF e.tc = t /\ e.op = "read"
                                       THEN Reads(a, t) \cup {Len(a) + 1} ELSE Reads(a, t)
           /\ NR(Append(a, e), t) = IF e.tc = t /\ e.op = "read" THEN NR(a, t) + 1 ELSE NR(a, t)
           /\ NW(Append(a, e), t) = IF e.tc = t /\ e.op = "write" THEN NW(a, t) + 1 ELSE NW(a, t)
<1> DEFINE b == Append(a, e)
           n == Len(a) + 1
<1>1. /\ b \in Seq(X) /\ DOMAIN b = DOMAIN a \cup {n} /\ n \notin DOMAIN a
      /\ b[n] = e /\ \A i \in DOMAIN a : b[i] = a[i]
  OBVIOUS
<1> HIDE DEF b, n
<1>2. Reads(b, t) = IF e.tc = t /\ e.op = "read" THEN Reads(a, t) \cup {n} ELSE Reads(a, t)
  BY <1>1 DEF Reads
<1>3. Writes(b, t) = IF e.tc = t /\ e.op = "write" THEN Writes(a, t) \cup {n} ELSE Writes(a, t)
  BY <1>1 DEF Writes
<1>4. n \notin Reads(a, t) /\ n \notin Writes(a, t)
  BY <1>1 DEF Reads, Writes
<1>5. IsFiniteSet(Reads(a, t)) /\ IsFiniteSet(Writes(a, t))
  BY Counts
<1>6. /\ Cardinality(Reads(a, t) \cup {n}) = Cardinality(Reads(a, t)) + 1
      /\ Cardinality(Writes(a, t) \cup {n}) = Cardinality(Writes(a, t)) + 1
  BY <1>4, <1>5, FS_AddElement
<1> QED
  BY <1>1, <1>2, <1>3, <1>6 DEF NR, NW, b, n

\* The first callback has run.
LEMMA CalledBack ==
    ASSUME NEW X, NEW a \in Seq(X), a # <<>>, NEW t
    PROVE  /\ NR(a, t) = IF Head(a).tc = t /\ Head(a).op = "read"
                         THEN NR(Tail(a), t) + 1 ELSE NR(Tail(a), t)
           /\ NW(a, t) = IF Head(a).tc = t /\ Head(a).op = "write"
                         THEN NW(Tail(a), t) + 1 ELSE NW(Tail(a), t)
           /\ \A i \in Reads(Tail(a), t) : i + 1 \in Reads(a, t)
<1> DEFINE b == Tail(a)
           e == Head(a)
<1>1. /\ b \in Seq(X) /\ Len(a) \in Nat /\ DOMAIN a = 1 .. Len(a) /\ DOMAIN b = 1 .. Len(a) - 1
      /\ Len(a) > 0 /\ e = a[1] /\ e \in X /\ \A i \in DOMAIN b : b[i] = a[i + 1]
  OBVIOUS
<1> HIDE DEF b, e
<1>2. \A i \in DOMAIN b : i + 1 \in DOMAIN a /\ i + 1 # 1
  BY <1>1
<1>3. \A i \in DOMAIN a : i # 1 => i - 1 \in DOMAIN b /\ (i - 1) + 1 = i
  BY <1>1
<1>4. ASSUME NEW S, NEW U, S \subseteq DOMAIN b, IsFiniteSet(S), U \subseteq DOMAIN a,
             \A i \in DOMAIN b : i \in S <=> i + 1 \in U
      PROVE  Cardinality(U) = IF 1 \in U THEN Cardinality(S) + 1 ELSE Cardinality(S)
  <2> DEFINE f == [i \in S |-> i + 1]
             V == U \ {1}
  <2>1. f \in [S -> V]
    BY <1>2, <1>4
  <2>2. \A i, j \in S : f[i] = f[j] => i = j
    <3>1. \A i \in S : i \in Int
      BY <1>1, <1>4
    <3> QED
      BY <3>1
  <2>3. \A v \in V : \E i \in S : f[i] = v
    <3> SUFFICES ASSUME NEW v \in V PROVE \E i \in S : f[i] = v
      OBVIOUS
    <3>1. v - 1 \in DOMAIN b /\ (v - 1) + 1 = v
      BY <1>3, <1>4
    <3>2. v - 1 \in S
      BY <1>4, <3>1
    <3> QED
      BY <3>1, <3>2
  <2>4. f \in Injection(S, V) /\ f \in Surjection(S, V)
    BY <2>1, <2>2, <2>3 DEF Injection, IsInjective, Surjection
  <2> HIDE DEF f, V
  <2>5. IsFiniteSet(V) /\ Cardinality(V) = Cardinality(S)
    BY <1>4, <2>4, FS_Surjection
  <2>6. CASE 1 \in U
    <3>1. U = V \cup {1} /\ 1 \notin V
      BY <2>6 DEF V
    <3>2. Cardinality(V \cup {1}) = Cardinality(V) + 1
      BY <2>5, <3>1, FS_AddElement
    <3> QED
      BY <2>5, <2>6, <3>1, <3>2
  <2>7. CASE 1 \notin U
    <3>1. U = V
      BY <2>7 DEF V
    <3> QED
      BY <2>5, <2>7, <3>1
  <2> QED
    BY <2>6, <2>7
<1>5. IsFiniteSet(Reads(b, t)) /\ IsFiniteSet(Writes(b, t))
  BY <1>1, Counts
<1>6. Reads(b, t) \subseteq DOMAIN b /\ Writes(b, t) \subseteq DOMAIN b
  BY DEF Reads, Writes
<1>7. Reads(a, t) \subseteq DOMAIN a /\ Writes(a, t) \subseteq DOMAIN a
  BY DEF Reads, Writes
<1>8. /\ \A i \in DOMAIN b : i \in Reads(b, t) <=> i + 1 \in Reads(a, t)
      /\ \A i \in DOMAIN b : i \in Writes(b, t) <=> i + 1 \in Writes(a, t)
  BY <1>1, <1>2 DEF Reads, Writes
<1>9. /\ Cardinality(Reads(a, t)) = IF 1 \in Reads(a, t) THEN Cardinality(Reads(b, t)) + 1
                                    ELSE Cardinality(Reads(b, t))
      /\ Cardinality(Writes(a, t)) = IF 1 \in Writes(a, t) THEN Cardinality(Writes(b, t)) + 1
                                     ELSE Cardinality(Writes(b, t))
  BY <1>4, <1>5, <1>6, <1>7, <1>8
<1>10. 1 \in DOMAIN a
  BY <1>1
<1>11. (1 \in Reads(a, t) <=> e.tc = t /\ e.op = "read") /\ (1 \in Writes(a, t) <=> e.tc = t /\ e.op = "write")
  BY <1>1, <1>10 DEF Reads, Writes
<1>12. \A i \in Reads(b, t) : i + 1 \in Reads(a, t)
  BY <1>6, <1>8
<1> QED
  BY <1>1, <1>9, <1>11, <1>12 DEF NR, NW, b, e

-----------------------------------------------------------------------------
(***************************************************************************)
(* The timeout list                                                        *)
(***************************************************************************)
Nodes == Thread \cup {Head0}
LinkRec == [prev : Nodes \cup {None}, next : Nodes \cup {None}]
Linkage == [Nodes -> LinkRec]

\* The list with nobody, and with one client.
NoneLinked == [x \in Nodes |-> Unlinked]
OneLinked(u) == [x \in Nodes |-> IF x = Head0 THEN [prev |-> None, next |-> u]
                                 ELSE IF x = u THEN [prev |-> Head0, next |-> None]
                                 ELSE Unlinked]

\* Threads are none of the special names.
LEMMA Names == Head0 \notin Thread /\ None \notin Thread /\ "listening" \notin Thread /\ None # Head0 /\ None \notin Nodes
BY RefereeAssumption DEF Head0, None, Nodes

\* A finite set of integers has a greatest element.
LEMMA Greatest ==
    ASSUME NEW I \in SUBSET Int, IsFiniteSet(I), I # {}
    PROVE  Max(I) \in I /\ \A y \in I : Max(I) >= y
<1>1. Cardinality(I) \in Nat /\ Cardinality(I) # 0
  BY FS_CardinalityType, FS_EmptySet
<1>2. /\ \A i \in I : Rank(I, i) \in 1 .. Cardinality(I)
      /\ \A i, j \in I : i < j => Rank(I, i) < Rank(I, j)
      /\ \A k \in 1 .. Cardinality(I) : \E i \in I : Rank(I, i) = k
  BY RankOrder
<1>3. PICK x \in I : Rank(I, x) = Cardinality(I)
  BY <1>1, <1>2
<1>4. \A y \in I : x >= y
  <2> SUFFICES ASSUME NEW y \in I, ~(x >= y) PROVE FALSE
    OBVIOUS
  <2>1. x < y
    OBVIOUS
  <2>2. Rank(I, x) < Rank(I, y) /\ Rank(I, y) \in 1 .. Cardinality(I)
    BY <1>2, <2>1
  <2> QED
    BY <1>1, <1>3, <2>2
<1> QED
  BY <1>3, <1>4 DEF Max

\* The links are always to nodes.
LEMMA Detached ==
    ASSUME NEW node \in Linkage, NEW t \in Nodes
    PROVE  detach_list_node(node, t) \in Linkage
<1> DEFINE p == node[t].prev
           n == node[t].next
           a == IF n = None THEN node ELSE [node EXCEPT ![n].prev = p, ![t].next = None]
<1>1. p \in Nodes \cup {None} /\ n \in Nodes \cup {None}
  BY DEF Linkage, LinkRec
<1>2. a \in Linkage
  <2>1. CASE n = None
    BY <2>1
  <2>2. CASE n # None
    <3> HIDE DEF n, p
    <3>1. n \in Nodes
      BY <1>1, <2>2
    <3>2. [node EXCEPT ![n].prev = p] \in Linkage
      BY <1>1, <3>1 DEF Linkage, LinkRec
    <3>3. [[node EXCEPT ![n].prev = p] EXCEPT ![t].next = None] \in Linkage
      BY <3>2 DEF Linkage, LinkRec
    <3> QED
      BY <2>2, <3>3
  <2> QED
    BY <2>1, <2>2
<1> HIDE DEF a
<1>3. CASE p = None
  BY <1>2, <1>3 DEF detach_list_node, a
<1>4. CASE p # None
  <2>1. p \in Nodes
    BY <1>1, <1>4
  <2>2. a[t].next \in Nodes \cup {None}
    BY <1>2 DEF Linkage, LinkRec
  <2> DEFINE y == a[t].next
  <2>3. ASSUME NEW z \in Nodes, NEW x \in Nodes \cup {None}
        PROVE  [[a EXCEPT ![z].next = x] EXCEPT ![t].prev = None] \in Linkage
    <3>1. [a EXCEPT ![z].next = x] \in Linkage
      BY <1>2, <2>3 DEF Linkage, LinkRec
    <3> QED
      BY <3>1 DEF Linkage, LinkRec
  <2>4. [[a EXCEPT ![p].next = y] EXCEPT ![t].prev = None] \in Linkage
    BY <2>1, <2>2, <2>3
  <2> QED
    BY <1>4, <2>4 DEF detach_list_node, a
<1> QED
  BY <1>3, <1>4

\* insert_list_node_after() keeps to the nodes there are.
LEMMA LinkedAfter ==
    ASSUME NEW node \in Linkage, NEW t \in Nodes, NEW after \in Nodes
    PROVE  insert_list_node_after(node, t, after) \in Linkage
<1> DEFINE n == node[after].next
           b == [node EXCEPT ![t] = [prev |-> after, next |-> n]]
           a == [b EXCEPT ![after].next = t]
<1>1. n \in Nodes \cup {None}
  BY DEF Linkage, LinkRec
<1>2. b \in Linkage
  <2> HIDE DEF n
  <2>1. [prev |-> after, next |-> n] \in LinkRec
    BY <1>1 DEF LinkRec
  <2> QED
    BY <2>1 DEF Linkage
<1> HIDE DEF b
<1>3. a \in Linkage
  BY <1>2 DEF Linkage, LinkRec
<1>4. a = [node EXCEPT ![t] = [prev |-> after, next |-> n], ![after].next = t]
  BY DEF b
<1> HIDE DEF a
<1>5. CASE n = None
  BY <1>3, <1>4, <1>5 DEF insert_list_node_after
<1>6. CASE n # None
  <2>1. [a EXCEPT ![n].prev = t] \in Linkage
    <3>1. n \in Nodes
      BY <1>1, <1>6
    <3> HIDE DEF n
    <3> QED
      BY <1>3, <3>1 DEF Linkage, LinkRec
  <2> QED
    BY <1>4, <1>6, <2>1 DEF insert_list_node_after
<1> QED
  BY <1>5, <1>6

\* What the walk from the head has seen after k steps.
From(node) ==
    LET from[k \in 0 .. Cardinality(Thread)] ==
            IF k = 0 THEN <<Head0>>
            ELSE LET s == from[k - 1] IN
                 IF node[Last(s)].next = None THEN s
                 ELSE Append(s, node[Last(s)].next)
    IN  from

Longer(node, s) == IF node[Last(s)].next = None THEN s ELSE Append(s, node[Last(s)].next)

\* The steps along the timeout list.
LEMMA FromDefined ==
    ASSUME NEW node
    PROVE  /\ Cardinality(Thread) \in Nat
           /\ From(node)[0] = <<Head0>>
           /\ \A k \in 1 .. Cardinality(Thread) : From(node)[k] = Longer(node, From(node)[k - 1])
           /\ Listed(node) = Tail(From(node)[Cardinality(Thread)])
<1> DEFINE C == Cardinality(Thread)
           Step(k, f) == IF k = 0 THEN <<Head0>> ELSE Longer(node, f[k - 1])
           Is(f, n) == \A k \in 0 .. n : f[k] = Step(k, f)
           T == {n \in Nat : \E f : Is(f, n)}
<1>1. C \in Nat
  BY RefereeAssumption, FS_CardinalityType
<1>2. 0 \in T
  <2> DEFINE f == [k \in Nat |-> <<Head0>>]
  <2>1. Is(f, 0)
    OBVIOUS
  <2> QED
    BY <2>1
<1>3. ASSUME NEW n \in Nat, n \in T PROVE n + 1 \in T
  <2>1. PICK f : Is(f, n)
    BY <1>3
  <2> DEFINE g == [k \in 0 .. n + 1 |-> IF k <= n THEN f[k] ELSE Longer(node, f[n])]
  <2>2. \A k \in 0 .. n : g[k] = f[k]
    OBVIOUS
  <2>3. g[n + 1] = Longer(node, f[n])
    OBVIOUS
  <2> HIDE DEF g
  <2>4. ASSUME NEW k \in 0 .. n + 1 PROVE g[k] = Step(k, g)
    <3>1. CASE k = n + 1
      <4>1. k # 0 /\ k - 1 = n /\ g[k - 1] = f[n]
        BY <2>2, <3>1
      <4> QED
        BY <2>3, <3>1, <4>1
    <3>2. CASE k \in 0 .. n
      <4>1. k # 0 => g[k - 1] = f[k - 1]
        BY <2>2, <3>2
      <4> QED
        BY <2>1, <2>2, <3>2, <4>1
    <3> QED
      BY <3>1, <3>2
  <2> QED
    BY <2>4
<1>4. C \in T
  <2> HIDE DEF T
  <2>1. Nat \subseteq T
    BY <1>2, <1>3, SetInduction
  <2> QED
    BY <1>1, <2>1
<1>5. PICK f : Is(f, C)
  BY <1>4
<1> DEFINE g == [k \in 0 .. C |-> f[k]]
<1>6. g = [k \in 0 .. C |-> Step(k, g)]
  <2>1. ASSUME NEW k \in 0 .. C PROVE f[k] = Step(k, g)
    <3>1. k # 0 => g[k - 1] = f[k - 1]
      BY <1>1
    <3> QED
      BY <1>5, <3>1
  <2> QED
    BY <2>1
<1>7. From(node) = CHOOSE h : h = [k \in 0 .. C |-> Step(k, h)]
  BY DEF From, Longer
<1> HIDE DEF g
<1>8. From(node) = [k \in 0 .. C |-> Step(k, From(node))]
  BY <1>6, <1>7
<1>9. \A k \in 0 .. C : From(node)[k] = Step(k, From(node))
  BY <1>8
<1>10. Listed(node) = Tail(From(node)[C])
  BY DEF Listed, From
<1> QED
  BY <1>1, <1>9, <1>10

\* The list is a sequence of nodes.
LEMMA ListedNodes ==
    ASSUME NEW node \in Linkage
    PROVE  Listed(node) \in Seq(Nodes)
<1> DEFINE C == Cardinality(Thread)
           f == From(node)
           T == {n \in Nat : n <= C => f[n] \in Seq(Nodes) /\ f[n] # <<>>}
<1>1. C \in Nat /\ f[0] = <<Head0>> /\ Listed(node) = Tail(f[C])
      /\ \A k \in 1 .. C : f[k] = Longer(node, f[k - 1])
  BY FromDefined
<1> HIDE DEF f
<1>2. 0 \in T
  <2>1. Head0 \in Nodes
    BY DEF Nodes
  <2>2. <<Head0>> \in Seq(Nodes) /\ <<Head0>> # <<>>
    BY <2>1
  <2> QED
    BY <1>1, <2>2
<1>3. ASSUME NEW n \in Nat, n \in T PROVE n + 1 \in T
  <2> SUFFICES ASSUME n + 1 <= C PROVE f[n + 1] \in Seq(Nodes) /\ f[n + 1] # <<>>
    OBVIOUS
  <2>1. f[n] \in Seq(Nodes) /\ f[n] # <<>> /\ f[n + 1] = Longer(node, f[n])
    <3>1. n <= C /\ n + 1 \in 1 .. C /\ (n + 1) - 1 = n
      BY <1>1
    <3> QED
      BY <1>1, <1>3, <3>1
  <2> DEFINE s == f[n]
  <2> HIDE DEF s
  <2>2. s \in Seq(Nodes) /\ s # <<>>
    BY <2>1 DEF s
  <2>3. Last(s) \in Nodes
    BY <2>2 DEF Last
  <2>4. node[Last(s)].next \in Nodes \cup {None}
    BY <2>3 DEF Linkage, LinkRec
  <2> DEFINE x == node[Last(s)].next
  <2>5. x = None \/ x \in Nodes
    BY <2>4
  <2>6. Longer(node, s) = IF x = None THEN s ELSE Append(s, x)
    BY DEF Longer
  <2> HIDE DEF x
  <2>7. Longer(node, s) \in Seq(Nodes) /\ Longer(node, s) # <<>>
    BY <2>2, <2>5, <2>6
  <2> QED
    BY <2>1, <2>7 DEF s
<1>4. C \in T
  <2> HIDE DEF T
  <2>1. Nat \subseteq T
    BY <1>2, <1>3, SetInduction
  <2> QED
    BY <1>1, <2>1
<1>5. f[C] \in Seq(Nodes) /\ f[C] # <<>>
  BY <1>1, <1>4
<1> QED
  BY <1>1, <1>5

\* Nobody linked, nobody listed.
LEMMA ListedNone == Listed(NoneLinked) = <<>>
<1> DEFINE C == Cardinality(Thread)
           node == NoneLinked
           f == From(node)
           T == {n \in Nat : n <= C => f[n] = <<Head0>>}
<1>1. C \in Nat /\ f[0] = <<Head0>> /\ Listed(node) = Tail(f[C])
      /\ \A k \in 1 .. C : f[k] = Longer(node, f[k - 1])
  BY FromDefined
<1> HIDE DEF f
<1>2. Longer(node, <<Head0>>) = <<Head0>>
  <2>1. Last(<<Head0>>) = Head0
    BY DEF Last
  <2>2. node[Head0].next = None
    BY DEF NoneLinked, Unlinked, Nodes
  <2> QED
    BY <2>1, <2>2 DEF Longer
<1>3. ASSUME NEW n \in Nat, n \in T PROVE n + 1 \in T
  <2> SUFFICES ASSUME n + 1 <= C PROVE f[n + 1] = <<Head0>>
    OBVIOUS
  <2>1. n <= C /\ n + 1 \in 1 .. C /\ (n + 1) - 1 = n
    BY <1>1
  <2> QED
    BY <1>1, <1>2, <1>3, <2>1
<1>4. C \in T
  <2>1. 0 \in T
    BY <1>1
  <2> HIDE DEF T
  <2>2. Nat \subseteq T
    BY <1>3, <2>1, SetInduction
  <2> QED
    BY <1>1, <2>2
<1>5. f[C] = <<Head0>>
  BY <1>1, <1>4
<1> QED
  BY <1>1, <1>5

\* One client linked, one listed.
LEMMA ListedOne == ASSUME NEW u \in Thread PROVE Listed(OneLinked(u)) = <<u>>
<1> DEFINE C == Cardinality(Thread)
           node == OneLinked(u)
           f == From(node)
           T == {n \in Nat : n + 1 <= C => f[n + 1] = <<Head0, u>>}
<1>1. C \in Nat /\ f[0] = <<Head0>> /\ Listed(node) = Tail(f[C])
      /\ \A k \in 1 .. C : f[k] = Longer(node, f[k - 1])
  BY FromDefined
<1> HIDE DEF f
<1>2. C >= 1
  <2>1. C # 0
    BY RefereeAssumption, FS_EmptySet
  <2> QED
    BY <1>1, <2>1
<1>3. node[Head0].next = u /\ node[u].next = None /\ u # None
  BY Names DEF OneLinked, Nodes
<1>4. Longer(node, <<Head0>>) = <<Head0, u>>
  <2>1. Last(<<Head0>>) = Head0
    BY DEF Last
  <2>2. Append(<<Head0>>, u) = <<Head0, u>>
    <3> DEFINE s == <<Head0>>
               a == Append(s, u)
               b == <<Head0, u>>
    <3>1. s \in Seq({Head0, u}) /\ Len(s) = 1 /\ s[1] = Head0
      OBVIOUS
    <3>2. b \in Seq({Head0, u}) /\ Len(b) = 2 /\ b[1] = Head0 /\ b[2] = u
      OBVIOUS
    <3> HIDE DEF s, b
    <3>3. a \in Seq({Head0, u}) /\ Len(a) = 2 /\ a[1] = Head0 /\ a[2] = u
      BY <3>1
    <3> HIDE DEF a
    <3>4. \A i \in 1 .. Len(a) : a[i] = b[i]
      <4>1. \A i \in 1 .. 2 : i = 1 \/ i = 2
        OBVIOUS
      <4> QED
        BY <3>2, <3>3, <4>1
    <3>5. a = b
      BY <3>2, <3>3, <3>4, SeqEqual
    <3> QED
      BY <3>5 DEF a, b, s
  <2> HIDE DEF node
  <2> QED
    BY <1>3, <2>1, <2>2 DEF Longer
<1>5. Longer(node, <<Head0, u>>) = <<Head0, u>>
  <2>1. Last(<<Head0, u>>) = u
    BY DEF Last
  <2> HIDE DEF node
  <2> QED
    BY <1>3, <2>1 DEF Longer
<1> HIDE DEF node
<1>6. 0 \in T
  <2>1. 1 \in 1 .. C /\ 1 - 1 = 0
    BY <1>1, <1>2
  <2>2. f[1] = <<Head0, u>>
    BY <1>1, <1>4, <2>1
  <2> QED
    BY <2>2
<1>7. ASSUME NEW n \in Nat, n \in T PROVE n + 1 \in T
  <2> SUFFICES ASSUME (n + 1) + 1 <= C PROVE f[(n + 1) + 1] = <<Head0, u>>
    OBVIOUS
  <2>1. n + 1 <= C /\ (n + 1) + 1 \in 1 .. C /\ ((n + 1) + 1) - 1 = n + 1
    BY <1>1
  <2> QED
    BY <1>1, <1>5, <1>7, <2>1
<1>8. C - 1 \in T
  <2> HIDE DEF T
  <2>1. Nat \subseteq T
    BY <1>6, <1>7, SetInduction
  <2>2. C - 1 \in Nat
    BY <1>1, <1>2
  <2> QED
    BY <2>1, <2>2
<1>9. f[C] = <<Head0, u>>
  <2>1. (C - 1) + 1 = C /\ C <= C
    BY <1>1
  <2> QED
    BY <1>8, <2>1
<1>10. Tail(<<Head0, u>>) = <<u>>
  OBVIOUS
<1> QED
  BY <1>1, <1>9, <1>10 DEF node

\* Detaching a client that is not linked changes nothing; detaching the only
\* one that is leaves the list empty.
LEMMA DetachOne ==
    /\ \A t \in Thread : detach_list_node(NoneLinked, t) = NoneLinked
    /\ \A t, u \in Thread : detach_list_node(OneLinked(u), t) = IF t = u THEN NoneLinked ELSE OneLinked(u)
<1>1. ASSUME NEW t \in Thread, NEW node, node[t].prev = None, node[t].next = None
      PROVE  detach_list_node(node, t) = node
  BY <1>1 DEF detach_list_node
<1>2. ASSUME NEW t \in Thread PROVE detach_list_node(NoneLinked, t) = NoneLinked
  <2>1. NoneLinked[t].prev = None /\ NoneLinked[t].next = None
    BY DEF NoneLinked, Unlinked, Nodes
  <2> QED
    BY <1>1, <2>1
<1>3. ASSUME NEW t \in Thread, NEW u \in Thread, t # u
      PROVE  detach_list_node(OneLinked(u), t) = OneLinked(u)
  <2>1. OneLinked(u)[t].prev = None /\ OneLinked(u)[t].next = None
    BY <1>3, Names DEF OneLinked, Unlinked, Nodes
  <2> QED
    BY <1>1, <2>1
<1>4. ASSUME NEW u \in Thread PROVE detach_list_node(OneLinked(u), u) = NoneLinked
  <2> DEFINE node == OneLinked(u)
             b == [node EXCEPT ![Head0].next = None]
  <2>1. u # Head0 /\ u \in Nodes /\ Head0 \in Nodes /\ Head0 # None
    BY Names DEF Nodes
  <2>2. node[u] = [prev |-> Head0, next |-> None] /\ node[Head0] = [prev |-> None, next |-> u] /\ DOMAIN node = Nodes
        /\ \A x \in Nodes : x # u /\ x # Head0 => node[x] = Unlinked
    BY <2>1 DEF OneLinked
  <2>3. detach_list_node(node, u) = [node EXCEPT ![Head0].next = None, ![u].prev = None]
    <3> HIDE DEF node
    <3>1. node[u].prev = Head0 /\ node[u].next = None
      BY <2>2
    <3> QED
      BY <2>1, <3>1 DEF detach_list_node
  <2>4. b = [x \in Nodes |-> IF x = Head0 THEN [node[Head0] EXCEPT !.next = None] ELSE node[x]]
    BY <2>2
  <2>5. [node[Head0] EXCEPT !.next = None] = Unlinked
    BY <2>2 DEF Unlinked
  <2>6. b[u] = [prev |-> Head0, next |-> None] /\ DOMAIN b = Nodes /\ b[Head0] = Unlinked
        /\ \A x \in Nodes : x # u => b[x] = Unlinked
    <3> HIDE DEF b, node
    <3> QED
      BY <2>1, <2>2, <2>4, <2>5
  <2> HIDE DEF b
  <2>7. [b EXCEPT ![u].prev = None] = [x \in Nodes |-> IF x = u THEN [b[u] EXCEPT !.prev = None] ELSE b[x]]
    BY <2>6
  <2>8. [b[u] EXCEPT !.prev = None] = Unlinked
    BY <2>6 DEF Unlinked
  <2>9. [b EXCEPT ![u].prev = None] = NoneLinked
    BY <2>6, <2>7, <2>8 DEF NoneLinked
  <2>10. [node EXCEPT ![Head0].next = None, ![u].prev = None] = [b EXCEPT ![u].prev = None]
    BY DEF b
  <2> QED
    BY <2>3, <2>9, <2>10
<1> QED
  BY <1>2, <1>3, <1>4

\* insert_list_node_after() on an empty list.
LEMMA InsertFirst ==
    ASSUME NEW u \in Thread
    PROVE  insert_list_node_after(NoneLinked, u, Head0) = OneLinked(u)
<1> DEFINE node == NoneLinked
           b == [node EXCEPT ![u] = [prev |-> Head0, next |-> None]]
<1>1. u # Head0 /\ u \in Nodes /\ Head0 \in Nodes
  BY Names DEF Nodes
<1>2. DOMAIN node = Nodes /\ (\A x \in Nodes : node[x] = Unlinked) /\ node[Head0].next = None
  BY <1>1 DEF NoneLinked, Unlinked
<1>3. insert_list_node_after(node, u, Head0)
        = [node EXCEPT ![u] = [prev |-> Head0, next |-> None], ![Head0].next = u]
  <2> HIDE DEF node
  <2> QED
    BY <1>2 DEF insert_list_node_after
<1>4. DOMAIN b = Nodes /\ b[u] = [prev |-> Head0, next |-> None]
      /\ \A x \in Nodes : x # u => b[x] = Unlinked
  <2> HIDE DEF node
  <2> QED
    BY <1>1, <1>2
<1>5. [node EXCEPT ![u] = [prev |-> Head0, next |-> None], ![Head0].next = u]
        = [b EXCEPT ![Head0].next = u]
  BY DEF b
<1> HIDE DEF b
<1>6. [b EXCEPT ![Head0].next = u]
        = [x \in Nodes |-> IF x = Head0 THEN [b[Head0] EXCEPT !.next = u] ELSE b[x]]
  BY <1>4
<1>7. [b[Head0] EXCEPT !.next = u] = [prev |-> None, next |-> u]
  BY <1>1, <1>4 DEF Unlinked
<1>8. [b EXCEPT ![Head0].next = u] = OneLinked(u)
  BY <1>1, <1>4, <1>6, <1>7 DEF OneLinked
<1> QED
  BY <1>3, <1>5, <1>8

-----------------------------------------------------------------------------
(***************************************************************************)
(* The memory of the server, and the inductive invariant                   *)
(***************************************************************************)
\* The requests a thread makes.
Asked(t) == {GETROBUST} \cup UNION {Range(w[t]) : w \in Workload}

Completion ==
    UNION {{WriteDone(t)} \cup {ReadDone(t, m) : m \in Asked(t) \cup {NoMsg}} : t \in Thread}

ClientRec == [live : BOOLEAN, being_destroyed : BOOLEAN, reading : BOOLEAN,
              num_pending_request : Int, waiting_lock_key : {0}, deadline : Int]

Fields == {"locks", "node", "tc", "apc", "num_thread_client", "quit", "last_value",
           "sent", "crashed"}

Memory(s) ==
    /\ s = [f \in Fields |-> s[f]]
    /\ LocksOK(s.locks)
    /\ s.node \in Linkage
    /\ s.tc \in [Thread -> ClientRec]
    /\ s.apc \in Seq(Completion)
    /\ s.num_thread_client \in Int
    /\ s.quit \in BOOLEAN
    /\ s.sent = [t \in Thread |-> s.sent[t]]
    /\ s.crashed = FALSE

LiveIn(s) == {t \in Thread : s.tc[t].live}
Serving(c) == c.live /\ ~c.being_destroyed

\* While the callback of its read runs, client r counts as if its next read
\* were already pending.
Reading(s, t, r) == s.tc[t].reading \/ t = r
Pending(s, t, r) == s.tc[t].num_pending_request + (IF t = r THEN 1 ELSE 0)

\* The operations of a client.
Counted(s, t, r) ==
    LET c == s.tc[t] IN
    /\ Pending(s, t, r) = NR(s.apc, t) + NW(s.apc, t) + (IF Reading(s, t, r) THEN 1 ELSE 0)
    /\ ~c.live => c = NoClient
    /\ Serving(c) => NR(s.apc, t) + (IF Reading(s, t, r) THEN 1 ELSE 0) = 1
    /\ c.being_destroyed => /\ c.live /\ ~Reading(s, t, r) /\ NR(s.apc, t) = 0
                            /\ c.num_pending_request > 0
    /\ c.deadline >= MaxNow

\* What the server knows of a client and where its thread stands. P is the set
\* of those whom the server is about to answer.
Phase(s, t, P, r) ==
    LET c == s.tc[t] IN
    /\ at[t] \in {"probe", "open", "spawn", "abort"} => t \notin accepted
    /\ t \notin accepted => ~c.live
    /\ at[t] \notin {"transact", "abort"} => req[t] = NoMsg
    /\ at[t] # "transact" \/ req[t] # NoMsg => s.sent[t] = NoMsg
    /\ at[t] \in {"queued", "idle"} /\ t \in accepted => Serving(c) /\ Reading(s, t, r)
    /\ at[t] = "transact" /\ pipe = t => req[t] \in Asked(t)
    /\ at[t] = "transact" /\ t \in accepted =>
        /\ Serving(c) /\ req[t] = NoMsg /\ Asking(s.apc, t)
        /\ ~Reading(s, t, r) => s.sent[t] = NoMsg
        /\ Reading(s, t, r) /\ s.sent[t] = NoMsg => IsAsleep(s.locks, t) \/ t \in P
    /\ at[t] = "gone" => ~Reading(s, t, r) /\ Leaving(s.apc, t)
    /\ IsAsleep(s.locks, t) \/ t \in P
        => at[t] = "transact" /\ t \in accepted /\ Reading(s, t, r) /\ s.sent[t] = NoMsg
    /\ ~(IsAsleep(s.locks, t) /\ t \in P)
    /\ pipe = t => /\ t \notin accepted /\ s.sent[t] = NoMsg
                   /\ at[t] \in {"queued", "transact", "gone"}

Good(s, P, r) ==
    /\ Memory(s)
    /\ \A t \in Thread : Counted(s, t, r) /\ Phase(s, t, P, r)
    /\ s.num_thread_client = Cardinality(LiveIn(s))
    /\ s.quit => LiveIn(s) = {}

\* At most one client is in the timeout list, one that makes timed waits.
TimedThread(t) == \E m \in Asked(t) : m.op = "WAIT" /\ m.deadline # NoTimeout

OneTimed(s, P) ==
    \/ s.node = NoneLinked /\ \A t \in Thread : s.tc[t].deadline = NoTimeout
    \/ \E u \in Thread :
        /\ s.node = OneLinked(u) /\ TimedThread(u)
        /\ IsAsleep(s.locks, u) \/ u \in P
        /\ \A t \in Thread : s.tc[t].deadline # NoTimeout <=> t = u

\* The queues of a completed operation.
LEMMA CompletionIs ==
    /\ \A t \in Thread : WriteDone(t) \in Completion /\ WriteDone(t).tc = t /\ WriteDone(t).op = "write"
    /\ \A t \in Thread : \A m : /\ ReadDone(t, m).tc = t /\ ReadDone(t, m).op = "read" /\ ReadDone(t, m).msg = m
                            /\ m \in Asked(t) \cup {NoMsg} => ReadDone(t, m) \in Completion
    /\ \A e \in Completion : /\ e.tc \in Thread
                             /\ \/ e.op = "write" /\ e = WriteDone(e.tc)
                                \/ /\ e.op = "read" /\ e = ReadDone(e.tc, e.msg)
                                   /\ e.msg \in Asked(e.tc) \cup {NoMsg}
<1>1. \A t : WriteDone(t).tc = t /\ WriteDone(t).op = "write"
  BY DEF WriteDone
<1>2. \A t, m : ReadDone(t, m).tc = t /\ ReadDone(t, m).op = "read" /\ ReadDone(t, m).msg = m
  BY DEF ReadDone
<1>3. ASSUME NEW e \in Completion
      PROVE  /\ e.tc \in Thread
             /\ \/ e.op = "write" /\ e = WriteDone(e.tc)
                \/ /\ e.op = "read" /\ e = ReadDone(e.tc, e.msg)
                   /\ e.msg \in Asked(e.tc) \cup {NoMsg}
  <2>1. PICK t \in Thread : e = WriteDone(t) \/ \E m \in Asked(t) \cup {NoMsg} : e = ReadDone(t, m)
    BY DEF Completion
  <2>2. CASE e = WriteDone(t)
    BY <1>1, <2>2
  <2>3. ASSUME NEW m \in Asked(t) \cup {NoMsg}, e = ReadDone(t, m)
        PROVE  e.tc = t /\ e.op = "read" /\ e.msg = m
    BY <1>2, <2>3
  <2> QED
    BY <2>1, <2>2, <2>3
<1> QED
  BY <1>1, <1>2, <1>3 DEF Completion

\* The requests are well-formed, and none is empty.
LEMMA AskedIs ==
    ASSUME NEW t \in Thread, NEW m \in Asked(t)
    PROVE  m # NoMsg /\ (m = GETROBUST \/ IsRequest(m))
<1>1. m = GETROBUST \/ \E w \in Workload : m \in Range(w[t])
  BY DEF Asked
<1>2. CASE m = GETROBUST
  BY <1>2 DEF GETROBUST, NoMsg
<1>3. ASSUME NEW w \in Workload, m \in Range(w[t]) PROVE IsRequest(m)
  BY <1>3, RefereeAssumption DEF Range
<1>4. ASSUME IsRequest(m) PROVE m # NoMsg
  <2>1. m.op # "none"
    BY <1>4 DEF IsRequest, INITLOCK
  <2> QED
    BY <2>1 DEF NoMsg
<1> QED
  BY <1>1, <1>2, <1>3, <1>4

\* What becomes of the counts and of the requests when a write completes, when a
\* read does, and when a callback has run.
LEMMA AfterWrite ==
    ASSUME NEW a \in Seq(Completion), NEW u \in Thread, NEW t
    PROVE  /\ Append(a, WriteDone(u)) \in Seq(Completion)
           /\ NR(Append(a, WriteDone(u)), t) = NR(a, t)
           /\ NW(Append(a, WriteDone(u)), t) = IF t = u THEN NW(a, t) + 1 ELSE NW(a, t)
           /\ Asking(Append(a, WriteDone(u)), t) <=> Asking(a, t)
           /\ Leaving(Append(a, WriteDone(u)), t) <=> Leaving(a, t)
<1> DEFINE e == WriteDone(u)
           b == Append(a, e)
<1>0. b = Append(a, e)
  OBVIOUS
<1>1. e \in Completion /\ e.tc = u /\ e.op = "write" /\ "write" # "read"
  BY CompletionIs
<1> HIDE DEF e
<1>6. b \in Seq(Completion) /\ \A i \in DOMAIN a : b[i] = a[i]
  BY <1>1
<1> HIDE DEF b
<1>2. /\ Reads(b, t) = IF e.tc = t /\ e.op = "read"
                       THEN Reads(a, t) \cup {Len(a) + 1} ELSE Reads(a, t)
      /\ NR(b, t) = IF e.tc = t /\ e.op = "read" THEN NR(a, t) + 1 ELSE NR(a, t)
      /\ NW(b, t) = IF e.tc = t /\ e.op = "write" THEN NW(a, t) + 1 ELSE NW(a, t)
  BY <1>0, <1>1, Completed
<1>3. Reads(b, t) = Reads(a, t) /\ \A i \in Reads(a, t) : b[i] = a[i]
  <2>1. Reads(a, t) \subseteq DOMAIN a
    BY DEF Reads
  <2> QED
    BY <1>1, <1>2, <1>6, <2>1
<1>4. (Asking(b, t) <=> Asking(a, t)) /\ (Leaving(b, t) <=> Leaving(a, t))
  BY <1>3 DEF Asking, Leaving
<1>5. NR(b, t) = NR(a, t) /\ NW(b, t) = IF t = u THEN NW(a, t) + 1 ELSE NW(a, t)
  BY <1>1, <1>2
<1> QED
  BY <1>4, <1>5, <1>6 DEF b, e

\* A read completes: what waits to be called back, of each client.
LEMMA AfterRead ==
    ASSUME NEW a \in Seq(Completion), NEW u \in Thread, NEW m \in Asked(u) \cup {NoMsg}, NEW t
    PROVE  /\ Append(a, ReadDone(u, m)) \in Seq(Completion)
           /\ NR(Append(a, ReadDone(u, m)), t) = IF t = u THEN NR(a, t) + 1 ELSE NR(a, t)
           /\ NW(Append(a, ReadDone(u, m)), t) = NW(a, t)
           /\ t # u => /\ Asking(Append(a, ReadDone(u, m)), t) <=> Asking(a, t)
                       /\ Leaving(Append(a, ReadDone(u, m)), t) <=> Leaving(a, t)
           /\ t = u /\ NR(a, t) = 0 => /\ Asking(Append(a, ReadDone(u, m)), t) <=> m # NoMsg
                                       /\ Leaving(Append(a, ReadDone(u, m)), t) <=> m = NoMsg
<1> DEFINE e == ReadDone(u, m)
           b == Append(a, e)
           n == Len(a) + 1
<1>0. b = Append(a, e) /\ n = Len(a) + 1
  OBVIOUS
<1>1. e \in Completion /\ e.tc = u /\ e.op = "read" /\ "write" # "read" /\ e.msg = m
  <2>1. e.tc = u /\ e.op = "read" /\ e.msg = m
    BY DEF ReadDone
  <2>2. e \in Completion
    BY DEF Completion
  <2> QED
    BY <2>1, <2>2
<1> HIDE DEF e
<1>6. b \in Seq(Completion) /\ b[n] = e /\ \A i \in DOMAIN a : b[i] = a[i]
  BY <1>1
<1> HIDE DEF b, n
<1>2. /\ Reads(b, t) = IF e.tc = t /\ e.op = "read"
                       THEN Reads(a, t) \cup {n} ELSE Reads(a, t)
      /\ NR(b, t) = IF e.tc = t /\ e.op = "read" THEN NR(a, t) + 1 ELSE NR(a, t)
      /\ NW(b, t) = IF e.tc = t /\ e.op = "write" THEN NW(a, t) + 1 ELSE NW(a, t)
  BY <1>0, <1>1, Completed
<1>3. ASSUME t # u PROVE (Asking(b, t) <=> Asking(a, t)) /\ (Leaving(b, t) <=> Leaving(a, t))
  <2>1. Reads(b, t) = Reads(a, t) /\ \A i \in Reads(a, t) : b[i] = a[i]
    <3>1. Reads(a, t) \subseteq DOMAIN a
      BY DEF Reads
    <3> QED
      BY <1>1, <1>2, <1>3, <1>6, <3>1
  <2> QED
    BY <2>1 DEF Asking, Leaving
<1>4. ASSUME t = u, NR(a, t) = 0
      PROVE  (Asking(b, t) <=> m # NoMsg) /\ (Leaving(b, t) <=> m = NoMsg)
  <2>1. Reads(a, t) = {}
    BY <1>4, Counts
  <2>2. Reads(b, t) = {n} /\ b[n].msg = m
    BY <1>1, <1>2, <1>4, <1>6, <2>1
  <2> QED
    BY <2>2 DEF Asking, Leaving
<1>5. NR(b, t) = (IF t = u THEN NR(a, t) + 1 ELSE NR(a, t)) /\ NW(b, t) = NW(a, t)
  BY <1>1, <1>2
<1> QED
  BY <1>3, <1>4, <1>5, <1>6 DEF b, e

\* A callback is taken from the queue of completions.
LEMMA AfterCallback ==
    ASSUME NEW a \in Seq(Completion), a # <<>>, NEW t
    PROVE  /\ Tail(a) \in Seq(Completion) /\ Head(a) \in Completion
           /\ NR(a, t) = IF Head(a).tc = t /\ Head(a).op = "read"
                         THEN NR(Tail(a), t) + 1 ELSE NR(Tail(a), t)
           /\ NW(a, t) = IF Head(a).tc = t /\ Head(a).op = "write"
                         THEN NW(Tail(a), t) + 1 ELSE NW(Tail(a), t)
           /\ Asking(a, t) => /\ Asking(Tail(a), t)
                              /\ Head(a).tc = t /\ Head(a).op = "read" => Head(a).msg # NoMsg
           /\ Leaving(a, t) => /\ Leaving(Tail(a), t)
                               /\ Head(a).tc = t /\ Head(a).op = "read" => Head(a).msg = NoMsg
<1> DEFINE b == Tail(a)
           e == Head(a)
<1>0. b = Tail(a) /\ e = Head(a)
  OBVIOUS
<1>5. /\ b \in Seq(Completion) /\ e \in Completion /\ e = a[1] /\ 1 \in DOMAIN a
      /\ \A i \in DOMAIN b : a[i + 1] = b[i]
  OBVIOUS
<1> HIDE DEF b, e
<1>6. /\ NR(a, t) = IF e.tc = t /\ e.op = "read" THEN NR(b, t) + 1 ELSE NR(b, t)
      /\ NW(a, t) = IF e.tc = t /\ e.op = "write" THEN NW(b, t) + 1 ELSE NW(b, t)
      /\ \A i \in Reads(b, t) : i + 1 \in Reads(a, t)
  BY <1>0, CalledBack
<1>1. \A i \in Reads(b, t) : i + 1 \in Reads(a, t) /\ a[i + 1] = b[i]
  BY <1>5, <1>6 DEF Reads
<1>2. e.tc = t /\ e.op = "read" => 1 \in Reads(a, t) /\ a[1].msg = e.msg
  BY <1>5 DEF Reads
<1>3. Asking(a, t) => Asking(b, t) /\ (e.tc = t /\ e.op = "read" => e.msg # NoMsg)
  BY <1>1, <1>2 DEF Asking
<1>4. Leaving(a, t) => Leaving(b, t) /\ (e.tc = t /\ e.op = "read" => e.msg = NoMsg)
  BY <1>1, <1>2 DEF Leaving
<1> QED
  BY <1>3, <1>4, <1>5, <1>6 DEF b, e

\* The server answers a client: it queues a write, and the client may leave the
\* timeout list.
Answers(x, s, u) ==
    /\ x = [f \in Fields |-> x[f]]
    /\ x.locks = s.locks
    /\ x.node \in Linkage
    /\ x.tc = [s.tc EXCEPT ![u] = x.tc[u]]
    /\ x.tc[u] \in ClientRec
    /\ x.tc[u].live = s.tc[u].live
    /\ x.tc[u].being_destroyed = s.tc[u].being_destroyed
    /\ x.tc[u].reading = s.tc[u].reading
    /\ x.tc[u].num_pending_request = s.tc[u].num_pending_request + 1
    /\ x.tc[u].deadline >= MaxNow
    /\ x.apc = Append(s.apc, WriteDone(u))
    /\ x.num_thread_client = s.num_thread_client
    /\ x.quit = s.quit
    /\ x.sent = [s.sent EXCEPT ![u] = x.sent[u]] /\ x.sent[u] # NoMsg
    /\ x.crashed = FALSE

\* A client who is due an answer has got it.
LEMMA Answered ==
    ASSUME NEW s, NEW P, NEW r, Good(s, P, r), NEW u \in Thread, u \in P,
           NEW x, Answers(x, s, u)
    PROVE  Good(x, P \ {u}, r)
<1> DEFINE c == x.tc[u]
           m == x.sent[u]
<1>0. /\ c \in ClientRec
      /\ c.live = s.tc[u].live /\ c.being_destroyed = s.tc[u].being_destroyed
      /\ c.reading = s.tc[u].reading
      /\ c.num_pending_request = s.tc[u].num_pending_request + 1
      /\ c.deadline >= MaxNow
      /\ x = [f \in Fields |-> x[f]]
      /\ x.locks = s.locks /\ x.node \in Linkage /\ x.tc = [s.tc EXCEPT ![u] = c]
      /\ x.apc = Append(s.apc, WriteDone(u)) /\ x.num_thread_client = s.num_thread_client
      /\ x.quit = s.quit /\ x.sent = [s.sent EXCEPT ![u] = m] /\ x.crashed = FALSE
      /\ m # NoMsg
  BY DEF Answers
<1> HIDE DEF c, m
<1>1. Memory(s) /\ s.num_thread_client = Cardinality(LiveIn(s)) /\ (s.quit => LiveIn(s) = {})
  BY DEF Good
<1>2. s.tc \in [Thread -> ClientRec] /\ s.apc \in Seq(Completion) /\ s.sent = [t \in Thread |-> s.sent[t]]
  BY <1>1 DEF Memory
<1>4. ASSUME NEW t
      PROVE  /\ x.apc \in Seq(Completion)
             /\ NR(x.apc, t) = NR(s.apc, t)
             /\ NW(x.apc, t) = IF t = u THEN NW(s.apc, t) + 1 ELSE NW(s.apc, t)
             /\ (Asking(x.apc, t) <=> Asking(s.apc, t)) /\ (Leaving(x.apc, t) <=> Leaving(s.apc, t))
  <2> DEFINE a == s.apc
             b == x.apc
  <2>1. a \in Seq(Completion) /\ b = Append(a, WriteDone(u))
    BY <1>0, <1>2
  <2> HIDE DEF a, b
  <2>2. /\ b \in Seq(Completion)
        /\ NR(b, t) = NR(a, t)
        /\ NW(b, t) = IF t = u THEN NW(a, t) + 1 ELSE NW(a, t)
        /\ (Asking(b, t) <=> Asking(a, t)) /\ (Leaving(b, t) <=> Leaving(a, t))
    BY <2>1, AfterWrite
  <2> QED
    BY <2>2 DEF a, b
<1>5. x.tc \in [Thread -> ClientRec] /\ x.tc[u] = c /\ \A t \in Thread : t # u => x.tc[t] = s.tc[t]
  BY <1>0, <1>2
<1>6. x.sent[u] = m /\ (\A t \in Thread : t # u => x.sent[t] = s.sent[t]) /\ x.sent = [t \in Thread |-> x.sent[t]]
  BY <1>0, <1>2
<1>7. Memory(x)
  BY <1>0, <1>1, <1>4, <1>5, <1>6 DEF Memory
<1>8. LiveIn(x) = LiveIn(s)
  BY <1>0, <1>5 DEF LiveIn
<1>10. Counted(s, u, r) /\ Phase(s, u, P, r) /\ u \in P
  BY DEF Good
<1>11. at[u] = "transact" /\ u \in accepted /\ Reading(s, u, r) /\ Serving(s.tc[u])
  BY <1>10 DEF Phase
<1>12. c.live = TRUE /\ c.being_destroyed = FALSE
  <2>1. s.tc[u].live \in BOOLEAN /\ s.tc[u].being_destroyed \in BOOLEAN
    BY <1>2 DEF ClientRec
  <2> QED
    BY <1>0, <1>11, <2>1 DEF Serving
<1>13. NR(s.apc, u) \in Nat /\ NW(s.apc, u) \in Nat /\ s.tc[u].num_pending_request \in Int
  BY <1>2, Counts DEF ClientRec
<1>14. Counted(x, u, r)
  <2>1. Reading(x, u, r) <=> Reading(s, u, r)
    BY <1>0, <1>5 DEF Reading
  <2>2. Pending(x, u, r) = Pending(s, u, r) + 1
    BY <1>0, <1>5, <1>13 DEF Pending
  <2>3. Pending(s, u, r) = NR(s.apc, u) + NW(s.apc, u) + 1 /\ NR(s.apc, u) + 1 = 1
    BY <1>10, <1>11 DEF Counted
  <2>4. Pending(x, u, r) = NR(x.apc, u) + NW(x.apc, u) + 1
    BY <1>4, <1>13, <2>2, <2>3
  <2> QED
    BY <1>0, <1>4, <1>5, <1>11, <1>12, <2>1, <2>3, <2>4 DEF Counted
<1>15. Phase(x, u, P \ {u}, r)
  <2>1. Reading(x, u, r)
    BY <1>0, <1>5, <1>11 DEF Reading
  <2>2. Serving(x.tc[u])
    BY <1>5, <1>12 DEF Serving
  <2>3. ~IsAsleep(x.locks, u)
    BY <1>0, <1>10 DEF Phase
  <2> QED
    BY <1>0, <1>4, <1>6, <1>10, <1>11, <2>1, <2>2, <2>3 DEF Phase
<1>16. ASSUME NEW t \in Thread, t # u PROVE Counted(x, t, r) /\ Phase(x, t, P \ {u}, r)
  <2>1. Counted(s, t, r) /\ Phase(s, t, P, r)
    BY DEF Good
  <2>2. /\ x.tc[t] = s.tc[t] /\ x.sent[t] = s.sent[t] /\ x.locks = s.locks
        /\ NR(x.apc, t) = NR(s.apc, t) /\ NW(x.apc, t) = NW(s.apc, t)
        /\ t \in P \ {u} <=> t \in P
    BY <1>0, <1>4, <1>5, <1>6, <1>16
  <2>3. (Reading(x, t, r) <=> Reading(s, t, r)) /\ Pending(x, t, r) = Pending(s, t, r)
    BY <2>2 DEF Reading, Pending
  <2>4. Counted(x, t, r)
    BY <2>1, <2>2, <2>3 DEF Counted
  <2>5. Phase(x, t, P \ {u}, r)
    BY <1>4, <2>1, <2>2, <2>3 DEF Phase
  <2> QED
    BY <2>4, <2>5
<1>17. \A t \in Thread : Counted(x, t, r) /\ Phase(x, t, P \ {u}, r)
  BY <1>14, <1>15, <1>16
<1> QED
  BY <1>0, <1>1, <1>7, <1>8, <1>17 DEF Good

\* Neither the locks nor the timeouts have changed.
SameSleep(x, s) ==
    /\ x.node = s.node /\ x.locks = s.locks
    /\ \A t \in Thread : x.tc[t].deadline = s.tc[t].deadline

\* Each field of a client.
LEMMA ClientIs ==
    ASSUME NEW s, Memory(s), NEW t \in Thread
    PROVE  /\ s.tc[t] \in ClientRec
           /\ s.tc[t].live \in BOOLEAN /\ s.tc[t].being_destroyed \in BOOLEAN
           /\ s.tc[t].reading \in BOOLEAN /\ s.tc[t].num_pending_request \in Int
           /\ s.tc[t].waiting_lock_key = 0 /\ s.tc[t].deadline \in Int
           /\ DOMAIN s = Fields
<1>1. s.tc[t] \in ClientRec
  BY DEF Memory
<1>2. DOMAIN s = Fields
  BY DEF Memory
<1> QED
  BY <1>1, <1>2 DEF ClientRec

\* thread_client_queue_write() to a client that waits for its answer.
LEMMA QueueWrite ==
    ASSUME NEW s, NEW P, NEW r, Good(s, P, r), NEW u \in Thread, u \in P, NEW m, m # NoMsg
    PROVE  /\ Good(thread_client_queue_write(s, u, m), P \ {u}, r)
           /\ SameSleep(thread_client_queue_write(s, u, m), s)
<1> DEFINE c == [s.tc[u] EXCEPT !.num_pending_request = @ + 1]
           x == [s EXCEPT !.tc[u].num_pending_request = @ + 1,
                          !.apc = Append(@, [op |-> "write", tc |-> u]),
                          !.sent[u] = m]
<1>1. Memory(s) /\ Counted(s, u, r) /\ Phase(s, u, P, r)
  BY DEF Good
<1>2. at[u] = "transact" /\ u \in accepted /\ Serving(s.tc[u])
  BY <1>1 DEF Phase
<1>3. thread_client_queue_write(s, u, m) = x
  BY <1>2 DEF thread_client_queue_write, Connected, Serving
<1>4. /\ c \in ClientRec
      /\ c.live = s.tc[u].live /\ c.being_destroyed = s.tc[u].being_destroyed
      /\ c.reading = s.tc[u].reading
      /\ c.num_pending_request = s.tc[u].num_pending_request + 1
      /\ c.deadline = s.tc[u].deadline
  <2>1. s.tc[u] \in ClientRec
    BY <1>1, ClientIs
  <2> QED
    BY <2>1 DEF ClientRec
<1>5. s.tc[u].deadline >= MaxNow
  BY <1>1 DEF Counted
<1>6. s = [f \in Fields |-> s[f]] /\ s.node \in Linkage /\ s.crashed = FALSE /\ s.tc \in [Thread -> ClientRec]
  BY <1>1 DEF Memory
<1>7. /\ x = [f \in Fields |-> x[f]]
      /\ x.locks = s.locks /\ x.node = s.node
      /\ x.num_thread_client = s.num_thread_client
      /\ x.quit = s.quit /\ x.crashed = s.crashed
  BY <1>6 DEF Fields
<1>8. x.tc = [s.tc EXCEPT ![u] = c]
  BY <1>6 DEF Fields
<1>9. x.apc = Append(s.apc, WriteDone(u))
  BY <1>6 DEF Fields, WriteDone
<1>10. x.sent = [s.sent EXCEPT ![u] = m]
  BY <1>6 DEF Fields
<1> HIDE DEF x, c
<1>11. Good(x, P \ {u}, r)
  <2>1. c.deadline >= MaxNow /\ x.node \in Linkage /\ x.crashed = FALSE
    BY <1>4, <1>5, <1>6, <1>7
  <2> QED
    <3>1. x.tc[u] = c /\ x.sent[u] = m
      BY <1>1, <1>8, <1>10 DEF Memory
    <3>2. Answers(x, s, u)
      BY <1>4, <1>7, <1>8, <1>9, <1>10, <2>1, <3>1 DEF Answers
    <3> QED
      BY <3>2, Answered
<1>12. SameSleep(x, s)
  BY <1>4, <1>6, <1>7, <1>8 DEF SameSleep
<1> QED
  BY <1>3, <1>11, <1>12

\* Nobody falls asleep or wakes up: the timeout list stays right.
LEMMA SameTimed ==
    ASSUME NEW s, NEW x, SameSleep(x, s), NEW P
    PROVE  OneTimed(s, P) => OneTimed(x, P)
BY DEF SameSleep, OneTimed

\* thread_client_wakeup(): the answer to a wait.
LEMMA Wakeup ==
    ASSUME NEW s, NEW P, NEW r, Good(s, P, r), NEW u \in Thread, u \in P, NEW late \in BOOLEAN
    PROVE  /\ Good(thread_client_wakeup(s, u, late), P \ {u}, r)
           /\ thread_client_wakeup(s, u, late).locks = s.locks
           /\ \A Q : OneTimed(s, Q) => OneTimed(thread_client_wakeup(s, u, late), Q \ {u})
<1> DEFINE m == Answer("WAIT", late)
           a == [s EXCEPT !.node = detach_list_node(s.node, u),
                          !.tc[u].waiting_lock_key = 0,
                          !.tc[u].deadline = NoTimeout]
           x == [a EXCEPT !.tc[u].num_pending_request = @ + 1,
                          !.apc = Append(@, [op |-> "write", tc |-> u]),
                          !.sent[u] = m]
           c == [s.tc[u] EXCEPT !.deadline = NoTimeout]
           d == [c EXCEPT !.num_pending_request = @ + 1]
           node == detach_list_node(s.node, u)
<1>1. Memory(s) /\ Counted(s, u, r) /\ Phase(s, u, P, r)
  BY DEF Good
<1>2. at[u] = "transact" /\ u \in accepted /\ Serving(s.tc[u])
  BY <1>1 DEF Phase
<1>3. MaxNow \in Nat /\ NoTimeout \in Int /\ NoTimeout >= MaxNow
  BY RefereeAssumption DEF NoTimeout
<1>4. /\ s = [f \in Fields |-> s[f]] /\ s.node \in Linkage /\ s.crashed = FALSE
      /\ s.tc \in [Thread -> ClientRec] /\ s.sent = [t \in Thread |-> s.sent[t]]
  BY <1>1 DEF Memory
<1>5. s.tc[u] \in ClientRec /\ s.tc[u].waiting_lock_key = 0
  BY <1>1, ClientIs
<1>6. /\ c \in ClientRec
      /\ c.live = s.tc[u].live /\ c.being_destroyed = s.tc[u].being_destroyed
      /\ c.reading = s.tc[u].reading
      /\ c.num_pending_request = s.tc[u].num_pending_request
      /\ c.deadline = NoTimeout
  BY <1>3, <1>5 DEF ClientRec
<1>7. node \in Linkage
  BY <1>4, Detached DEF Nodes
<1>8. /\ a = [f \in Fields |-> a[f]]
      /\ a.locks = s.locks /\ a.node = node /\ a.apc = s.apc
      /\ a.num_thread_client = s.num_thread_client
      /\ a.quit = s.quit /\ a.crashed = s.crashed /\ a.sent = s.sent
  <2> HIDE DEF node
  <2> QED
    BY <1>4 DEF Fields, node
<1>9. a.tc = [s.tc EXCEPT ![u] = c]
  <2>1. a.tc = [s.tc EXCEPT ![u] = [[s.tc[u] EXCEPT !.waiting_lock_key = 0] EXCEPT !.deadline = NoTimeout]]
    BY <1>4 DEF Fields
  <2>2. [s.tc[u] EXCEPT !.waiting_lock_key = 0] = s.tc[u]
    BY <1>5 DEF ClientRec
  <2> QED
    BY <2>1, <2>2
<1>10. a.tc[u] = c
  BY <1>4, <1>9
<1> HIDE DEF a, c
<1>11. thread_client_wakeup(s, u, late) = x
  <2>1. s.tc[u].live
    BY <1>2 DEF Serving
  <2>2. thread_client_wakeup(s, u, late) = thread_client_queue_write(a, u, m)
    BY <2>1 DEF thread_client_wakeup, a
  <2>3. ~a.tc[u].being_destroyed
    BY <1>2, <1>6, <1>10 DEF Serving
  <2> QED
    BY <1>2, <2>2, <2>3 DEF thread_client_queue_write, Connected
<1>12. /\ d \in ClientRec
       /\ d.live = s.tc[u].live /\ d.being_destroyed = s.tc[u].being_destroyed
       /\ d.reading = s.tc[u].reading
       /\ d.num_pending_request = s.tc[u].num_pending_request + 1
       /\ d.deadline = NoTimeout
  BY <1>5, <1>6 DEF ClientRec
<1>13. /\ x = [f \in Fields |-> x[f]]
       /\ x.locks = s.locks /\ x.node = node
       /\ x.num_thread_client = s.num_thread_client
       /\ x.quit = s.quit /\ x.crashed = s.crashed
       /\ x.apc = Append(s.apc, WriteDone(u))
       /\ x.sent = [s.sent EXCEPT ![u] = m]
  BY <1>8 DEF Fields, WriteDone
<1>14. x.tc = [s.tc EXCEPT ![u] = d]
  <2>1. x.tc = [a.tc EXCEPT ![u] = [a.tc[u] EXCEPT !.num_pending_request = @ + 1]]
    BY <1>8 DEF Fields
  <2>2. x.tc = [a.tc EXCEPT ![u] = d]
    BY <1>10, <2>1
  <2> HIDE DEF x, d
  <2> QED
    BY <1>4, <1>9, <2>2
<1> HIDE DEF x, d
<1>15. x.tc[u] = d /\ x.sent[u] = m /\ \A t \in Thread : t # u => x.tc[t] = s.tc[t]
  BY <1>4, <1>13, <1>14
<1>16. m # NoMsg
  <2>1. m.op = "WAIT" /\ NoMsg.op = "none"
    BY DEF Answer, NoMsg
  <2> QED
    BY <2>1
<1>17. Answers(x, s, u)
  BY <1>3, <1>4, <1>7, <1>12, <1>13, <1>14, <1>15, <1>16 DEF Answers
<1>18. Good(x, P \ {u}, r)
  BY <1>17, Answered
<1>19. ASSUME NEW Q, OneTimed(s, Q) PROVE OneTimed(x, Q \ {u})
  <2>1. x.tc[u].deadline = NoTimeout /\ \A t \in Thread : t # u => x.tc[t].deadline = s.tc[t].deadline
    BY <1>12, <1>15
  <2>2. CASE s.node = NoneLinked /\ \A t \in Thread : s.tc[t].deadline = NoTimeout
    <3>1. x.node = NoneLinked
      BY <1>13, <2>2, DetachOne
    <3> QED
      BY <2>1, <2>2, <3>1 DEF OneTimed
  <2>3. ASSUME NEW v \in Thread, s.node = OneLinked(v), TimedThread(v),
               IsAsleep(s.locks, v) \/ v \in Q,
               \A t \in Thread : s.tc[t].deadline # NoTimeout <=> t = v
        PROVE  OneTimed(x, Q \ {u})
    <3>1. CASE v = u
      <4>1. x.node = NoneLinked
        BY <1>13, <2>3, <3>1, DetachOne
      <4> QED
        BY <2>1, <2>3, <3>1, <4>1 DEF OneTimed
    <3>2. CASE v # u
      <4>1. x.node = OneLinked(v)
        BY <1>13, <2>3, <3>2, DetachOne
      <4>2. IsAsleep(x.locks, v) \/ v \in Q \ {u}
        BY <1>13, <2>3, <3>2
      <4>3. \A t \in Thread : x.tc[t].deadline # NoTimeout <=> t = v
        BY <2>1, <2>3, <3>2
      <4> QED
        BY <2>3, <4>1, <4>2, <4>3 DEF OneTimed
    <3> QED
      BY <3>1, <3>2
  <2> QED
    BY <1>19, <2>2, <2>3 DEF OneTimed
<1> QED
  BY <1>11, <1>13, <1>18, <1>19

\* One node of the walk of lock_wake_waiters(): w is what has been done so far.
Woken1(w, q, gone, k) ==
    IF k \in gone THEN thread_client_wakeup(w, q[k].tc, FALSE) ELSE w

\* The walk of lock_wake_waiters(), node by node.
LEMMA WalkDefined ==
    ASSUME NEW s, NEW q, Len(q) \in Nat, NEW gone
    PROVE  /\ WakeWalk(s, q, gone)[0] = s
           /\ \A k \in 1 .. Len(q) :
                WakeWalk(s, q, gone)[k] = Woken1(WakeWalk(s, q, gone)[k - 1], q, gone, k)
<1> DEFINE C == Len(q)
           Step(k, f) == IF k = 0 THEN s ELSE Woken1(f[k - 1], q, gone, k)
           Is(f, n) == \A k \in 0 .. n : f[k] = Step(k, f)
           T == {n \in Nat : \E f : Is(f, n)}
<1>1. C \in Nat
  OBVIOUS
<1>2. 0 \in T
  <2> DEFINE f == [k \in Nat |-> s]
  <2>1. Is(f, 0)
    OBVIOUS
  <2> QED
    BY <2>1
<1>3. ASSUME NEW n \in Nat, n \in T PROVE n + 1 \in T
  <2>1. PICK f : Is(f, n)
    BY <1>3
  <2> DEFINE g == [k \in 0 .. n + 1 |-> IF k <= n THEN f[k] ELSE Woken1(f[n], q, gone, n + 1)]
  <2>2. \A k \in 0 .. n : g[k] = f[k]
    OBVIOUS
  <2>3. g[n + 1] = Woken1(f[n], q, gone, n + 1)
    OBVIOUS
  <2> HIDE DEF g
  <2>4. ASSUME NEW k \in 0 .. n + 1 PROVE g[k] = Step(k, g)
    <3>1. CASE k = n + 1
      <4>1. k # 0 /\ k - 1 = n /\ g[k - 1] = f[n]
        BY <2>2, <3>1
      <4> QED
        BY <2>3, <3>1, <4>1
    <3>2. CASE k \in 0 .. n
      <4>1. k # 0 => g[k - 1] = f[k - 1]
        BY <2>2, <3>2
      <4> QED
        BY <2>1, <2>2, <3>2, <4>1
    <3> QED
      BY <3>1, <3>2
  <2> QED
    BY <2>4
<1>4. C \in T
  <2> HIDE DEF T
  <2>1. Nat \subseteq T
    BY <1>2, <1>3, SetInduction
  <2> QED
    BY <1>1, <2>1
<1>5. PICK f : Is(f, C)
  BY <1>4
<1> DEFINE g == [k \in 0 .. C |-> f[k]]
<1>6. g = [k \in 0 .. C |-> Step(k, g)]
  <2>1. ASSUME NEW k \in 0 .. C PROVE f[k] = Step(k, g)
    <3>1. k # 0 => g[k - 1] = f[k - 1]
      BY <1>1
    <3> QED
      BY <1>5, <3>1
  <2> QED
    BY <2>1
<1>7. WakeWalk(s, q, gone) = CHOOSE h : h = [k \in 0 .. C |-> Step(k, h)]
  BY DEF WakeWalk, Woken1
<1> HIDE DEF g
<1>8. WakeWalk(s, q, gone) = [k \in 0 .. C |-> Step(k, WakeWalk(s, q, gone))]
  BY <1>6, <1>7
<1>9. \A k \in 0 .. C : WakeWalk(s, q, gone)[k] = Step(k, WakeWalk(s, q, gone))
  BY <1>8
<1> QED
  BY <1>1, <1>9

\* The clients the walk is to wake: all are in P, each is in the queue once.
TakenFrom(q, gone) == {q[k].tc : k \in gone}
Wakeable(q, gone, P) ==
    /\ q \in Seq(WaiterRec) /\ gone \in SUBSET DOMAIN q
    /\ \A k, l \in DOMAIN q : q[k].tc = q[l].tc => k = l
    /\ \A k \in gone : q[k].tc \in P

\* The walk answers those it has to wake, each once.
LEMMA Walk ==
    ASSUME NEW s, NEW P, NEW r, Good(s, P, r), NEW q, NEW gone, Wakeable(q, gone, P)
    PROVE  /\ Good(WakeWalk(s, q, gone)[Len(q)], P \ TakenFrom(q, gone), r)
           /\ WakeWalk(s, q, gone)[Len(q)].locks = s.locks
           /\ \A Q : OneTimed(s, Q)
                => OneTimed(WakeWalk(s, q, gone)[Len(q)], Q \ TakenFrom(q, gone))
<1>0. /\ q \in Seq(WaiterRec) /\ gone \in SUBSET DOMAIN q
      /\ \A k, l \in DOMAIN q : q[k].tc = q[l].tc => k = l
      /\ \A k \in gone : q[k].tc \in P
  BY DEF Wakeable
<1> USE <1>0
<1> DEFINE w == WakeWalk(s, q, gone)
           W(n) == {q[k].tc : k \in {l \in gone : l <= n}}
           Sofar(n) == /\ Good(w[n], P \ W(n), r)
                       /\ w[n].locks = s.locks
                       /\ \A Q : OneTimed(s, Q) => OneTimed(w[n], Q \ W(n))
           T == {n \in Nat : n <= Len(q) => Sofar(n)}
<1>1. /\ Len(q) \in Nat /\ DOMAIN q = 1 .. Len(q)
      /\ \A k \in DOMAIN q : q[k].tc \in Thread
  <2>1. \A k \in DOMAIN q : q[k] \in WaiterRec
    OBVIOUS
  <2> QED
    BY <2>1 DEF WaiterRec
<1>2. /\ w[0] = s
      /\ \A k \in 1 .. Len(q) : w[k] = Woken1(w[k - 1], q, gone, k)
  BY <1>1, WalkDefined
<1> HIDE DEF w
<1>3. 0 \in T
  <2>1. W(0) = {}
    BY <1>1
  <2>2. \A Q : Q \ W(0) = Q
    BY <2>1
  <2> HIDE DEF W
  <2> QED
    BY <1>2, <2>2
<1>4. ASSUME NEW n \in Nat, n \in T PROVE n + 1 \in T
  <2> SUFFICES ASSUME n + 1 <= Len(q) PROVE Sofar(n + 1)
    OBVIOUS
  <2>1. n + 1 \in DOMAIN q /\ Sofar(n) /\ w[n + 1] = Woken1(w[n], q, gone, n + 1)
    <3>1. n <= Len(q) /\ n + 1 \in 1 .. Len(q) /\ (n + 1) - 1 = n
      BY <1>1
    <3> QED
      BY <1>1, <1>2, <1>4, <3>1
  <2> DEFINE u == q[n + 1].tc
  <2>2. CASE n + 1 \notin gone
    <3>1. W(n + 1) = W(n)
      <4>1. \A l \in gone : l <= n + 1 <=> l <= n
        BY <1>1, <2>2
      <4> QED
        BY <4>1
    <3>2. w[n + 1] = w[n]
      BY <2>1, <2>2 DEF Woken1
    <3> HIDE DEF W
    <3> QED
      BY <2>1, <3>1, <3>2
  <2>3. CASE n + 1 \in gone
    <3>1. W(n + 1) = W(n) \cup {u}
      <4>1. \A l \in gone : l <= n + 1 <=> l <= n \/ l = n + 1
        BY <1>1
      <4> QED
        BY <2>3, <4>1
    <3>2. u \in Thread /\ u \in P \ W(n)
      <4>1. \A l \in gone : l <= n => l # n + 1 /\ q[l].tc # u
        BY <1>1, <2>1
      <4> QED
        BY <1>1, <2>1, <2>3, <4>1
    <3>3. w[n + 1] = thread_client_wakeup(w[n], u, FALSE)
      BY <2>1, <2>3 DEF Woken1
    <3>4. \A Q : (Q \ W(n)) \ {u} = Q \ W(n + 1)
      BY <3>1
    <3> HIDE DEF W, u
    <3>5. Good(w[n], P \ W(n), r) /\ w[n].locks = s.locks
      BY <2>1
    <3> DEFINE a == w[n]
               b == w[n + 1]
               R == P \ W(n)
    <3>8. Good(a, R, r) /\ a.locks = s.locks /\ b = thread_client_wakeup(a, u, FALSE) /\ u \in Thread /\ u \in R
      BY <3>2, <3>3, <3>5
    <3>9. /\ Good(b, R \ {u}, r) /\ b.locks = s.locks
          /\ \A Q : OneTimed(a, Q) => OneTimed(b, Q \ {u})
      <4> HIDE DEF a, b, R
      <4> QED
        BY <3>8, Wakeup
    <3>6. Good(w[n + 1], (P \ W(n)) \ {u}, r) /\ w[n + 1].locks = s.locks
      BY <3>9
    <3>7. ASSUME NEW Q, OneTimed(s, Q) PROVE OneTimed(w[n + 1], Q \ W(n + 1))
      <4>1. OneTimed(w[n], Q \ W(n))
        BY <2>1, <3>7
      <4>2. OneTimed(w[n + 1], (Q \ W(n)) \ {u})
        BY <3>9, <4>1
      <4> QED
        BY <3>4, <4>2
    <3> QED
      BY <3>4, <3>6, <3>7
  <2> QED
    BY <2>2, <2>3
<1>5. Len(q) \in T
  <2> HIDE DEF T
  <2>1. Nat \subseteq T
    BY <1>3, <1>4, SetInduction
  <2> QED
    BY <1>1, <2>1
<1>6. Sofar(Len(q))
  BY <1>1, <1>5
<1>7. W(Len(q)) = TakenFrom(q, gone)
  <2>1. \A l \in gone : l <= Len(q)
    BY <1>1
  <2> QED
    BY <2>1 DEF TakenFrom
<1> HIDE DEF W
<1> QED
  BY <1>6, <1>7 DEF w

\* thread_client_queue_read() once the request of client u is handled: it has
\* no other in its pipe.
LEMMA QueueRead ==
    ASSUME NEW s, NEW u \in Thread, Good(s, {}, u), at[u] = "transact", u \in accepted
    PROVE  /\ Good(thread_client_queue_read(s, u), {}, None)
           /\ SameSleep(thread_client_queue_read(s, u), s)
<1> DEFINE c == [s.tc[u] EXCEPT !.num_pending_request = @ + 1, !.reading = TRUE]
           x == [s EXCEPT !.tc[u].num_pending_request = @ + 1,
                          !.tc[u].reading = (req[u] = NoMsg),
                          !.apc = IF req[u] = NoMsg THEN @
                                  ELSE Append(@, [op |-> "read", tc |-> u, msg |-> req[u]])]
<1>1. Memory(s) /\ Counted(s, u, u) /\ Phase(s, u, {}, u)
  BY DEF Good
<1>2. Serving(s.tc[u]) /\ req[u] = NoMsg
  BY <1>1 DEF Phase
<1>3. thread_client_queue_read(s, u) = x
  BY <1>2 DEF thread_client_queue_read, Connected, Serving
<1>4. /\ s = [f \in Fields |-> s[f]] /\ s.tc \in [Thread -> ClientRec] /\ s.apc \in Seq(Completion)
  BY <1>1 DEF Memory
<1>5. /\ c \in ClientRec
      /\ c.live = s.tc[u].live /\ c.being_destroyed = s.tc[u].being_destroyed
      /\ c.reading = TRUE
      /\ c.num_pending_request = s.tc[u].num_pending_request + 1
      /\ c.deadline = s.tc[u].deadline
  <2>1. s.tc[u] \in ClientRec
    BY <1>4
  <2> QED
    <3> DEFINE k == s.tc[u]
    <3>1. k \in ClientRec /\ k.num_pending_request + 1 \in Int
      BY <2>1 DEF ClientRec
    <3> HIDE DEF k
    <3>2. ASSUME NEW b \in BOOLEAN
          PROVE  LET d == [k EXCEPT !.num_pending_request = @ + 1, !.reading = b]
                 IN  /\ d \in ClientRec
                     /\ d.live = k.live /\ d.being_destroyed = k.being_destroyed
                     /\ d.reading = b /\ d.num_pending_request = k.num_pending_request + 1
                     /\ d.deadline = k.deadline
      BY <3>1 DEF ClientRec
    <3>3. LET d == [k EXCEPT !.num_pending_request = @ + 1, !.reading = TRUE]
          IN  /\ d \in ClientRec
              /\ d.live = k.live /\ d.being_destroyed = k.being_destroyed
              /\ d.reading = TRUE /\ d.num_pending_request = k.num_pending_request + 1
              /\ d.deadline = k.deadline
      BY <3>2, Zenon
    <3> QED
      BY <3>3 DEF k
<1>6. /\ x = [f \in Fields |-> x[f]]
      /\ x.locks = s.locks /\ x.node = s.node /\ x.apc = s.apc /\ x.sent = s.sent
      /\ x.num_thread_client = s.num_thread_client
      /\ x.quit = s.quit /\ x.crashed = s.crashed
  BY <1>2, <1>4 DEF Fields
<1>7. x.tc = [s.tc EXCEPT ![u] = c]
  <2>1. x.tc = [s.tc EXCEPT ![u] = [[s.tc[u] EXCEPT !.num_pending_request = @ + 1]
                                      EXCEPT !.reading = (req[u] = NoMsg)]]
    BY <1>4 DEF Fields
  <2>2. (req[u] = NoMsg) = TRUE
    BY <1>2
  <2> QED
    BY <2>1, <2>2
<1> HIDE DEF x, c
<1>8. x.tc[u] = c /\ (\A t \in Thread : t # u => x.tc[t] = s.tc[t]) /\ x.tc \in [Thread -> ClientRec]
  BY <1>4, <1>5, <1>7
<1>9. Memory(x)
  BY <1>1, <1>6, <1>8 DEF Memory
<1>10. LiveIn(x) = LiveIn(s)
  BY <1>5, <1>8 DEF LiveIn
<1>11. u # None /\ \A t \in Thread : t # None
  BY Names
<1>12. Counted(x, u, None) /\ Phase(x, u, {}, None)
  <2>1. Reading(x, u, None) /\ Reading(s, u, u) /\ Pending(x, u, None) = Pending(s, u, u)
    <3>1. Reading(x, u, None) /\ Reading(s, u, u)
      BY <1>5, <1>8 DEF Reading
    <3>2. s.tc[u].num_pending_request \in Int
      BY <1>1, ClientIs
    <3>3. Pending(x, u, None) = Pending(s, u, u)
      BY <1>5, <1>8, <1>11, <3>2 DEF Pending
    <3> QED
      BY <3>1, <3>3
  <2>2. Serving(x.tc[u])
    BY <1>2, <1>5, <1>8 DEF Serving
  <2>3. Counted(x, u, None)
    BY <1>1, <1>2, <1>5, <1>6, <1>8, <2>1, <2>2 DEF Counted, Serving
  <2>4. Phase(x, u, {}, None)
    BY <1>1, <1>2, <1>6, <2>1, <2>2 DEF Phase, Serving
  <2> QED
    BY <2>3, <2>4
<1>13. ASSUME NEW t \in Thread, t # u PROVE Counted(x, t, None) /\ Phase(x, t, {}, None)
  <2>1. Counted(s, t, u) /\ Phase(s, t, {}, u)
    BY DEF Good
  <2>2. (Reading(x, t, None) <=> Reading(s, t, u)) /\ Pending(x, t, None) = Pending(s, t, u)
    BY <1>8, <1>11, <1>13 DEF Reading, Pending
  <2>3. x.tc[t] = s.tc[t]
    BY <1>8, <1>13
  <2>4. Counted(x, t, None)
    BY <1>6, <2>1, <2>2, <2>3 DEF Counted
  <2>5. Phase(x, t, {}, None)
    BY <1>6, <2>1, <2>2, <2>3 DEF Phase
  <2> QED
    BY <2>4, <2>5
<1>14. Good(x, {}, None)
  <2>1. \A t \in Thread : Counted(x, t, None) /\ Phase(x, t, {}, None)
    BY <1>12, <1>13
  <2>2. s.num_thread_client = Cardinality(LiveIn(s)) /\ (s.quit => LiveIn(s) = {})
    BY DEF Good
  <2> QED
    BY <1>6, <1>9, <1>10, <2>1, <2>2 DEF Good
<1>15. SameSleep(x, s)
  BY <1>5, <1>6, <1>8 DEF SameSleep
<1> QED
  BY <1>3, <1>14, <1>15

\* A change that leaves the operations alone: of the locks, of the timeout list,
\* of the deadline of a client. Whom the server owes an answer changes from P
\* to Q.
Amends(x, s, P, Q) ==
    /\ x = [f \in Fields |-> x[f]]
    /\ LocksOK(x.locks)
    /\ x.node \in Linkage
    /\ x.tc \in [Thread -> ClientRec]
    /\ \A t \in Thread :
        \/ x.tc[t] = s.tc[t]
        \/ /\ s.tc[t].live /\ x.tc[t].live /\ x.tc[t].deadline >= MaxNow
           /\ x.tc[t].being_destroyed = s.tc[t].being_destroyed
           /\ x.tc[t].reading = s.tc[t].reading
           /\ x.tc[t].num_pending_request = s.tc[t].num_pending_request
    /\ x.apc = s.apc /\ x.num_thread_client = s.num_thread_client
    /\ x.quit = s.quit /\ x.sent = s.sent /\ x.crashed = s.crashed
    /\ \A t \in Thread :
        /\ IsAsleep(x.locks, t) \/ t \in Q <=> IsAsleep(s.locks, t) \/ t \in P
        /\ ~(IsAsleep(x.locks, t) /\ t \in Q)

\* A change of the locks and deadlines that accounts for who sleeps.
LEMMA Amended ==
    ASSUME NEW s, NEW P, NEW r, Good(s, P, r), NEW x, NEW Q, Amends(x, s, P, Q)
    PROVE  Good(x, Q, r)
<1>1. Memory(s) /\ s.num_thread_client = Cardinality(LiveIn(s)) /\ (s.quit => LiveIn(s) = {})
  BY DEF Good
<1>2. Memory(x)
  BY <1>1 DEF Memory, Amends
<1>3. LiveIn(x) = LiveIn(s)
  BY DEF LiveIn, Amends
<1>4. ASSUME NEW t \in Thread PROVE Counted(x, t, r) /\ Phase(x, t, Q, r)
  <2>1. Counted(s, t, r) /\ Phase(s, t, P, r)
    BY DEF Good
  <2>2. /\ x.apc = s.apc /\ x.sent = s.sent
        /\ IsAsleep(x.locks, t) \/ t \in Q <=> IsAsleep(s.locks, t) \/ t \in P
        /\ ~(IsAsleep(x.locks, t) /\ t \in Q)
    BY DEF Amends
  <2>3. CASE x.tc[t] = s.tc[t]
    <3>1. (Reading(x, t, r) <=> Reading(s, t, r)) /\ Pending(x, t, r) = Pending(s, t, r)
      BY <2>3 DEF Reading, Pending
    <3>2. Counted(x, t, r)
      BY <2>1, <2>2, <2>3, <3>1 DEF Counted
    <3>3. Phase(x, t, Q, r)
      BY <2>1, <2>2, <2>3, <3>1 DEF Phase
    <3> QED
      BY <3>2, <3>3
  <2>4. CASE /\ s.tc[t].live /\ x.tc[t].live /\ x.tc[t].deadline >= MaxNow
             /\ x.tc[t].being_destroyed = s.tc[t].being_destroyed
             /\ x.tc[t].reading = s.tc[t].reading
             /\ x.tc[t].num_pending_request = s.tc[t].num_pending_request
    <3>1. (Reading(x, t, r) <=> Reading(s, t, r)) /\ Pending(x, t, r) = Pending(s, t, r)
          /\ (Serving(x.tc[t]) <=> Serving(s.tc[t]))
      BY <2>4 DEF Reading, Pending, Serving
    <3>2. Counted(x, t, r)
      BY <2>1, <2>2, <2>4, <3>1 DEF Counted
    <3>3. Phase(x, t, Q, r)
      BY <2>1, <2>2, <2>4, <3>1 DEF Phase
    <3> QED
      BY <3>2, <3>3
  <2> QED
    BY <2>3, <2>4 DEF Amends
<1> QED
  BY <1>1, <1>2, <1>3, <1>4 DEF Good, Amends

\* The array of locks is replaced.
LEMMA NewLocks ==
    ASSUME NEW s, NEW P, NEW r, Good(s, P, r), NEW L, LocksOK(L), NEW Q,
           \A t \in Thread :
                /\ IsAsleep(L, t) \/ t \in Q <=> IsAsleep(s.locks, t) \/ t \in P
                /\ ~(IsAsleep(L, t) /\ t \in Q)
    PROVE  /\ Good([s EXCEPT !.locks = L], Q, r)
           /\ [s EXCEPT !.locks = L].locks = L
           /\ [s EXCEPT !.locks = L].node = s.node
           /\ [s EXCEPT !.locks = L].tc = s.tc
<1> DEFINE x == [s EXCEPT !.locks = L]
<1>1. Memory(s)
  BY DEF Good
<1>2. s = [f \in Fields |-> s[f]] /\ s.node \in Linkage /\ s.tc \in [Thread -> ClientRec]
  BY <1>1 DEF Memory
<1>3. /\ x = [f \in Fields |-> x[f]] /\ x.locks = L /\ x.node = s.node /\ x.tc = s.tc
      /\ x.apc = s.apc /\ x.num_thread_client = s.num_thread_client
      /\ x.quit = s.quit /\ x.sent = s.sent /\ x.crashed = s.crashed
  BY <1>2 DEF Fields
<1> HIDE DEF x
<1>4. Amends(x, s, P, Q)
  BY <1>2, <1>3 DEF Amends
<1>5. Good(x, Q, r)
  BY <1>4, Amended
<1> QED
  BY <1>3, <1>5 DEF x

\* The node of the timeout list after which a client is inserted.
LEMMA InsertionPoint ==
    ASSUME NEW s, Memory(s), NEW u \in Thread
    PROVE  timeout_list_add_waiter(s, u).node \in Linkage
           /\ \E n \in Linkage : timeout_list_add_waiter(s, u) = [s EXCEPT !.node = n]
<1> DEFINE l == Listed(s.node)
           before == {i \in DOMAIN l : s.tc[l[i]].deadline <= s.tc[u].deadline}
           after == IF before = {} THEN Head0 ELSE l[Max(before)]
           n == insert_list_node_after(s.node, u, after)
<1>1. s.node \in Linkage /\ DOMAIN s = Fields
  BY ClientIs DEF Memory
<1>2. l \in Seq(Nodes)
  BY <1>1, ListedNodes
<1>3. before \in SUBSET Int /\ IsFiniteSet(before) /\ before \subseteq DOMAIN l
  <2>1. IsFiniteSet(DOMAIN l) /\ DOMAIN l \subseteq Int
    BY <1>2, SeqDomainSize
  <2>2. before \in SUBSET DOMAIN l
    OBVIOUS
  <2> HIDE DEF before
  <2> QED
    BY <2>1, <2>2, FS_Subset
<1>4. timeout_list_add_waiter(s, u) = [s EXCEPT !.node = n]
  BY DEF timeout_list_add_waiter
<1> HIDE DEF before, l
<1>5. after \in Nodes
  <2>1. CASE before = {}
    BY <2>1 DEF Nodes
  <2>2. CASE before # {}
    <3> DEFINE m == Max(before)
    <3>1. m \in before
      BY <1>3, <2>2, Greatest
    <3> HIDE DEF m
    <3>2. m \in DOMAIN l
      BY <1>3, <3>1
    <3>3. l[m] \in Nodes
      BY <1>2, <3>2
    <3> QED
      BY <2>2, <3>3 DEF m
  <2> QED
    BY <2>1, <2>2
<1> HIDE DEF after
<1>6. n \in Linkage
  BY <1>1, <1>5, LinkedAfter DEF Nodes
<1> HIDE DEF n
<1>7. [s EXCEPT !.node = n].node = n
  BY <1>1 DEF Fields
<1> QED
  BY <1>4, <1>6, <1>7

\* The first client of the list.
LEMMA InsertedFirst ==
    ASSUME NEW s, Memory(s), s.node = NoneLinked, NEW u \in Thread
    PROVE  timeout_list_add_waiter(s, u) = [s EXCEPT !.node = OneLinked(u)]
<1> DEFINE l == Listed(s.node)
           before == {i \in DOMAIN l : s.tc[l[i]].deadline <= s.tc[u].deadline}
           after == IF before = {} THEN Head0 ELSE l[Max(before)]
<1>1. l = <<>>
  BY ListedNone
<1>2. before = {}
  BY <1>1
<1>3. timeout_list_add_waiter(s, u) = [s EXCEPT !.node = insert_list_node_after(s.node, u, after)]
  BY DEF timeout_list_add_waiter
<1> HIDE DEF before
<1>4. after = Head0
  BY <1>2
<1> QED
  BY <1>3, <1>4, InsertFirst

\* The timed sleeper, if there is one, sleeps on or is to be answered.
LEMMA TimedOn ==
    ASSUME NEW s, NEW x, NEW P, NEW Q, x.node = s.node, x.tc = s.tc,
           \A t \in Thread : IsAsleep(s.locks, t) \/ t \in P => IsAsleep(x.locks, t) \/ t \in Q
    PROVE  OneTimed(s, P) => OneTimed(x, Q)
BY DEF OneTimed

\* handle_req_wake(): those woken are answered, and then the client that asked.
LEMMA HandledWake ==
    ASSUME NEW s, NEW u \in Thread, Good(s, {u}, u),
           NEW m, m.key \in Nat, m.val \in Int, m.num \in Nat
    PROVE  /\ Good(handle_req_wake(s, u, m), {}, u)
           /\ OneTimed(s, {}) => OneTimed(handle_req_wake(s, u, m), {})
<1> DEFINE L == lock_array_get_lock(s.locks, m.key)
           i == search_key_index(L, m.key).index
           lk == L[i].lock
           q == lk.waiters_queue
           M == [L EXCEPT ![i].lock = lock_wake_waiters(lk, m.num, m.val)]
           gone == ToWake(q, m.num, m.val)
           W == WokenBy(lk, m.num, m.val)
           after == [s EXCEPT !.locks = M]
           w == WakeWalk(after, q, gone)[Len(q)]
<1>1. handle_req_wake(s, u, m) = thread_client_queue_write(w, u, Answer("WAKE", FALSE))
  BY DEF handle_req_wake
<1>2. LocksOK(s.locks) /\ ~IsAsleep(s.locks, u)
  BY DEF Good, Memory, Phase
<1>3. LocksOK(L) /\ i \in DOMAIN L /\ \A t : IsAsleep(L, t) <=> IsAsleep(s.locks, t)
  BY <1>2, GetLock
<1> HIDE DEF L, i
<1>4. /\ LocksOK(M)
      /\ \A t : IsAsleep(M, t) <=> IsAsleep(L, t) /\ t \notin W
      /\ W \subseteq Thread
      /\ \A t \in W : IsAsleep(L, t)
      /\ q \in Seq(WaiterRec)
      /\ gone \subseteq DOMAIN q
      /\ \A k, l \in DOMAIN q : q[k].tc = q[l].tc => k = l
  BY <1>3, WakeWaiters
<1>5. W = TakenFrom(q, gone)
  BY DEF WokenBy, TakenFrom
<1> HIDE DEF M, lk, q, gone, W
<1>6. Good(after, {u} \cup W, u) /\ after.node = s.node /\ after.tc = s.tc /\ after.locks = M
  <2>1. \A t \in Thread :
            /\ IsAsleep(M, t) \/ t \in {u} \cup W <=> IsAsleep(s.locks, t) \/ t \in {u}
            /\ ~(IsAsleep(M, t) /\ t \in {u} \cup W)
    BY <1>2, <1>3, <1>4
  <2> QED
    BY <1>4, <2>1, NewLocks
<1>7. OneTimed(s, {}) => OneTimed(after, W)
  <2>1. \A t \in Thread : IsAsleep(s.locks, t) \/ t \in {} => IsAsleep(after.locks, t) \/ t \in W
    BY <1>3, <1>4, <1>6
  <2> QED
    BY <1>6, <2>1, TimedOn
<1> HIDE DEF after
<1>8. /\ Good(w, ({u} \cup W) \ W, u) /\ \A Q : OneTimed(after, Q) => OneTimed(w, Q \ W)
  <2> DEFINE P == {u} \cup W
  <2>1. Good(after, P, u) /\ Wakeable(q, gone, P)
    BY <1>4, <1>5, <1>6 DEF Wakeable, TakenFrom
  <2> HIDE DEF P
  <2>2. Good(w, P \ TakenFrom(q, gone), u) /\ \A Q : OneTimed(after, Q) => OneTimed(w, Q \ TakenFrom(q, gone))
    BY <2>1, Walk
  <2> QED
    BY <1>5, <2>2 DEF P
<1> HIDE DEF w
<1>9. Good(w, {u}, u) /\ (OneTimed(s, {}) => OneTimed(w, {}))
  <2>1. ({u} \cup W) \ W = {u} /\ W \ W = {}
    BY <1>2, <1>3, <1>4
  <2> QED
    BY <1>7, <1>8, <2>1
<1>10. Answer("WAKE", FALSE) # NoMsg
  <2>1. Answer("WAKE", FALSE).op = "WAKE" /\ NoMsg.op = "none"
    BY DEF Answer, NoMsg
  <2> QED
    BY <2>1
<1> DEFINE h == thread_client_queue_write(w, u, Answer("WAKE", FALSE))
<1>11. Good(h, {u} \ {u}, u) /\ SameSleep(h, w)
  BY <1>9, <1>10, QueueWrite
<1> HIDE DEF h
<1>12. {u} \ {u} = {}
  OBVIOUS
<1> QED
  BY <1>1, <1>9, <1>11, <1>12, SameTimed DEF h

\* A change of the deadline of one client, and of the timeout list.
LEMMA NewDeadline ==
    ASSUME NEW s, NEW P, NEW r, Good(s, P, r), NEW u \in Thread, s.tc[u].live,
           NEW d \in Int, d >= MaxNow
    PROVE  /\ Good([s EXCEPT !.tc[u].deadline = d], P, r)
           /\ [s EXCEPT !.tc[u].deadline = d].node = s.node
           /\ [s EXCEPT !.tc[u].deadline = d].locks = s.locks
           /\ \A t \in Thread : [s EXCEPT !.tc[u].deadline = d].tc[t].deadline
                                    = IF t = u THEN d ELSE s.tc[t].deadline
<1> DEFINE x == [s EXCEPT !.tc[u].deadline = d]
           c == [s.tc[u] EXCEPT !.deadline = d]
<1>1. Memory(s) /\ \A t \in Thread : Phase(s, t, P, r)
  BY DEF Good
<1>2. /\ s = [f \in Fields |-> s[f]] /\ LocksOK(s.locks) /\ s.node \in Linkage
      /\ s.tc \in [Thread -> ClientRec]
  BY <1>1 DEF Memory
<1>3. /\ x = [f \in Fields |-> x[f]] /\ x.locks = s.locks /\ x.node = s.node
      /\ x.apc = s.apc /\ x.num_thread_client = s.num_thread_client
      /\ x.quit = s.quit /\ x.sent = s.sent /\ x.crashed = s.crashed
      /\ x.tc = [s.tc EXCEPT ![u] = c]
  BY <1>2 DEF Fields
<1>4. /\ c \in ClientRec /\ c.live = s.tc[u].live /\ c.deadline = d
      /\ c.being_destroyed = s.tc[u].being_destroyed
      /\ c.reading = s.tc[u].reading
      /\ c.num_pending_request = s.tc[u].num_pending_request
  <2>1. s.tc[u] \in ClientRec
    BY <1>2
  <2> QED
    BY <2>1 DEF ClientRec
<1> HIDE DEF x, c
<1>5. x.tc \in [Thread -> ClientRec] /\ x.tc[u] = c /\ \A t \in Thread : t # u => x.tc[t] = s.tc[t]
  BY <1>2, <1>3, <1>4
<1>6. \A t \in Thread :
        \/ x.tc[t] = s.tc[t]
        \/ /\ s.tc[t].live /\ x.tc[t].live /\ x.tc[t].deadline >= MaxNow
           /\ x.tc[t].being_destroyed = s.tc[t].being_destroyed
           /\ x.tc[t].reading = s.tc[t].reading
           /\ x.tc[t].num_pending_request = s.tc[t].num_pending_request
  BY <1>4, <1>5
<1>7. \A t \in Thread : ~(IsAsleep(s.locks, t) /\ t \in P)
  BY <1>1 DEF Phase
<1>8. Amends(x, s, P, P)
  BY <1>2, <1>3, <1>5, <1>6, <1>7 DEF Amends
<1>9. Good(x, P, r)
  BY <1>8, Amended
<1> QED
  BY <1>3, <1>4, <1>5, <1>9 DEF x

\* A change of the timeout list alone.
LEMMA NewNode ==
    ASSUME NEW s, NEW P, NEW r, Good(s, P, r), NEW n \in Linkage
    PROVE  /\ Good([s EXCEPT !.node = n], P, r)
           /\ [s EXCEPT !.node = n].node = n
           /\ [s EXCEPT !.node = n].locks = s.locks
           /\ [s EXCEPT !.node = n].tc = s.tc
<1> DEFINE x == [s EXCEPT !.node = n]
<1>1. Memory(s) /\ \A t \in Thread : Phase(s, t, P, r)
  BY DEF Good
<1>2. /\ s = [f \in Fields |-> s[f]] /\ LocksOK(s.locks) /\ s.tc \in [Thread -> ClientRec]
  BY <1>1 DEF Memory
<1>3. /\ x = [f \in Fields |-> x[f]] /\ x.locks = s.locks /\ x.node = n /\ x.tc = s.tc
      /\ x.apc = s.apc /\ x.num_thread_client = s.num_thread_client
      /\ x.quit = s.quit /\ x.sent = s.sent /\ x.crashed = s.crashed
  BY <1>2 DEF Fields
<1> HIDE DEF x
<1>4. \A t \in Thread : ~(IsAsleep(s.locks, t) /\ t \in P)
  BY <1>1 DEF Phase
<1>5. Amends(x, s, P, P)
  BY <1>2, <1>3, <1>4 DEF Amends
<1>6. Good(x, P, r)
  BY <1>5, Amended
<1> QED
  BY <1>3, <1>6 DEF x

\* timeout_list_add_waiter() of a client that has just been given a deadline.
LEMMA TimeoutAdded ==
    ASSUME NEW s, NEW P, NEW r, Good(s, P, r), NEW u \in Thread
    PROVE  /\ Good(timeout_list_add_waiter(s, u), P, r)
           /\ s.node = NoneLinked /\ IsAsleep(s.locks, u) /\ TimedThread(u)
              /\ (\A t \in Thread : s.tc[t].deadline # NoTimeout <=> t = u)
              => OneTimed(timeout_list_add_waiter(s, u), P)
<1>1. Memory(s)
  BY DEF Good
<1>2. PICK n \in Linkage : timeout_list_add_waiter(s, u) = [s EXCEPT !.node = n]
  BY <1>1, InsertionPoint
<1> DEFINE x == [s EXCEPT !.node = n]
<1>3. Good(x, P, r) /\ x.locks = s.locks /\ x.tc = s.tc /\ x.node = n
  BY NewNode
<1>4. ASSUME s.node = NoneLinked, IsAsleep(s.locks, u), TimedThread(u),
             \A t \in Thread : s.tc[t].deadline # NoTimeout <=> t = u
      PROVE  OneTimed(x, P)
  <2>1. x = [s EXCEPT !.node = OneLinked(u)]
    BY <1>1, <1>2, <1>4, InsertedFirst
  <2>2. DOMAIN s = Fields
    BY <1>1 DEF Memory
  <2>3. [s EXCEPT !.node = OneLinked(u)].node = OneLinked(u)
    BY <2>2 DEF Fields
  <2> HIDE DEF x
  <2>4. x.node = OneLinked(u)
    BY <2>1, <2>3
  <2> QED
    BY <1>3, <1>4, <2>4 DEF OneTimed
<1> HIDE DEF x
<1> QED
  BY <1>2, <1>3, <1>4 DEF x

\* One thread at most makes timed waits.
OneTimedThread == \A t, u \in Thread : TimedThread(t) /\ TimedThread(u) => t = u

\* handle_req_wait(): the client is answered at once, or sleeps.
LEMMA HandledWait ==
    ASSUME NEW s, NEW u \in Thread, Good(s, {u}, u),
           NEW m, m.key \in Nat, m.val \in Int, m.deadline \in Int, m.deadline >= MaxNow
    PROVE  /\ Good(handle_req_wait(s, u, m), {}, u)
           /\ OneTimed(s, {}) /\ OneTimedThread /\ (m.deadline # NoTimeout => TimedThread(u))
              => OneTimed(handle_req_wait(s, u, m), {})
<1> DEFINE L == lock_array_get_lock(s.locks, m.key)
           i == search_key_index(L, m.key).index
           lk == L[i].lock
           M == [L EXCEPT ![i].lock = lock_add_waiter(lk, u, m.val)]
           added == [s EXCEPT !.locks = M]
           d == m.deadline
           timed == [added EXCEPT !.tc[u].deadline = m.deadline]
           h == handle_req_wait(s, u, m)
<1>1. h = IF WokenInAdvance(lk, m.val) THEN thread_client_wakeup(added, u, FALSE)
          ELSE IF m.deadline = NoTimeout THEN added
          ELSE timeout_list_add_waiter(timed, u)
  BY DEF handle_req_wait
<1>2. LocksOK(s.locks) /\ ~IsAsleep(s.locks, u) /\ s.tc[u].live
  BY DEF Good, Memory, Phase, Serving
<1>3. LocksOK(L) /\ i \in DOMAIN L /\ \A t : IsAsleep(L, t) <=> IsAsleep(s.locks, t)
  BY <1>2, GetLock
<1> HIDE DEF L, i
<1>4. /\ LocksOK(M)
      /\ \A t : IsAsleep(M, t) <=> IsAsleep(L, t) \/ (t = u /\ ~WokenInAdvance(lk, m.val))
  BY <1>2, <1>3, AddWaiter
<1> HIDE DEF M, lk, h
<1>5. CASE WokenInAdvance(lk, m.val)
  <2>1. \A t \in Thread :
            /\ IsAsleep(M, t) \/ t \in {u} <=> IsAsleep(s.locks, t) \/ t \in {u}
            /\ ~(IsAsleep(M, t) /\ t \in {u})
    BY <1>2, <1>3, <1>4, <1>5
  <2>2. Good(added, {u}, u) /\ added.node = s.node /\ added.tc = s.tc /\ added.locks = M
    BY <1>4, <2>1, NewLocks
  <2> HIDE DEF added
  <2>3. \A t \in Thread : IsAsleep(s.locks, t) \/ t \in {} => IsAsleep(added.locks, t) \/ t \in {}
    BY <1>3, <1>4, <1>5, <2>2
  <2>4. OneTimed(s, {}) => OneTimed(added, {})
    BY <2>2, <2>3, TimedOn
  <2>5. h = thread_client_wakeup(added, u, FALSE) /\ FALSE \in BOOLEAN /\ u \in {u}
    BY <1>1, <1>5
  <2>6. /\ Good(h, {u} \ {u}, u)
        /\ \A Q : OneTimed(added, Q) => OneTimed(h, Q \ {u})
    BY <2>2, <2>5, Wakeup
  <2>7. {u} \ {u} = {} /\ {} \ {u} = {}
    OBVIOUS
  <2>8. OneTimed(added, {}) => OneTimed(h, {} \ {u})
    BY <2>6
  <2> QED
    BY <2>4, <2>6, <2>7, <2>8 DEF h
<1>6. CASE ~WokenInAdvance(lk, m.val)
  <2>1. \A t \in Thread :
            /\ IsAsleep(M, t) \/ t \in {} <=> IsAsleep(s.locks, t) \/ t \in {u}
            /\ ~(IsAsleep(M, t) /\ t \in {})
    BY <1>2, <1>3, <1>4, <1>6
  <2>2. Good(added, {}, u) /\ added.node = s.node /\ added.tc = s.tc /\ added.locks = M
    BY <1>4, <2>1, NewLocks
  <2> HIDE DEF added
  <2>3. \A t \in Thread : IsAsleep(s.locks, t) \/ t \in {} => IsAsleep(added.locks, t) \/ t \in {}
    BY <1>3, <1>4, <1>6, <2>2
  <2>4. OneTimed(s, {}) => OneTimed(added, {})
    BY <2>2, <2>3, TimedOn
  <2>5. CASE m.deadline = NoTimeout
    BY <1>1, <1>6, <2>2, <2>4, <2>5 DEF h
  <2>6. CASE m.deadline # NoTimeout
    <3>1. h = timeout_list_add_waiter(timed, u)
      BY <1>1, <1>6, <2>6
    <3>2. d \in Int /\ d >= MaxNow /\ timed = [added EXCEPT !.tc[u].deadline = d]
      OBVIOUS
    <3>3. added.tc[u].live
      BY <1>2, <2>2
    <3> HIDE DEF d, timed
    <3>4. /\ Good(timed, {}, u) /\ timed.node = added.node /\ timed.locks = added.locks
          /\ \A t \in Thread : timed.tc[t].deadline = IF t = u THEN d ELSE added.tc[t].deadline
      BY <2>2, <3>2, <3>3, NewDeadline
    <3>5. /\ Good(h, {}, u)
          /\ timed.node = NoneLinked /\ IsAsleep(timed.locks, u) /\ TimedThread(u)
             /\ (\A t \in Thread : timed.tc[t].deadline # NoTimeout <=> t = u)
             => OneTimed(h, {})
      BY <3>1, <3>4, TimeoutAdded
    <3>6. IsAsleep(timed.locks, u)
      BY <1>4, <1>6, <2>2, <3>4
    <3>7. ASSUME OneTimed(s, {}), OneTimedThread, TimedThread(u) PROVE OneTimed(h, {})
      <4>1. s.node = NoneLinked /\ \A t \in Thread : s.tc[t].deadline = NoTimeout
        BY <1>2, <3>7 DEF OneTimed, OneTimedThread
      <4>2. \A t \in Thread : timed.tc[t].deadline # NoTimeout <=> t = u
        BY <2>2, <2>6, <3>4, <4>1 DEF d
      <4> QED
        BY <2>2, <3>4, <3>5, <3>6, <3>7, <4>1, <4>2
    <3> QED
      BY <2>6, <3>5, <3>7 DEF h
  <2> QED
    BY <2>5, <2>6
<1> QED
  BY <1>5, <1>6

-----------------------------------------------------------------------------
(***************************************************************************)
(* The callbacks                                                           *)
(***************************************************************************)
\* Where a thread may stand.
Places == {"probe", "open", "spawn", "queued", "idle", "transact", "abort", "gone"}

\* A callback for client u has run, which is c since: freed, or not.
Pops(x, s, u, c) ==
    /\ x = [f \in Fields |-> x[f]]
    /\ x.locks = s.locks /\ x.node = s.node
    /\ c \in ClientRec /\ x.tc = [s.tc EXCEPT ![u] = c]
    /\ x.apc = Tail(s.apc)
    /\ x.num_thread_client = IF c.live THEN s.num_thread_client ELSE s.num_thread_client - 1
    /\ x.quit = IF c.live THEN s.quit ELSE x.num_thread_client = 0
    /\ x.sent = s.sent /\ x.crashed = s.crashed

\* What the client that the first callback is for has to do with it.
LEMMA First ==
    ASSUME NEW s, Good(s, {}, None), s.apc # <<>>, NEW u, Head(s.apc).tc = u,
           at[u] \in Places
    PROVE  /\ u \in Thread /\ s.tc[u].live /\ u \in accepted
           /\ Head(s.apc).op = "read" =>
                /\ Serving(s.tc[u]) /\ ~s.tc[u].reading
                /\ NR(Tail(s.apc), u) = 0
                /\ s.tc[u].num_pending_request = NW(Tail(s.apc), u) + 1
                /\ Head(s.apc).msg # NoMsg => at[u] = "transact"
                /\ Head(s.apc).msg = NoMsg => at[u] = "gone"
           /\ Head(s.apc).op # "read" =>
                /\ s.tc[u].num_pending_request - 1 = NR(Tail(s.apc), u) + NW(Tail(s.apc), u)
                                                  + (IF s.tc[u].reading THEN 1 ELSE 0)
                /\ NR(Tail(s.apc), u) = NR(s.apc, u)
                /\ s.tc[u].being_destroyed => at[u] = "gone"
<1> DEFINE a == s.apc
           e == Head(a)
           b == Tail(a)
           c == s.tc[u]
<1>1. Memory(s) /\ a \in Seq(Completion)
  BY DEF Good, Memory
<1>2. a \in Seq(Completion) /\ a # <<>> /\ e.tc = u
  BY <1>1
<1> HIDE DEF a
<1>3. /\ b \in Seq(Completion) /\ e \in Completion
      /\ NR(a, u) = IF e.op = "read" THEN NR(b, u) + 1 ELSE NR(b, u)
      /\ NW(a, u) = IF e.op = "write" THEN NW(b, u) + 1 ELSE NW(b, u)
      /\ Asking(a, u) => Asking(b, u) /\ (e.op = "read" => e.msg # NoMsg)
      /\ Leaving(a, u) => Leaving(b, u) /\ (e.op = "read" => e.msg = NoMsg)
  BY <1>2, AfterCallback
<1> HIDE DEF e, b
<1>4. u \in Thread /\ (e.op = "read" \/ e.op = "write")
  BY <1>2, <1>3, CompletionIs
<1>5. NR(b, u) \in Nat /\ NW(b, u) \in Nat /\ NR(a, u) \in Nat /\ NW(a, u) \in Nat
  BY <1>2, <1>3, Counts
<1>6. Counted(s, u, None) /\ Phase(s, u, {}, None) /\ u # None
  BY <1>4, Names DEF Good
<1>7. (Reading(s, u, None) <=> c.reading) /\ Pending(s, u, None) = c.num_pending_request
      /\ c.num_pending_request \in Int
  <2>1. c.num_pending_request \in Int
    BY <1>1, <1>4, ClientIs
  <2> QED
    BY <1>6, <2>1 DEF Reading, Pending
<1>8. c.num_pending_request = NR(a, u) + NW(a, u) + (IF c.reading THEN 1 ELSE 0)
  BY <1>6, <1>7 DEF Counted, a
<1>9. c.live
  <2> SUFFICES ASSUME ~c.live PROVE FALSE
    OBVIOUS
  <2>1. c = NoClient
    BY <1>6 DEF Counted
  <2>2. c.num_pending_request = 0 /\ ~c.reading
    BY <2>1 DEF NoClient
  <2> QED
    BY <1>3, <1>4, <1>5, <1>8, <2>2
<1>10. u \in accepted /\ at[u] \notin {"probe", "open", "spawn", "abort"}
  BY <1>6, <1>9 DEF Phase
<1>11. at[u] \in {"queued", "idle", "transact", "gone"}
  BY <1>10 DEF Places
<1>12. ASSUME e.op = "read"
       PROVE  /\ Serving(c) /\ ~c.reading /\ NR(b, u) = 0
              /\ c.num_pending_request = NW(b, u) + 1
              /\ e.msg # NoMsg => at[u] = "transact"
              /\ e.msg = NoMsg => at[u] = "gone"
  <2>1. NR(a, u) = NR(b, u) + 1 /\ NW(a, u) = NW(b, u)
    BY <1>3, <1>12
  <2>2. ~c.being_destroyed
    BY <1>5, <1>6, <2>1 DEF Counted, a
  <2>3. Serving(c)
    BY <1>9, <2>2 DEF Serving
  <2>4. NR(a, u) + (IF c.reading THEN 1 ELSE 0) = 1
    BY <1>6, <1>7, <2>3 DEF Counted, a
  <2>5. ~c.reading /\ NR(b, u) = 0
    BY <1>5, <2>1, <2>4
  <2>6. at[u] \in {"transact", "gone"}
    BY <1>6, <1>7, <1>10, <1>11, <2>5 DEF Phase
  <2>7. at[u] = "transact" => e.msg # NoMsg
    BY <1>3, <1>6, <1>10, <1>12 DEF Phase, a
  <2>8. at[u] = "gone" => e.msg = NoMsg
    BY <1>3, <1>6, <1>10, <1>12 DEF Phase, a
  <2> QED
    BY <1>5, <1>8, <2>1, <2>3, <2>5, <2>6, <2>7, <2>8
<1>13. ASSUME e.op # "read"
       PROVE  /\ c.num_pending_request - 1 = NR(b, u) + NW(b, u) + (IF c.reading THEN 1 ELSE 0)
              /\ NR(b, u) = NR(a, u)
              /\ c.being_destroyed => at[u] = "gone"
  <2>1. NR(a, u) = NR(b, u) /\ NW(a, u) = NW(b, u) + 1
    BY <1>3, <1>4, <1>13
  <2>2. c.num_pending_request - 1 = NR(b, u) + NW(b, u) + (IF c.reading THEN 1 ELSE 0)
    BY <1>5, <1>7, <1>8, <2>1
  <2>3. c.being_destroyed => at[u] = "gone"
    BY <1>6, <1>10, <1>11 DEF Phase, Serving
  <2> QED
    BY <2>1, <2>2, <2>3
<1> QED
  BY <1>4, <1>9, <1>10, <1>12, <1>13 DEF a, b, e

\* Only the client of the callback, and the number of clients, are concerned.
LEMMA Popped ==
    ASSUME NEW s, Good(s, {}, None), s.apc # <<>>, NEW u \in Thread, Head(s.apc).tc = u,
           s.tc[u].live, NEW x, NEW c, Pops(x, s, u, c),
           NEW P \in SUBSET {u}, NEW r \in {u, None},
           Counted(x, u, r), Phase(x, u, P, r)
    PROVE  Good(x, P, r)
<1>0. /\ x = [f \in Fields |-> x[f]]
      /\ x.locks = s.locks /\ x.node = s.node
      /\ c \in ClientRec /\ x.tc = [s.tc EXCEPT ![u] = c]
      /\ x.apc = Tail(s.apc)
      /\ x.num_thread_client = IF c.live THEN s.num_thread_client ELSE s.num_thread_client - 1
      /\ x.quit = IF c.live THEN s.quit ELSE x.num_thread_client = 0
      /\ x.sent = s.sent /\ x.crashed = s.crashed
  BY DEF Pops
<1>1. Memory(s) /\ s.num_thread_client = Cardinality(LiveIn(s)) /\ (s.quit => LiveIn(s) = {})
  BY DEF Good
<1>2. /\ s.tc \in [Thread -> ClientRec] /\ s.apc \in Seq(Completion)
      /\ s.num_thread_client \in Int /\ s.quit \in BOOLEAN
  BY <1>1 DEF Memory
<1>3. x.tc \in [Thread -> ClientRec] /\ x.tc[u] = c /\ \A t \in Thread : t # u => x.tc[t] = s.tc[t]
  BY <1>0, <1>2
<1>4. ASSUME NEW t
      PROVE  /\ x.apc \in Seq(Completion)
             /\ t # u => /\ NR(x.apc, t) = NR(s.apc, t) /\ NW(x.apc, t) = NW(s.apc, t)
                         /\ Asking(s.apc, t) => Asking(x.apc, t)
                         /\ Leaving(s.apc, t) => Leaving(x.apc, t)
  <2> DEFINE a == s.apc
             b == x.apc
  <2>1. a \in Seq(Completion) /\ b = Tail(a) /\ a # <<>> /\ Head(a).tc = u
    BY <1>0, <1>2
  <2> HIDE DEF a, b
  <2>2. /\ b \in Seq(Completion)
        /\ NR(a, t) = IF Head(a).tc = t /\ Head(a).op = "read" THEN NR(b, t) + 1 ELSE NR(b, t)
        /\ NW(a, t) = IF Head(a).tc = t /\ Head(a).op = "write" THEN NW(b, t) + 1 ELSE NW(b, t)
        /\ Asking(a, t) => Asking(b, t)
        /\ Leaving(a, t) => Leaving(b, t)
    BY <2>1, AfterCallback
  <2> QED
    BY <2>1, <2>2 DEF a, b
<1>5. x.num_thread_client \in Int /\ x.quit \in BOOLEAN
  <2>1. CASE c.live
    BY <1>0, <1>2, <2>1
  <2>2. CASE ~c.live
    <3>1. x.num_thread_client = s.num_thread_client - 1 /\ x.quit = (x.num_thread_client = 0)
      BY <1>0, <2>2
    <3> QED
      BY <1>2, <3>1
  <2> QED
    BY <2>1, <2>2
<1>6. Memory(x)
  BY <1>0, <1>1, <1>3, <1>4, <1>5 DEF Memory
<1>7. c.live \in BOOLEAN
  BY <1>0 DEF ClientRec
<1>8. IsFiniteSet(LiveIn(s)) /\ IsFiniteSet(LiveIn(x))
  <2>1. LiveIn(s) \subseteq Thread /\ LiveIn(x) \subseteq Thread /\ IsFiniteSet(Thread)
    BY RefereeAssumption DEF LiveIn
  <2> QED
    BY <2>1, FS_Subset
<1>9. x.num_thread_client = Cardinality(LiveIn(x)) /\ (x.quit => LiveIn(x) = {})
  <2>1. u \in LiveIn(s)
    BY DEF LiveIn
  <2>2. CASE c.live
    <3>1. LiveIn(x) = LiveIn(s)
      BY <1>3, <2>1, <2>2 DEF LiveIn
    <3> QED
      BY <1>0, <1>1, <2>1, <2>2, <3>1
  <2>3. CASE ~c.live
    <3>1. LiveIn(x) = LiveIn(s) \ {u}
      BY <1>3, <2>3 DEF LiveIn
    <3>2. Cardinality(LiveIn(x)) = Cardinality(LiveIn(s)) - 1
      BY <1>8, <2>1, <3>1, FS_RemoveElement
    <3>3. x.num_thread_client = Cardinality(LiveIn(x))
      BY <1>0, <1>1, <2>3, <3>2
    <3>4. x.quit => Cardinality(LiveIn(x)) = 0
      BY <1>0, <2>3, <3>3
    <3> QED
      BY <1>8, <3>3, <3>4, FS_EmptySet
  <2> QED
    BY <2>2, <2>3
<1>10. ASSUME NEW t \in Thread, t # u PROVE Counted(x, t, r) /\ Phase(x, t, P, r)
  <2>1. Counted(s, t, None) /\ Phase(s, t, {}, None)
    BY DEF Good
  <2>2. t # None /\ t # r /\ t \notin P /\ x.tc[t] = s.tc[t]
    BY <1>3, <1>10, Names
  <2>3. (Reading(x, t, r) <=> Reading(s, t, None)) /\ Pending(x, t, r) = Pending(s, t, None)
    BY <2>2 DEF Reading, Pending
  <2>4. Counted(x, t, r)
    BY <1>4, <1>10, <2>1, <2>2, <2>3 DEF Counted
  <2>5. Phase(x, t, P, r)
    BY <1>0, <1>4, <1>10, <2>1, <2>2, <2>3 DEF Phase
  <2> QED
    BY <2>4, <2>5
<1>11. \A t \in Thread : Counted(x, t, r) /\ Phase(x, t, P, r)
  BY <1>10
<1> QED
  BY <1>6, <1>9, <1>11 DEF Good

\* The three changes of the memory at the start of a callback.
Popping(s, u) == [[s EXCEPT !.apc = Tail(@)] EXCEPT !.tc[u].num_pending_request = @ - 1]

\* The memory at the start of a callback of a read.
LEMMA PoppingIs ==
    ASSUME NEW s, Memory(s), NEW u \in Thread, s.tc[u].live
    PROVE  /\ Pops(Popping(s, u), s, u, [s.tc[u] EXCEPT !.num_pending_request = @ - 1])
           /\ Popping(s, u).tc[u] = [s.tc[u] EXCEPT !.num_pending_request = @ - 1]
           /\ SameSleep(Popping(s, u), s)
<1> DEFINE x == Popping(s, u)
           c == [s.tc[u] EXCEPT !.num_pending_request = @ - 1]
<1>1. s = [f \in Fields |-> s[f]] /\ s.tc \in [Thread -> ClientRec]
  BY DEF Memory
<1>2. /\ c \in ClientRec /\ c.live = s.tc[u].live /\ c.deadline = s.tc[u].deadline
  <2>1. s.tc[u] \in ClientRec
    BY <1>1
  <2> DEFINE n == s.tc[u].num_pending_request - 1
  <2>2. n \in Int /\ c = [s.tc[u] EXCEPT !.num_pending_request = n]
    BY <2>1 DEF ClientRec
  <2> HIDE DEF n
  <2> QED
    BY <2>1, <2>2 DEF ClientRec
<1>3. /\ x = [f \in Fields |-> x[f]]
      /\ x.locks = s.locks /\ x.node = s.node
      /\ x.tc = [s.tc EXCEPT ![u] = c]
      /\ x.apc = Tail(s.apc)
      /\ x.num_thread_client = s.num_thread_client
      /\ x.quit = s.quit /\ x.sent = s.sent /\ x.crashed = s.crashed
  BY <1>1 DEF Popping, Fields
<1> HIDE DEF x, c
<1>4. Pops(x, s, u, c)
  BY <1>2, <1>3 DEF Pops
<1>5. x.tc[u] = c /\ \A t \in Thread : t # u => x.tc[t] = s.tc[t]
  BY <1>1, <1>3
<1>6. SameSleep(x, s)
  BY <1>2, <1>3, <1>5 DEF SameSleep
<1> QED
  BY <1>4, <1>5, <1>6 DEF x, c

\* The callback of a read that has got a request: the server owes an answer.
LEMMA PopRequest ==
    ASSUME NEW s, Good(s, {}, None), s.apc # <<>>, NEW u, Head(s.apc).tc = u,
           at[u] \in Places, Head(s.apc).op = "read", Head(s.apc).msg # NoMsg
    PROVE  /\ u \in Thread /\ u \in accepted /\ at[u] = "transact"
           /\ ~s.tc[u].being_destroyed
           /\ Good(Popping(s, u), {u}, u)
           /\ SameSleep(Popping(s, u), s)
<1> DEFINE x == Popping(s, u)
           a == s.apc
           b == Tail(a)
           c == [s.tc[u] EXCEPT !.num_pending_request = @ - 1]
<1>1. /\ u \in Thread /\ s.tc[u].live /\ u \in accepted
      /\ Serving(s.tc[u]) /\ ~s.tc[u].reading /\ NR(b, u) = 0
      /\ s.tc[u].num_pending_request = NW(b, u) + 1
      /\ at[u] = "transact"
  BY First
<1>2. Memory(s) /\ Counted(s, u, None) /\ Phase(s, u, {}, None) /\ u # None
  BY <1>1, Names DEF Good
<1>3. Pops(x, s, u, c) /\ x.tc[u] = c /\ SameSleep(x, s)
  <2>1. u \in Thread /\ s.tc[u].live /\ Memory(s)
    BY <1>1, <1>2
  <2> QED
    BY <2>1, PoppingIs
<1>4. /\ s.tc[u] \in ClientRec /\ s.tc[u].reading \in BOOLEAN /\ s.tc[u].live \in BOOLEAN
      /\ s.tc[u].being_destroyed \in BOOLEAN /\ s.tc[u].num_pending_request \in Int
  BY <1>1, <1>2, ClientIs
<1>5. /\ c.live = s.tc[u].live /\ c.being_destroyed = s.tc[u].being_destroyed
      /\ c.reading = s.tc[u].reading /\ c.deadline = s.tc[u].deadline
      /\ c.num_pending_request = s.tc[u].num_pending_request - 1
  BY <1>4 DEF ClientRec
<1> HIDE DEF x, c
<1>6. x.locks = s.locks /\ x.sent = s.sent /\ x.apc = b
  BY <1>3 DEF Pops
<1>7. a \in Seq(Completion) /\ a # <<>>
  BY <1>2 DEF Memory
<1>8. b \in Seq(Completion) /\ NW(b, u) \in Nat /\ (Asking(a, u) => Asking(b, u))
  <2> HIDE DEF a
  <2>1. b \in Seq(Completion) /\ (Asking(a, u) => Asking(b, u))
    BY <1>7, AfterCallback
  <2> HIDE DEF b
  <2> QED
    BY <2>1, Counts
<1> HIDE DEF b
<1>9. Reading(x, u, u) /\ Pending(x, u, u) = NW(b, u) + 1
  BY <1>1, <1>3, <1>5, <1>8 DEF Reading, Pending
<1>10. ~Reading(s, u, None)
  BY <1>1, <1>2 DEF Reading
<1>11. Counted(x, u, u)
  BY <1>1, <1>2, <1>3, <1>5, <1>6, <1>8, <1>9 DEF Counted, Serving
<1>12. Serving(x.tc[u])
  BY <1>1, <1>3, <1>5 DEF Serving
<1>13. s.sent[u] = NoMsg /\ ~IsAsleep(s.locks, u) /\ Asking(a, u) /\ req[u] = NoMsg
  BY <1>1, <1>2, <1>10 DEF Phase
<1>14. Phase(x, u, {u}, u)
  <2>1. x.sent[u] = NoMsg /\ ~IsAsleep(x.locks, u) /\ Asking(x.apc, u) /\ pipe # u
    BY <1>1, <1>2, <1>6, <1>8, <1>13 DEF Phase
  <2> QED
    BY <1>1, <1>9, <1>12, <1>13, <2>1 DEF Phase
<1>15. Good(x, {u}, u)
  <2>1. {u} \in SUBSET {u} /\ u \in {u, None}
    OBVIOUS
  <2> QED
    BY <1>1, <1>3, <1>11, <1>14, <2>1, Popped
<1> QED
  BY <1>1, <1>3, <1>15 DEF x, Serving

\* thread_client_destroy() in a callback for a client whose thread has gone, and
\* that has no read pending.
LEMMA Destroyed ==
    ASSUME NEW s, Good(s, {}, None), s.apc # <<>>, NEW u \in Thread, Head(s.apc).tc = u,
           s.tc[u].live, u \in accepted, at[u] = "gone", ~s.tc[u].reading,
           NR(Tail(s.apc), u) = 0, s.tc[u].num_pending_request - 1 = NW(Tail(s.apc), u)
    PROVE  /\ Good(thread_client_destroy(Popping(s, u), u), {}, None)
           /\ OneTimed(s, {}) => OneTimed(thread_client_destroy(Popping(s, u), u), {})
<1> DEFINE y == Popping(s, u)
           x == thread_client_destroy(y, u)
           b == Tail(s.apc)
           e == [s.tc[u] EXCEPT !.num_pending_request = @ - 1]
           c == IF e.num_pending_request > 0 THEN [e EXCEPT !.being_destroyed = TRUE] ELSE NoClient
<1>1. Memory(s) /\ Counted(s, u, None) /\ Phase(s, u, {}, None) /\ u # None
  BY Names DEF Good
<1>2. Pops(y, s, u, e) /\ y.tc[u] = e /\ SameSleep(y, s)
  BY <1>1, PoppingIs
<1>3. /\ s.tc[u] \in ClientRec /\ s.tc[u].reading \in BOOLEAN /\ s.tc[u].live \in BOOLEAN
      /\ s.tc[u].being_destroyed \in BOOLEAN /\ s.tc[u].num_pending_request \in Int
  BY <1>1, ClientIs
<1>4. /\ e \in ClientRec /\ e.live = s.tc[u].live /\ e.being_destroyed = s.tc[u].being_destroyed
      /\ e.reading = s.tc[u].reading /\ e.deadline = s.tc[u].deadline
      /\ e.num_pending_request = s.tc[u].num_pending_request - 1
  <2>1. e \in ClientRec
    BY <1>2 DEF Pops
  <2> QED
    BY <1>3, <2>1 DEF ClientRec
<1> HIDE DEF y, e
<1>5. /\ y = [f \in Fields |-> y[f]]
      /\ y.locks = s.locks /\ y.node = s.node /\ y.tc = [s.tc EXCEPT ![u] = e]
      /\ y.apc = b /\ y.num_thread_client = s.num_thread_client /\ y.quit = s.quit
      /\ y.sent = s.sent /\ y.crashed = s.crashed
  <2>1. e.live
    BY <1>4
  <2> QED
    BY <1>2, <2>1 DEF Pops
<1>6. b \in Seq(Completion) /\ NW(b, u) \in Nat /\ (Leaving(s.apc, u) => Leaving(b, u))
      /\ s.tc \in [Thread -> ClientRec] /\ s.num_thread_client \in Int
  <2> DEFINE a == s.apc
  <2>1. a \in Seq(Completion) /\ a # <<>> /\ b = Tail(a)
        /\ s.tc \in [Thread -> ClientRec] /\ s.num_thread_client \in Int
    BY <1>1 DEF Memory
  <2> HIDE DEF a, b
  <2>2. b \in Seq(Completion) /\ (Leaving(a, u) => Leaving(b, u))
    BY <2>1, AfterCallback
  <2> QED
    BY <2>1, <2>2, Counts DEF a
<1> HIDE DEF b
<1>7. e.num_pending_request = NW(b, u) /\ ~e.reading /\ NR(b, u) = 0
  BY <1>4 DEF b
<1>8. /\ ~Reading(s, u, None) /\ ~IsAsleep(s.locks, u) /\ s.sent[u] = NoMsg
      /\ req[u] = NoMsg /\ Leaving(b, u) /\ pipe # u
  BY <1>1, <1>6 DEF Phase
<1>9. Pops(x, s, u, c) /\ (c.deadline = s.tc[u].deadline \/ c.deadline = NoTimeout)
  <2>1. CASE e.num_pending_request > 0
    <3> DEFINE d == [e EXCEPT !.being_destroyed = TRUE]
    <3>1. x = [y EXCEPT !.tc[u].being_destroyed = TRUE]
      BY <1>2, <2>1 DEF thread_client_destroy
    <3>2. d \in ClientRec /\ d.live /\ d.deadline = s.tc[u].deadline
      BY <1>4 DEF ClientRec
    <3>3. /\ x = [f \in Fields |-> x[f]]
          /\ x.locks = y.locks /\ x.node = y.node /\ x.tc = [y.tc EXCEPT ![u] = d]
          /\ x.apc = y.apc /\ x.num_thread_client = y.num_thread_client /\ x.quit = y.quit
          /\ x.sent = y.sent /\ x.crashed = y.crashed
      BY <1>2, <1>5, <3>1 DEF Fields
    <3>4. c = d
      BY <2>1
    <3> HIDE DEF x, d, c
    <3>5. x.tc = [s.tc EXCEPT ![u] = d]
      BY <1>5, <1>6, <3>3
    <3> QED
      BY <1>5, <3>2, <3>3, <3>4, <3>5 DEF Pops, b
  <2>2. CASE ~(e.num_pending_request > 0)
    <3> DEFINE z == [y EXCEPT !.tc[u] = NoClient]
    <3>1. x = [z EXCEPT !.num_thread_client = @ + (-1), !.quit = z.num_thread_client + (-1) = 0]
      BY <1>2, <2>2 DEF thread_client_destroy, update_thread_count
    <3>2. NoClient \in ClientRec /\ ~NoClient.live /\ NoClient.deadline = NoTimeout
      <4>1. NoTimeout \in Int
        BY RefereeAssumption DEF NoTimeout
      <4> QED
        BY <4>1 DEF NoClient, ClientRec
    <3>3. /\ z = [f \in Fields |-> z[f]]
          /\ z.locks = y.locks /\ z.node = y.node /\ z.tc = [y.tc EXCEPT ![u] = NoClient]
          /\ z.apc = y.apc /\ z.num_thread_client = y.num_thread_client
          /\ z.sent = y.sent /\ z.crashed = y.crashed
      BY <1>5 DEF Fields
    <3> HIDE DEF z
    <3>4. /\ x = [f \in Fields |-> x[f]]
          /\ x.locks = z.locks /\ x.node = z.node /\ x.tc = z.tc
          /\ x.apc = z.apc /\ x.num_thread_client = z.num_thread_client + (-1)
          /\ x.quit = (z.num_thread_client + (-1) = 0)
          /\ x.sent = z.sent /\ x.crashed = z.crashed
      BY <3>1, <3>3 DEF Fields
    <3>5. c = NoClient
      BY <2>2
    <3> HIDE DEF x, c
    <3>6. x.tc = [s.tc EXCEPT ![u] = NoClient]
      BY <1>5, <1>6, <3>3, <3>4
    <3>7. x.num_thread_client = s.num_thread_client - 1 /\ x.quit = (x.num_thread_client = 0)
      BY <1>5, <1>6, <3>3, <3>4
    <3> QED
      BY <1>5, <3>2, <3>3, <3>4, <3>5, <3>6, <3>7 DEF Pops, b
  <2> QED
    BY <2>1, <2>2
<1>10. /\ c.live => c.being_destroyed /\ ~c.reading /\ c.num_pending_request = NW(b, u) /\ NW(b, u) > 0
       /\ ~c.live => c = NoClient /\ NW(b, u) = 0
       /\ c.live \in BOOLEAN /\ c.deadline >= MaxNow
  <2>1. CASE e.num_pending_request > 0
    <3>1. c = [e EXCEPT !.being_destroyed = TRUE]
      BY <2>1
    <3>2. e.deadline >= MaxNow /\ e.live = TRUE
      BY <1>1, <1>3, <1>4 DEF Counted
    <3> HIDE DEF c
    <3>3. c.live = TRUE /\ c.being_destroyed = TRUE /\ c.reading = e.reading /\ c.deadline = e.deadline
          /\ c.num_pending_request = e.num_pending_request
      BY <1>4, <3>1, <3>2 DEF ClientRec
    <3> QED
      BY <1>7, <2>1, <3>2, <3>3
  <2>2. CASE ~(e.num_pending_request > 0)
    <3>1. c = NoClient
      BY <2>2
    <3>2. NW(b, u) = 0
      BY <1>6, <1>7, <2>2
    <3>3. c.live = FALSE /\ c.deadline = NoTimeout
      BY <3>1 DEF NoClient
    <3>4. NoTimeout >= MaxNow
      BY RefereeAssumption DEF NoTimeout
    <3> QED
      BY <3>1, <3>2, <3>3, <3>4
  <2> QED
    BY <2>1, <2>2
<1> HIDE DEF x, c
<1>11. /\ x.tc[u] = c /\ x.apc = b /\ x.locks = s.locks /\ x.node = s.node /\ x.sent = s.sent
       /\ \A t \in Thread : t # u => x.tc[t] = s.tc[t]
  BY <1>5, <1>6, <1>9 DEF Pops, b
<1>12. ~Reading(x, u, None) /\ Pending(x, u, None) = NW(b, u)
  <2>1. ~c.reading /\ c.num_pending_request = NW(b, u)
    BY <1>10 DEF NoClient
  <2> QED
    BY <1>1, <1>6, <1>11, <2>1 DEF Reading, Pending
<1>13. Counted(x, u, None)
  <2>1. c.being_destroyed => c.live
    BY <1>10 DEF NoClient
  <2>2. ~Serving(c)
    BY <1>10 DEF Serving
  <2> QED
    BY <1>6, <1>7, <1>10, <1>11, <1>12, <2>1, <2>2 DEF Counted
<1>14. Phase(x, u, {}, None)
  BY <1>8, <1>11, <1>12 DEF Phase
<1>15. Good(x, {}, None)
  <2>1. {} \in SUBSET {u} /\ None \in {u, None}
    OBVIOUS
  <2> QED
    BY <1>9, <1>13, <1>14, <2>1, Popped
<1>16. ASSUME OneTimed(s, {}) PROVE OneTimed(x, {})
  <2>1. s.tc[u].deadline = NoTimeout
    BY <1>8, <1>16 DEF OneTimed
  <2>2. SameSleep(x, s)
    BY <1>9, <1>11, <2>1 DEF SameSleep
  <2> QED
    BY <1>16, <2>2, SameTimed
<1> QED
  BY <1>15, <1>16 DEF x, y

\* No wait that the threads ask for ends while the clock runs.
Punctual ==
    \A w \in Workload : \A t \in Thread : \A i \in DOMAIN w[t] :
        w[t][i].op = "WAIT" => w[t][i].deadline >= MaxNow

\* What Punctual says of each request.
LEMMA PunctualAsked ==
    ASSUME Punctual, NEW t \in Thread, NEW m \in Asked(t), m.op = "WAIT"
    PROVE  m.deadline >= MaxNow
<1>1. m # GETROBUST
  <2>1. GETROBUST.op = "GETROBUST"
    BY DEF GETROBUST
  <2> QED
    BY <2>1
<1>2. PICK w \in Workload : m \in Range(w[t])
  BY <1>1 DEF Asked
<1>3. PICK i \in DOMAIN w[t] : m = w[t][i]
  BY <1>2 DEF Range
<1> QED
  BY <1>3 DEF Punctual

\* What is asked of the server.
LEMMA AskedFields ==
    ASSUME NEW t \in Thread, NEW m \in Asked(t)
    PROVE  /\ m # NoMsg
           /\ m.op = "WAKE" => m.key \in Nat /\ m.val \in Int /\ m.num \in Nat
           /\ m.op = "WAIT" => m.key \in Nat /\ m.val \in Int /\ m.deadline \in Int
<1>1. m # NoMsg /\ (m = GETROBUST \/ IsRequest(m))
  BY AskedIs
<1>2. GETROBUST.op = "GETROBUST" /\ INITLOCK.op = "INITLOCK" /\ Key \subseteq Nat
  BY RefereeAssumption DEF GETROBUST, INITLOCK
<1> QED
  BY <1>1, <1>2 DEF IsRequest

\* The handler of a request.
Handled(s, u, m) ==
    CASE m.op = "WAKE"     -> handle_req_wake(s, u, m)
      [] m.op = "WAIT"     -> handle_req_wait(s, u, m)
      [] m.op = "INITLOCK" -> handle_req_initlock(s, u)
      [] OTHER             -> handle_req_getrobust(s, u)

\* The dispatch of read_completed().
LEMMA HandledIs ==
    ASSUME NEW s, NEW u, NEW m
    PROVE  /\ m.op = "WAKE" => Handled(s, u, m) = handle_req_wake(s, u, m)
           /\ m.op = "WAIT" => Handled(s, u, m) = handle_req_wait(s, u, m)
           /\ m.op = "INITLOCK" => Handled(s, u, m) = handle_req_initlock(s, u)
           /\ m.op \notin {"WAKE", "WAIT", "INITLOCK"} => Handled(s, u, m) = handle_req_getrobust(s, u)
BY DEF Handled

\* handle_req_getrobust().
LEMMA HandledRobust ==
    ASSUME NEW s, NEW u \in Thread, Good(s, {u}, u)
    PROVE  /\ Good(handle_req_getrobust(s, u), {}, u)
           /\ OneTimed(s, {}) => OneTimed(handle_req_getrobust(s, u), {})
<1> DEFINE m == Answer("GETROBUST", FALSE)
           h == thread_client_queue_write(s, u, m)
<1>1. m # NoMsg
  <2>1. m.op = "GETROBUST" /\ NoMsg.op = "none"
    BY DEF Answer, NoMsg
  <2> QED
    BY <2>1
<1> HIDE DEF m
<1>2. Good(h, {u} \ {u}, u) /\ SameSleep(h, s)
  BY <1>1, QueueWrite
<1>3. handle_req_getrobust(s, u) = h /\ {u} \ {u} = {}
  BY DEF handle_req_getrobust, m
<1> HIDE DEF h
<1> QED
  BY <1>2, <1>3, SameTimed

\* handle_req_initlock(): the counter changes, and the client is answered.
LEMMA HandledInit ==
    ASSUME NEW s, NEW u \in Thread, Good(s, {u}, u)
    PROVE  /\ Good(handle_req_initlock(s, u), {}, u)
           /\ OneTimed(s, {}) => OneTimed(handle_req_initlock(s, u), {})
<1> DEFINE y == [s EXCEPT !.last_value = @ + 1]
           m == [op |-> "INITLOCK", key |-> s.last_value]
           h == thread_client_queue_write(y, u, m)
<1>1. Memory(s) /\ \A t \in Thread : Phase(s, t, {u}, u)
  BY DEF Good
<1>2. /\ s = [f \in Fields |-> s[f]] /\ LocksOK(s.locks) /\ s.tc \in [Thread -> ClientRec]
      /\ s.node \in Linkage
  BY <1>1 DEF Memory
<1>3. /\ y = [f \in Fields |-> y[f]] /\ y.locks = s.locks /\ y.node = s.node /\ y.tc = s.tc
      /\ y.apc = s.apc /\ y.num_thread_client = s.num_thread_client
      /\ y.quit = s.quit /\ y.sent = s.sent /\ y.crashed = s.crashed
  BY <1>2 DEF Fields
<1>4. m # NoMsg
  <2>1. m.op = "INITLOCK" /\ NoMsg.op = "none"
    BY DEF NoMsg
  <2> QED
    BY <2>1
<1>5. handle_req_initlock(s, u) = h /\ {u} \ {u} = {}
  BY DEF handle_req_initlock
<1> HIDE DEF y, m
<1>6. \A t \in Thread : ~(IsAsleep(s.locks, t) /\ t \in {u})
  BY <1>1 DEF Phase
<1>7. Amends(y, s, {u}, {u})
  BY <1>2, <1>3, <1>6 DEF Amends
<1>8. Good(y, {u}, u)
  BY <1>7, Amended
<1>9. Good(h, {u} \ {u}, u) /\ SameSleep(h, y)
  BY <1>4, <1>8, QueueWrite
<1> HIDE DEF h
<1>10. SameSleep(y, s)
  BY <1>3 DEF SameSleep
<1> QED
  BY <1>5, <1>9, <1>10, SameTimed

\* Every request is answered, or its thread sleeps.
LEMMA Served ==
    ASSUME Punctual, NEW s, NEW u \in Thread, Good(s, {u}, u), NEW m \in Asked(u)
    PROVE  /\ Good(Handled(s, u, m), {}, u)
           /\ OneTimed(s, {}) /\ OneTimedThread => OneTimed(Handled(s, u, m), {})
<1>1. /\ m.op = "WAKE" => m.key \in Nat /\ m.val \in Int /\ m.num \in Nat
      /\ m.op = "WAIT" => m.key \in Nat /\ m.val \in Int /\ m.deadline \in Int
  BY AskedFields
<1>2. CASE m.op = "WAKE"
  BY <1>1, <1>2, HandledIs, HandledWake
<1>3. CASE m.op = "WAIT"
  <2>1. m.deadline >= MaxNow
    BY <1>3, PunctualAsked
  <2>2. m.deadline # NoTimeout => TimedThread(u)
    BY <1>3 DEF TimedThread
  <2>3. Handled(s, u, m) = handle_req_wait(s, u, m)
    BY <1>3, HandledIs
  <2>4. /\ Good(handle_req_wait(s, u, m), {}, u)
        /\ OneTimed(s, {}) /\ OneTimedThread /\ (m.deadline # NoTimeout => TimedThread(u))
              => OneTimed(handle_req_wait(s, u, m), {})
    BY <1>1, <1>3, <2>1, HandledWait
  <2> QED
    BY <2>2, <2>3, <2>4
<1>4. CASE m.op = "INITLOCK"
  BY <1>4, HandledIs, HandledInit
<1>5. CASE m.op \notin {"WAKE", "WAIT", "INITLOCK"}
  BY <1>5, HandledIs, HandledRobust
<1> QED
  BY <1>2, <1>3, <1>4, <1>5

\* read_completed().
LEMMA ReadCalledBack ==
    ASSUME Punctual, NEW s, Good(s, {}, None), s.apc # <<>>, NEW u, Head(s.apc).tc = u,
           at[u] \in Places, Head(s.apc).op = "read"
    PROVE  LET x == read_completed([s EXCEPT !.apc = Tail(@)], u, Head(s.apc).msg) IN
           /\ Good(x, {}, None)
           /\ OneTimed(s, {}) /\ OneTimedThread => OneTimed(x, {})
<1> DEFINE p == [s EXCEPT !.apc = Tail(@)]
           y == Popping(s, u)
           m == Head(s.apc).msg
           x == read_completed(p, u, m)
<1>1. /\ u \in Thread /\ s.tc[u].live /\ u \in accepted
      /\ Serving(s.tc[u]) /\ ~s.tc[u].reading /\ NR(Tail(s.apc), u) = 0
      /\ s.tc[u].num_pending_request = NW(Tail(s.apc), u) + 1
      /\ m # NoMsg => at[u] = "transact"
      /\ m = NoMsg => at[u] = "gone"
  BY First
<1>2. Memory(s)
  BY DEF Good
<1>3. p.tc = s.tc /\ y = [p EXCEPT !.tc[u].num_pending_request = @ - 1]
  <2>1. DOMAIN s = Fields
    BY <1>2 DEF Memory
  <2> QED
    BY <2>1 DEF Fields, Popping
<1>4. x = IF m = NoMsg \/ s.tc[u].being_destroyed THEN thread_client_destroy(y, u)
          ELSE thread_client_queue_read(Handled(y, u, m), u)
  <2> HIDE DEF p
  <2> QED
    BY <1>3 DEF read_completed, Handled
<1> HIDE DEF p, x
<1>5. CASE m = NoMsg
  <2>1. x = thread_client_destroy(y, u)
    BY <1>4, <1>5
  <2>2. s.tc[u].num_pending_request - 1 = NW(Tail(s.apc), u)
    <3> DEFINE a == s.apc
               n == NW(Tail(a), u)
    <3>1. n \in Nat
      <4>1. a \in Seq(Completion) /\ a # <<>>
        BY <1>2 DEF Memory
      <4> HIDE DEF a
      <4>2. Tail(a) \in Seq(Completion)
        BY <4>1
      <4> QED
        BY <4>2, Counts
    <3>2. s.tc[u].num_pending_request = n + 1
      BY <1>1
    <3> HIDE DEF n
    <3>3. s.tc[u].num_pending_request - 1 = n
      BY <3>1, <3>2
    <3> QED
      BY <3>3 DEF n
  <2>3. u \in Thread /\ s.tc[u].live /\ u \in accepted /\ at[u] = "gone" /\ ~s.tc[u].reading
        /\ NR(Tail(s.apc), u) = 0
    BY <1>1, <1>5
  <2>4. Good(x, {}, None) /\ (OneTimed(s, {}) => OneTimed(x, {}))
    BY <2>1, <2>2, <2>3, Destroyed
  <2> QED
    BY <2>4 DEF x, p
<1>6. CASE m # NoMsg
  <2>1. /\ u \in Thread /\ u \in accepted /\ at[u] = "transact"
        /\ ~s.tc[u].being_destroyed
        /\ Good(y, {u}, u) /\ SameSleep(y, s)
    BY <1>6, PopRequest
  <2>2. m \in Asked(u)
    <3>1. Head(s.apc) \in Completion
      <4> DEFINE a == s.apc
      <4>1. a \in Seq(Completion) /\ a # <<>>
        BY <1>2 DEF Memory
      <4> HIDE DEF a
      <4>2. Head(a) \in Completion
        BY <4>1
      <4> QED
        BY <4>2 DEF a
    <3> QED
      BY <1>6, <3>1, CompletionIs
  <2> HIDE DEF y, m
  <2> DEFINE h == Handled(y, u, m)
  <2>3. Good(h, {}, u) /\ (OneTimed(y, {}) /\ OneTimedThread => OneTimed(h, {}))
    BY <2>1, <2>2, Served
  <2>4. x = thread_client_queue_read(h, u)
    BY <1>4, <1>6, <2>1
  <2> HIDE DEF h
  <2>5. Good(x, {}, None) /\ SameSleep(x, h)
    BY <2>1, <2>3, <2>4, QueueRead
  <2>6. OneTimed(s, {}) => OneTimed(y, {})
    BY <2>1, SameTimed
  <2>7. OneTimed(h, {}) => OneTimed(x, {})
    BY <2>5, SameTimed
  <2> QED
    BY <2>3, <2>5, <2>6, <2>7 DEF x, p, m
<1> QED
  BY <1>5, <1>6

\* write_completed().
LEMMA WriteCalledBack ==
    ASSUME NEW s, Good(s, {}, None), s.apc # <<>>, NEW u, Head(s.apc).tc = u,
           at[u] \in Places, Head(s.apc).op # "read"
    PROVE  LET x == write_completed([s EXCEPT !.apc = Tail(@)], u) IN
           Good(x, {}, None) /\ (OneTimed(s, {}) => OneTimed(x, {}))
<1> DEFINE p == [s EXCEPT !.apc = Tail(@)]
           y == Popping(s, u)
           a == s.apc
           b == Tail(a)
           c == [s.tc[u] EXCEPT !.num_pending_request = @ - 1]
           x == write_completed(p, u)
<1>1. /\ u \in Thread /\ s.tc[u].live /\ u \in accepted
      /\ s.tc[u].num_pending_request - 1 = NR(b, u) + NW(b, u) + (IF s.tc[u].reading THEN 1 ELSE 0)
      /\ NR(b, u) = NR(a, u)
      /\ s.tc[u].being_destroyed => at[u] = "gone"
  BY First
<1>2. Memory(s) /\ Counted(s, u, None) /\ Phase(s, u, {}, None) /\ u # None
  BY <1>1, Names DEF Good
<1>3. p.tc = s.tc /\ y = [p EXCEPT !.tc[u].num_pending_request = @ - 1]
  <2>1. DOMAIN s = Fields
    BY <1>2 DEF Memory
  <2> QED
    BY <2>1 DEF Fields, Popping
<1>4. x = IF s.tc[u].being_destroyed THEN thread_client_destroy(y, u) ELSE y
  <2> HIDE DEF p
  <2> QED
    BY <1>3 DEF write_completed
<1> HIDE DEF p, x
<1>5. /\ b \in Seq(Completion) /\ NW(b, u) \in Nat /\ NR(b, u) \in Nat
      /\ (Asking(a, u) => Asking(b, u)) /\ (Leaving(a, u) => Leaving(b, u))
  <2>1. a \in Seq(Completion) /\ a # <<>>
    BY <1>2 DEF Memory
  <2> HIDE DEF a
  <2>2. b \in Seq(Completion) /\ (Asking(a, u) => Asking(b, u)) /\ (Leaving(a, u) => Leaving(b, u))
    BY <2>1, AfterCallback
  <2> HIDE DEF b
  <2> QED
    BY <2>2, Counts
<1>6. CASE s.tc[u].being_destroyed
  <2>1. x = thread_client_destroy(y, u)
    BY <1>4, <1>6
  <2>2. ~Reading(s, u, None) /\ NR(a, u) = 0
    BY <1>2, <1>6 DEF Counted
  <2>3. ~s.tc[u].reading /\ at[u] = "gone" /\ NR(b, u) = 0
    BY <1>1, <1>6, <2>2 DEF Reading
  <2> HIDE DEF b
  <2>4. s.tc[u].num_pending_request - 1 = NW(b, u)
    BY <1>1, <1>5, <2>3
  <2>5. u \in Thread /\ s.tc[u].live /\ u \in accepted
    BY <1>1
  <2>6. NR(Tail(s.apc), u) = 0 /\ s.tc[u].num_pending_request - 1 = NW(Tail(s.apc), u)
    BY <2>3, <2>4 DEF b
  <2>7. Good(x, {}, None) /\ (OneTimed(s, {}) => OneTimed(x, {}))
    BY <2>1, <2>3, <2>5, <2>6, Destroyed
  <2> QED
    BY <2>7 DEF x, p
<1>7. CASE ~s.tc[u].being_destroyed
  <2>1. x = y
    BY <1>4, <1>7
  <2>2. Pops(y, s, u, c) /\ y.tc[u] = c /\ SameSleep(y, s)
    <3>1. u \in Thread /\ s.tc[u].live /\ Memory(s)
      BY <1>1, <1>2
    <3> QED
      BY <3>1, PoppingIs
  <2>3. /\ s.tc[u] \in ClientRec /\ s.tc[u].reading \in BOOLEAN /\ s.tc[u].live \in BOOLEAN
        /\ s.tc[u].being_destroyed \in BOOLEAN /\ s.tc[u].num_pending_request \in Int
    BY <1>1, <1>2, ClientIs
  <2>4. /\ c.live = s.tc[u].live /\ c.being_destroyed = s.tc[u].being_destroyed
        /\ c.reading = s.tc[u].reading /\ c.deadline = s.tc[u].deadline
        /\ c.num_pending_request = s.tc[u].num_pending_request - 1
    BY <2>3 DEF ClientRec
  <2> HIDE DEF y, c
  <2>5. y.locks = s.locks /\ y.sent = s.sent /\ y.apc = b
    BY <2>2 DEF Pops
  <2> HIDE DEF b
  <2>6. (Reading(y, u, None) <=> Reading(s, u, None)) /\ (Serving(y.tc[u]) <=> Serving(s.tc[u]))
        /\ Pending(y, u, None) = c.num_pending_request /\ (Reading(s, u, None) <=> s.tc[u].reading)
    BY <1>1, <1>2, <2>2, <2>3, <2>4 DEF Reading, Serving, Pending
  <2>7. Counted(y, u, None)
    <3>1. Pending(y, u, None) = NR(y.apc, u) + NW(y.apc, u) + (IF Reading(y, u, None) THEN 1 ELSE 0)
      BY <1>1, <2>4, <2>5, <2>6
    <3>2. NR(y.apc, u) = NR(s.apc, u)
      BY <1>1, <2>5
    <3> QED
      BY <1>1, <1>2, <1>7, <2>2, <2>4, <2>6, <3>1, <3>2 DEF Counted
  <2>8. Phase(y, u, {}, None)
    BY <1>1, <1>2, <1>5, <2>5, <2>6 DEF Phase
  <2>9. Good(y, {}, None)
    <3>1. {} \in SUBSET {u} /\ None \in {u, None}
      OBVIOUS
    <3> QED
      BY <1>1, <2>2, <2>7, <2>8, <3>1, Popped
  <2> QED
    BY <2>1, <2>2, <2>9, SameTimed DEF x, p
<1> QED
  BY <1>6, <1>7

\* timeout_list_update() has nothing to do as long as no deadline is past.
LEMMA NothingLate ==
    ASSUME NEW s, s.node \in Linkage, \A t \in Thread : ~(s.tc[t].deadline < now)
    PROVE  timeout_list_update(s) = s
<1> DEFINE l == Listed(s.node)
           late == {t \in Thread : s.tc[t].deadline < now}
           up == [k \in 0 .. Len(l) |-> s]
           Step(k, f) == IF k = 0 THEN s
                         ELSE IF \A j \in 1 .. k : l[j] \in late
                              THEN thread_client_process_timeout(f[k - 1], l[k])
                              ELSE f[k - 1]
           Is(f) == f = [k \in 0 .. Len(l) |-> Step(k, f)]
           T == {n \in Nat : n <= Len(l) => \A f : Is(f) => f[n] = s}
<1>1. l \in Seq(Nodes) /\ Len(l) \in Nat
  BY ListedNodes
<1>2. late = {}
  OBVIOUS
<1>3. timeout_list_update(s) = (CHOOSE f : Is(f))[Len(l)]
  BY DEF timeout_list_update
<1> HIDE DEF late, l
<1>4. \A k \in 1 .. Len(l) : ~(\A j \in 1 .. k : l[j] \in late)
  BY <1>1, <1>2
<1>5. Is(up)
  <2>1. ASSUME NEW k \in 0 .. Len(l) PROVE s = Step(k, up)
    <3>1. CASE k = 0
      BY <3>1
    <3>2. CASE k # 0
      <4>1. k \in 1 .. Len(l) /\ k - 1 \in 0 .. Len(l)
        BY <1>1, <3>2
      <4>2. Step(k, up) = up[k - 1]
        BY <1>4, <3>2, <4>1
      <4> QED
        BY <4>1, <4>2
    <3> QED
      BY <3>1, <3>2
  <2> QED
    BY <2>1
<1>6. 0 \in T
  <2>1. ASSUME NEW f, Is(f) PROVE f[0] = s
    <3>1. 0 \in 0 .. Len(l)
      BY <1>1
    <3>2. f[0] = Step(0, f)
      BY <2>1, <3>1
    <3> QED
      BY <3>2
  <2> HIDE DEF Is
  <2> QED
    BY <2>1
<1>7. ASSUME NEW n \in Nat, n \in T PROVE n + 1 \in T
  <2> SUFFICES ASSUME n + 1 <= Len(l), NEW f, Is(f)
               PROVE  f[n + 1] = s
    <3> HIDE DEF Is
    <3> QED
      OBVIOUS
  <2>1. n + 1 \in 1 .. Len(l) /\ n + 1 \in 0 .. Len(l) /\ (n + 1) - 1 = n /\ n <= Len(l) /\ n + 1 # 0
    BY <1>1
  <2>2. f[n] = s
    <3> HIDE DEF Is
    <3> QED
      BY <1>7, <2>1
  <2>3. f[n + 1] = Step(n + 1, f)
    BY <2>1
  <2>4. Step(n + 1, f) = f[n]
    BY <1>4, <2>1
  <2> QED
    BY <2>2, <2>3, <2>4
<1>8. Len(l) \in T
  <2> HIDE DEF T
  <2>1. Nat \subseteq T
    BY <1>6, <1>7, SetInduction
  <2> QED
    BY <1>1, <2>1
<1> HIDE DEF Is
<1> DEFINE g == CHOOSE f : Is(f)
<1>9. Is(g)
  <2> HIDE DEF up
  <2> QED
    BY <1>5
<1> HIDE DEF g
<1>10. g[Len(l)] = s
  BY <1>1, <1>8, <1>9
<1> QED
  BY <1>3, <1>10 DEF g

-----------------------------------------------------------------------------
(***************************************************************************)
(* The steps of the threads                                                *)
(***************************************************************************)
Standing ==
    /\ at \in [Thread -> Places]
    /\ DOMAIN todo = Thread /\ \A t \in Thread : todo[t] \in Seq(Asked(t))
    /\ req = [t \in Thread |-> req[t]]
    /\ accepted \subseteq Thread
    /\ now \in 0 .. MaxNow

RefereeInv ==
    /\ Standing
    /\ Good(srv, {}, None)
    /\ OneTimedThread => OneTimed(srv, {})

\* Nothing of what concerns thread v has changed, in the server and outside.
SameClient(x, s, v) ==
    /\ x.tc[v] = s.tc[v] /\ x.sent[v] = s.sent[v]
    /\ NR(x.apc, v) = NR(s.apc, v) /\ NW(x.apc, v) = NW(s.apc, v)
    /\ Asking(s.apc, v) => Asking(x.apc, v)
    /\ Leaving(s.apc, v) => Leaving(x.apc, v)
    /\ IsAsleep(x.locks, v) <=> IsAsleep(s.locks, v)

Steady(v) ==
    /\ at'[v] = at[v] /\ req'[v] = req[v]
    /\ v \in accepted' <=> v \in accepted
    /\ pipe' = v => pipe = v

\* A client whom a step does not concern.
LEMMA Elsewhere ==
    ASSUME Good(srv, {}, None), NEW v \in Thread, SameClient(srv', srv, v), Steady(v)
    PROVE  Counted(srv, v, None)' /\ Phase(srv, v, {}, None)'
<1>1. Counted(srv, v, None) /\ Phase(srv, v, {}, None)
  BY DEF Good
<1>2. (Reading(srv', v, None) <=> Reading(srv, v, None)) /\ Pending(srv', v, None) = Pending(srv, v, None)
  BY DEF SameClient, Reading, Pending
<1>3. Counted(srv', v, None)
  BY <1>1, <1>2 DEF Counted, SameClient
<1>4. Phase(srv, v, {}, None)'
  BY <1>1, <1>2 DEF Phase, SameClient, Steady
<1> QED
  BY <1>3, <1>4

\* A step of thread t that leaves the server alone.
LEMMA Moves ==
    ASSUME Good(srv, {}, None), NEW t \in Thread, srv' = srv,
           \A v \in Thread : v # t => Steady(v),
           Phase(srv, t, {}, None)'
    PROVE  Good(srv, {}, None)'
<1>1. \A v \in Thread : SameClient(srv', srv, v)
  BY DEF SameClient
<1>2. \A v \in Thread : Counted(srv, v, None)
  BY DEF Good
<1>3. \A v \in Thread : Counted(srv, v, None)' /\ Phase(srv, v, {}, None)'
  BY <1>1, <1>2, Elsewhere
<1> QED
  BY <1>3 DEF Good

\* The read that the server has pending for client u completes.
Reads1(s, u, m) == [s EXCEPT !.tc[u].reading = FALSE, !.apc = Append(@, ReadDone(u, m))]

\* The pending read of a client gets a request, or the end of its pipe.
LEMMA ReadCompletes ==
    ASSUME NEW s, Good(s, {}, None), NEW u \in Thread, s.tc[u].reading,
           NEW m \in Asked(u) \cup {NoMsg}
    PROVE  /\ u \in accepted /\ Serving(s.tc[u])
           /\ Memory(Reads1(s, u, m)) /\ SameSleep(Reads1(s, u, m), s)
           /\ Reads1(s, u, m).num_thread_client = Cardinality(LiveIn(Reads1(s, u, m)))
           /\ Reads1(s, u, m).quit => LiveIn(Reads1(s, u, m)) = {}
           /\ \A v \in Thread : v # u => SameClient(Reads1(s, u, m), s, v)
           /\ Counted(Reads1(s, u, m), u, None)
           /\ Serving(Reads1(s, u, m).tc[u]) /\ ~Reads1(s, u, m).tc[u].reading
           /\ Reads1(s, u, m).sent = s.sent
           /\ Asking(Reads1(s, u, m).apc, u) <=> m # NoMsg
           /\ Leaving(Reads1(s, u, m).apc, u) <=> m = NoMsg
<1> DEFINE x == Reads1(s, u, m)
           c == [s.tc[u] EXCEPT !.reading = FALSE]
<1>1. Memory(s) /\ Counted(s, u, None) /\ Phase(s, u, {}, None) /\ u # None
  BY Names DEF Good
<1>2. /\ s = [f \in Fields |-> s[f]] /\ s.tc \in [Thread -> ClientRec] /\ s.apc \in Seq(Completion)
  BY <1>1 DEF Memory
<1>3. /\ s.tc[u] \in ClientRec /\ s.tc[u].reading \in BOOLEAN /\ s.tc[u].live \in BOOLEAN
      /\ s.tc[u].being_destroyed \in BOOLEAN /\ s.tc[u].num_pending_request \in Int
  BY <1>1, ClientIs
<1>4. /\ c \in ClientRec /\ c.live = s.tc[u].live /\ c.being_destroyed = s.tc[u].being_destroyed
      /\ c.reading = FALSE /\ c.deadline = s.tc[u].deadline
      /\ c.num_pending_request = s.tc[u].num_pending_request
  BY <1>3 DEF ClientRec
<1>5. /\ x = [f \in Fields |-> x[f]]
      /\ x.locks = s.locks /\ x.node = s.node /\ x.tc = [s.tc EXCEPT ![u] = c]
      /\ x.apc = Append(s.apc, ReadDone(u, m))
      /\ x.num_thread_client = s.num_thread_client /\ x.quit = s.quit
      /\ x.sent = s.sent /\ x.crashed = s.crashed
  BY <1>2 DEF Fields, Reads1
<1> HIDE DEF x, c
<1>6. x.tc \in [Thread -> ClientRec] /\ x.tc[u] = c /\ \A t \in Thread : t # u => x.tc[t] = s.tc[t]
  BY <1>2, <1>4, <1>5
<1>7. ASSUME NEW t
      PROVE  /\ x.apc \in Seq(Completion)
             /\ NR(x.apc, t) = IF t = u THEN NR(s.apc, t) + 1 ELSE NR(s.apc, t)
             /\ NW(x.apc, t) = NW(s.apc, t)
             /\ t # u => /\ Asking(x.apc, t) <=> Asking(s.apc, t)
                         /\ Leaving(x.apc, t) <=> Leaving(s.apc, t)
             /\ t = u /\ NR(s.apc, t) = 0 => /\ Asking(x.apc, t) <=> m # NoMsg
                                             /\ Leaving(x.apc, t) <=> m = NoMsg
  <2> DEFINE a == s.apc
             b == x.apc
  <2>1. a \in Seq(Completion) /\ b = Append(a, ReadDone(u, m))
    BY <1>2, <1>5
  <2> HIDE DEF a, b
  <2>2. /\ b \in Seq(Completion)
        /\ NR(b, t) = IF t = u THEN NR(a, t) + 1 ELSE NR(a, t)
        /\ NW(b, t) = NW(a, t)
        /\ t # u => (Asking(b, t) <=> Asking(a, t)) /\ (Leaving(b, t) <=> Leaving(a, t))
        /\ t = u /\ NR(a, t) = 0 => (Asking(b, t) <=> m # NoMsg) /\ (Leaving(b, t) <=> m = NoMsg)
    BY <2>1, AfterRead
  <2> QED
    BY <2>2 DEF a, b
<1>8. Memory(x)
  BY <1>1, <1>5, <1>6, <1>7 DEF Memory
<1>9. Reading(s, u, None) /\ Serving(s.tc[u])
  <2>1. s.tc[u] # NoClient
    BY DEF NoClient
  <2> QED
    BY <1>1, <2>1 DEF Counted, Reading, Serving
<1>10. u \in accepted /\ Serving(c)
  BY <1>1, <1>4, <1>9 DEF Phase, Serving
<1>11. LiveIn(x) = LiveIn(s)
  BY <1>4, <1>6 DEF LiveIn
<1>12. x.num_thread_client = Cardinality(LiveIn(x)) /\ (x.quit => LiveIn(x) = {})
  BY <1>5, <1>11 DEF Good
<1>13. \A v \in Thread : v # u => SameClient(x, s, v)
  BY <1>5, <1>6, <1>7 DEF SameClient
<1>14. NR(s.apc, u) \in Nat /\ NW(s.apc, u) \in Nat
  BY <1>2, Counts
<1>15. /\ NR(s.apc, u) = 0
       /\ s.tc[u].num_pending_request = NW(s.apc, u) + 1
  <2>1. Pending(s, u, None) = s.tc[u].num_pending_request
    BY <1>1, <1>3 DEF Pending
  <2> QED
    BY <1>1, <1>9, <1>14, <2>1 DEF Counted
<1>16. Counted(x, u, None)
  <2>1. ~Reading(x, u, None) /\ Pending(x, u, None) = NW(s.apc, u) + 1
    BY <1>1, <1>4, <1>6, <1>14, <1>15 DEF Reading, Pending
  <2>2. NR(x.apc, u) = 1 /\ NW(x.apc, u) = NW(s.apc, u)
    BY <1>7, <1>15
  <2>3. c.live /\ ~c.being_destroyed /\ c.deadline >= MaxNow
    BY <1>1, <1>4, <1>10 DEF Serving, Counted
  <2> QED
    BY <1>6, <1>14, <2>1, <2>2, <2>3 DEF Counted
<1>17. (Asking(x.apc, u) <=> m # NoMsg) /\ (Leaving(x.apc, u) <=> m = NoMsg)
  BY <1>7, <1>15
<1>18. SameSleep(x, s)
  BY <1>4, <1>5, <1>6 DEF SameSleep
<1> QED
  BY <1>4, <1>5, <1>6, <1>8, <1>9, <1>10, <1>12, <1>13, <1>16, <1>17, <1>18 DEF x

\* A thread goes from one place to another.
LEMMA Goes ==
    ASSUME Standing, NEW t \in Thread, NEW place \in Places, Goto(t, place)
    PROVE  /\ at' \in [Thread -> Places] /\ at'[t] = place
           /\ \A v \in Thread : v # t => at'[v] = at[v]
BY DEF Standing, Goto

\* The steps of connect_to_lockref_server() leave the server alone, and are made
\* before the connection is accepted.
LEMMA ConnectKeeps ==
    ASSUME RefereeInv, NEW t \in Thread,
           Connect(t) \/ spawn_lock_server(t) \/ SpawnFails(t) \/ DuplicateFails(t)
    PROVE  RefereeInv'
<1>1. Standing /\ Good(srv, {}, None) /\ (OneTimedThread => OneTimed(srv, {})) /\ Phase(srv, t, {}, None)
  BY DEF RefereeInv, Good
<1> DEFINE To(place) ==
        /\ Goto(t, place)
        /\ at[t] \in {"probe", "open", "spawn"}
        /\ pipe' \in {pipe, "listening", None} \/ (pipe' = t /\ place = "queued")
        /\ UNCHANGED <<todo, req, accepted, srv, now>>
<1>2. PICK place \in {"open", "spawn", "probe", "queued"} : To(place)
  <2>1. CASE WaitNamedPipe(t)
    <3>1. To("open")
      BY <2>1 DEF WaitNamedPipe
    <3> HIDE DEF To
    <3> QED
      BY <3>1
  <2>2. CASE create_srv_first_pipe(t)
    <3>1. To("spawn")
      BY <2>2 DEF create_srv_first_pipe
    <3> HIDE DEF To
    <3> QED
      BY <3>1
  <2>3. CASE CreateFile(t)
    <3>1. To("queued") \/ To("probe")
      BY <2>3 DEF CreateFile
    <3> HIDE DEF To
    <3> QED
      BY <3>1
  <2>4. CASE spawn_lock_server(t) \/ SpawnFails(t) \/ DuplicateFails(t)
    <3>1. To("probe")
      BY <2>4 DEF spawn_lock_server, SpawnFails, DuplicateFails
    <3> HIDE DEF To
    <3> QED
      BY <3>1
  <2> QED
    BY <2>1, <2>2, <2>3, <2>4 DEF Connect
<1>3. /\ at' \in [Thread -> Places] /\ at'[t] = place
      /\ \A v \in Thread : v # t => at'[v] = at[v]
  BY <1>1, <1>2, Goes DEF Places
<1>4. Standing'
  BY <1>1, <1>2, <1>3 DEF Standing
<1>5. \A v \in Thread : v # t => Steady(v)
  BY <1>2, <1>3, Names DEF Steady
<1>6. t \notin accepted /\ pipe # t /\ req[t] = NoMsg
  BY <1>1, <1>2 DEF Phase
<1>7. pipe' = t => place = "queued"
  BY <1>2, <1>6, Names
<1>8. Phase(srv, t, {}, None)'
  BY <1>1, <1>2, <1>3, <1>6, <1>7 DEF Phase
<1>9. Good(srv, {}, None)'
  BY <1>1, <1>2, <1>5, <1>8, Moves
<1>10. OneTimedThread' => OneTimed(srv, {})'
  BY <1>1, <1>2 DEF OneTimedThread, OneTimed, TimedThread
<1> QED
  BY <1>4, <1>9, <1>10 DEF RefereeInv

\* A request is sent: it completes the pending read, or waits in the pipe of a
\* connection that the server has not seen.
LEMMA SendKeeps ==
    ASSUME RefereeInv, NEW t \in Thread, at[t] \in {"queued", "idle"}, NEW m \in Asked(t),
           Send(t, m)
    PROVE  /\ Good(srv, {}, None)' /\ (OneTimedThread => OneTimed(srv, {}))'
           /\ at' \in [Thread -> Places] /\ req' = [v \in Thread |-> req'[v]]
           /\ accepted' = accepted /\ now' = now
<1>1. /\ Standing /\ Good(srv, {}, None) /\ (OneTimedThread => OneTimed(srv, {}))
      /\ Phase(srv, t, {}, None) /\ t # None /\ Memory(srv) /\ Counted(srv, t, None)
  BY Names DEF RefereeInv, Good
<1>2. Goto(t, "transact") /\ "transact" \in Places /\ UNCHANGED <<accepted, pipe, now>>
  BY DEF Send, Places
<1>3. /\ at' \in [Thread -> Places] /\ at'[t] = "transact"
      /\ \A v \in Thread : v # t => at'[v] = at[v]
  BY <1>1, <1>2, Goes
<1>4. req[t] = NoMsg /\ srv.sent[t] = NoMsg /\ ~IsAsleep(srv.locks, t)
  BY <1>1 DEF Phase
<1>5. CASE srv.tc[t].reading
  <2>1. srv' = Reads1(srv, t, m) /\ req' = req
    BY <1>5 DEF Send, Reads1, ReadDone
  <2>2. /\ t \in accepted
        /\ Memory(srv') /\ SameSleep(srv', srv)
        /\ srv'.num_thread_client = Cardinality(LiveIn(srv'))
        /\ srv'.quit => LiveIn(srv') = {}
        /\ \A v \in Thread : v # t => SameClient(srv', srv, v)
        /\ Counted(srv', t, None)
        /\ Serving(srv'.tc[t]) /\ ~srv'.tc[t].reading
        /\ srv'.sent = srv.sent
        /\ Asking(srv'.apc, t) <=> m # NoMsg
    BY <1>1, <1>5, <2>1, ReadCompletes
  <2>3. m # NoMsg
    BY AskedIs
  <2>4. \A v \in Thread : v # t => Steady(v)
    BY <1>2, <1>3, <2>1 DEF Steady
  <2>5. \A v \in Thread : v # t => Counted(srv, v, None)' /\ Phase(srv, v, {}, None)'
    BY <1>1, <2>2, <2>4, Elsewhere
  <2>6. Phase(srv, t, {}, None)'
    <3>1. ~Reading(srv', t, None) /\ srv'.locks = srv.locks
      BY <1>1, <2>2 DEF Reading, SameSleep
    <3>2. at'[t] = "transact" /\ t \in accepted' /\ req'[t] = NoMsg /\ srv'.sent[t] = NoMsg
          /\ ~IsAsleep(srv'.locks, t) /\ pipe' # t
      BY <1>1, <1>2, <1>3, <1>4, <2>1, <2>2, <3>1 DEF Phase
    <3> QED
      BY <2>2, <2>3, <3>1, <3>2 DEF Phase
  <2>7. Good(srv, {}, None)'
    BY <2>2, <2>5, <2>6 DEF Good
  <2>8. (OneTimedThread => OneTimed(srv, {}))'
    BY <1>1, <2>2, SameTimed DEF OneTimedThread, TimedThread
  <2> QED
    BY <1>1, <1>2, <1>3, <2>1, <2>7, <2>8 DEF Standing
<1>6. CASE ~srv.tc[t].reading
  <2>1. srv' = srv /\ req' = [req EXCEPT ![t] = m]
    BY <1>6 DEF Send
  <2>2. ~Reading(srv, t, None)
    BY <1>1, <1>6 DEF Reading
  <2>3. t \notin accepted
    BY <1>1, <2>2 DEF Phase
  <2>4. req' = [v \in Thread |-> req'[v]] /\ req'[t] = m /\ \A v \in Thread : v # t => req'[v] = req[v]
    BY <1>1, <2>1 DEF Standing
  <2>5. \A v \in Thread : v # t => Steady(v)
    BY <1>2, <1>3, <2>4 DEF Steady
  <2>6. Phase(srv, t, {}, None)'
    <3>1. Asked(t)' = Asked(t) /\ accepted' = accepted /\ pipe' = pipe
      BY <1>1, <1>2, <2>3 DEF Phase
    <3> QED
      BY <1>1, <1>3, <1>4, <2>1, <2>2, <2>3, <2>4, <3>1 DEF Phase
  <2>7. Good(srv, {}, None)'
    BY <1>1, <2>1, <2>5, <2>6, Moves
  <2>8. (OneTimedThread => OneTimed(srv, {}))'
    BY <1>1, <2>1 DEF OneTimedThread, OneTimed, TimedThread
  <2> QED
    BY <1>2, <1>3, <2>4, <2>7, <2>8
<1> QED
  BY <1>5, <1>6

\* create_robust_data() and the requests that follow.
LEMMA RequestKeeps ==
    ASSUME RefereeInv, NEW t \in Thread, create_robust_data(t) \/ Request(t)
    PROVE  RefereeInv'
<1>1. Standing
  BY DEF RefereeInv
<1>2. CASE create_robust_data(t)
  <2>1. at[t] \in {"queued", "idle"} /\ GETROBUST \in Asked(t) /\ Send(t, GETROBUST) /\ todo' = todo
    BY <1>2 DEF create_robust_data, Asked
  <2>2. /\ Good(srv, {}, None)' /\ (OneTimedThread => OneTimed(srv, {}))'
        /\ at' \in [Thread -> Places] /\ req' = [v \in Thread |-> req'[v]]
        /\ accepted' = accepted /\ now' = now
    BY <2>1, SendKeeps
  <2>3. Standing'
    BY <1>1, <2>1, <2>2 DEF Standing
  <2> QED
    BY <2>2, <2>3 DEF RefereeInv
<1>3. CASE Request(t)
  <2> DEFINE q == todo[t]
             m == Head(q)
  <2>1. at[t] \in {"queued", "idle"} /\ q # <<>> /\ Send(t, m) /\ todo' = [todo EXCEPT ![t] = Tail(q)]
    BY <1>3 DEF Request
  <2>2. q \in Seq(Asked(t))
    BY <1>1 DEF Standing
  <2>3. m \in Asked(t) /\ Tail(q) \in Seq(Asked(t))
    <3> HIDE DEF q
    <3> QED
      BY <2>1, <2>2
  <2> HIDE DEF m
  <2>4. /\ Good(srv, {}, None)' /\ (OneTimedThread => OneTimed(srv, {}))'
        /\ at' \in [Thread -> Places] /\ req' = [v \in Thread |-> req'[v]]
        /\ accepted' = accepted /\ now' = now
    BY <2>1, <2>3, SendKeeps
  <2>5. DOMAIN todo' = Thread /\ \A v \in Thread : todo'[v] \in Seq(Asked(v))
    <3> DEFINE r == Tail(q)
    <3> HIDE DEF r
    <3>1. todo' = [todo EXCEPT ![t] = r] /\ r \in Seq(Asked(t))
      BY <2>1, <2>3 DEF r
    <3> QED
      BY <1>1, <3>1 DEF Standing
  <2>6. Standing'
    BY <1>1, <2>4, <2>5 DEF Standing, Asked
  <2> QED
    BY <2>4, <2>6 DEF RefereeInv
<1> QED
  BY <1>2, <1>3

\* The answer is received.
LEMMA ReceiveKeeps ==
    ASSUME RefereeInv, NEW t \in Thread, Receive(t)
    PROVE  RefereeInv'
<1>1. /\ Standing /\ Good(srv, {}, None) /\ (OneTimedThread => OneTimed(srv, {}))
      /\ Phase(srv, t, {}, None) /\ t # None /\ Memory(srv) /\ Counted(srv, t, None)
  BY Names DEF RefereeInv, Good
<1>2. /\ at[t] = "transact" /\ srv.sent[t] # NoMsg /\ Goto(t, "idle") /\ "idle" \in Places
      /\ srv' = [srv EXCEPT !.sent[t] = NoMsg]
      /\ UNCHANGED <<todo, req, accepted, pipe, now>>
  BY DEF Receive, Places
<1>3. /\ at' \in [Thread -> Places] /\ at'[t] = "idle"
      /\ \A v \in Thread : v # t => at'[v] = at[v]
  BY <1>1, <1>2, Goes
<1>4. /\ srv = [f \in Fields |-> srv[f]] /\ srv.sent = [v \in Thread |-> srv.sent[v]]
  BY <1>1 DEF Memory
<1>5. /\ srv' = [f \in Fields |-> srv'[f]]
      /\ srv'.locks = srv.locks /\ srv'.node = srv.node /\ srv'.tc = srv.tc
      /\ srv'.apc = srv.apc /\ srv'.num_thread_client = srv.num_thread_client
      /\ srv'.quit = srv.quit /\ srv'.crashed = srv.crashed
      /\ srv'.sent = [srv.sent EXCEPT ![t] = NoMsg]
  BY <1>2, <1>4 DEF Fields
<1>6. /\ srv'.sent[t] = NoMsg /\ srv'.sent = [v \in Thread |-> srv'.sent[v]]
      /\ \A v \in Thread : v # t => srv'.sent[v] = srv.sent[v]
  BY <1>4, <1>5
<1>7. Memory(srv')
  BY <1>1, <1>5, <1>6 DEF Memory
<1>8. /\ t \in accepted => Reading(srv, t, None) /\ Serving(srv.tc[t])
      /\ req[t] = NoMsg /\ ~IsAsleep(srv.locks, t) /\ pipe # t
      /\ t \notin accepted => ~srv.tc[t].live
  BY <1>1, <1>2 DEF Phase
<1>9. \A v \in Thread : v # t => SameClient(srv', srv, v) /\ Steady(v)
  BY <1>2, <1>3, <1>5, <1>6 DEF SameClient, Steady
<1>10. \A v \in Thread : v # t => Counted(srv, v, None)' /\ Phase(srv, v, {}, None)'
  BY <1>1, <1>9, Elsewhere
<1>11. Counted(srv', t, None)
  BY <1>1, <1>5 DEF Counted, Reading, Pending
<1>12. Phase(srv, t, {}, None)'
  <2>1. t \in accepted => Reading(srv', t, None)
    BY <1>5, <1>8 DEF Reading
  <2> QED
    BY <1>2, <1>3, <1>5, <1>6, <1>8, <2>1 DEF Phase
<1>13. LiveIn(srv') = LiveIn(srv)
  BY <1>5 DEF LiveIn
<1>14. Good(srv, {}, None)'
  BY <1>1, <1>5, <1>7, <1>10, <1>11, <1>12, <1>13 DEF Good
<1>15. (OneTimedThread => OneTimed(srv, {}))'
  BY <1>1, <1>5 DEF OneTimedThread, OneTimed, TimedThread
<1>16. Standing'
  BY <1>1, <1>2, <1>3 DEF Standing
<1> QED
  BY <1>14, <1>15, <1>16 DEF RefereeInv

\* A transaction fails: the server ended before it accepted the connection, or
\* has given up.
LEMMA FailKeeps ==
    ASSUME RefereeInv, NEW t \in Thread, TransactFails(t)
    PROVE  RefereeInv'
<1>1. /\ Standing /\ Good(srv, {}, None) /\ (OneTimedThread => OneTimed(srv, {}))
      /\ Phase(srv, t, {}, None)
  BY DEF RefereeInv, Good
<1>2. /\ at[t] = "transact" /\ pipe # t /\ ~srv.tc[t].live /\ Goto(t, "abort") /\ "abort" \in Places
      /\ srv.sent[t] = NoMsg /\ UNCHANGED <<todo, req, accepted, pipe, srv, now>>
  BY DEF TransactFails, Places
<1>3. /\ at' \in [Thread -> Places] /\ at'[t] = "abort"
      /\ \A v \in Thread : v # t => at'[v] = at[v]
  BY <1>1, <1>2, Goes
<1>4. t \notin accepted
  BY <1>1, <1>2 DEF Phase, Serving
<1>5. \A v \in Thread : v # t => Steady(v)
  BY <1>2, <1>3 DEF Steady
<1>6. Phase(srv, t, {}, None)'
  BY <1>1, <1>2, <1>3, <1>4 DEF Phase
<1>7. Good(srv, {}, None)'
  BY <1>1, <1>2, <1>5, <1>6, Moves
<1>8. (OneTimedThread => OneTimed(srv, {}))'
  BY <1>1, <1>2 DEF OneTimedThread, OneTimed, TimedThread
<1>9. Standing'
  BY <1>1, <1>2, <1>3 DEF Standing
<1> QED
  BY <1>7, <1>8, <1>9 DEF RefereeInv

\* A thread ends between two transactions: the pending read fails.
LEMMA DisconnectKeeps ==
    ASSUME RefereeInv, ~DiesAnywhere, NEW t \in Thread, Disconnect(t)
    PROVE  RefereeInv'
<1>1. /\ Standing /\ Good(srv, {}, None) /\ (OneTimedThread => OneTimed(srv, {}))
      /\ Phase(srv, t, {}, None) /\ t # None /\ Memory(srv) /\ Counted(srv, t, None)
  BY Names DEF RefereeInv, Good
<1>2. /\ at[t] \in {"idle", "queued"} /\ Goto(t, "gone") /\ "gone" \in Places
      /\ UNCHANGED <<todo, req, accepted, pipe, now>>
  BY DEF Disconnect, Places
<1>3. /\ at' \in [Thread -> Places] /\ at'[t] = "gone"
      /\ \A v \in Thread : v # t => at'[v] = at[v]
  BY <1>1, <1>2, Goes
<1>4. req[t] = NoMsg /\ srv.sent[t] = NoMsg /\ ~IsAsleep(srv.locks, t)
  BY <1>1, <1>2 DEF Phase
<1>5. Standing'
  BY <1>1, <1>2, <1>3 DEF Standing
<1>6. \A v \in Thread : v # t => Steady(v)
  BY <1>2, <1>3 DEF Steady
<1>7. CASE srv.tc[t].reading
  <2>1. srv' = Reads1(srv, t, NoMsg) /\ NoMsg \in Asked(t) \cup {NoMsg}
    BY <1>7 DEF Disconnect, Reads1, ReadDone
  <2>2. /\ t \in accepted
        /\ Memory(srv') /\ SameSleep(srv', srv)
        /\ srv'.num_thread_client = Cardinality(LiveIn(srv'))
        /\ srv'.quit => LiveIn(srv') = {}
        /\ \A v \in Thread : v # t => SameClient(srv', srv, v)
        /\ Counted(srv', t, None)
        /\ ~srv'.tc[t].reading
        /\ srv'.sent = srv.sent
        /\ Leaving(srv'.apc, t) <=> NoMsg = NoMsg
    BY <1>1, <1>7, <2>1, ReadCompletes
  <2>3. \A v \in Thread : v # t => Counted(srv, v, None)' /\ Phase(srv, v, {}, None)'
    BY <1>1, <1>6, <2>2, Elsewhere
  <2>4. Phase(srv, t, {}, None)'
    <3>1. ~Reading(srv', t, None) /\ srv'.locks = srv.locks
      BY <1>1, <2>2 DEF Reading, SameSleep
    <3> QED
      BY <1>1, <1>2, <1>3, <1>4, <2>2, <3>1 DEF Phase
  <2>5. Good(srv, {}, None)'
    BY <2>2, <2>3, <2>4 DEF Good
  <2>6. (OneTimedThread => OneTimed(srv, {}))'
    BY <1>1, <2>2, SameTimed DEF OneTimedThread, TimedThread
  <2> QED
    BY <1>5, <2>5, <2>6 DEF RefereeInv
<1>8. CASE ~srv.tc[t].reading
  <2>1. srv' = srv
    BY <1>8 DEF Disconnect
  <2>2. ~Reading(srv, t, None)
    BY <1>1, <1>8 DEF Reading
  <2>3. t \notin accepted /\ ~srv.tc[t].live
    BY <1>1, <1>2, <2>2 DEF Phase
  <2>4. Leaving(srv.apc, t)
    <3>1. srv.apc \in Seq(Completion)
      BY <1>1 DEF Memory
    <3>2. NR(srv.apc, t) \in Nat /\ NW(srv.apc, t) \in Nat
      BY <3>1, Counts
    <3>3. srv.tc[t].num_pending_request = 0
      BY <1>1, <2>3 DEF Counted, NoClient
    <3>4. NR(srv.apc, t) = 0
      BY <1>1, <2>2, <3>2, <3>3 DEF Counted, Pending
    <3>5. Reads(srv.apc, t) = {}
      BY <3>1, <3>4, Counts
    <3> QED
      BY <3>5 DEF Leaving
  <2>5. Phase(srv, t, {}, None)'
    BY <1>1, <1>2, <1>3, <1>4, <2>1, <2>2, <2>3, <2>4 DEF Phase
  <2>6. Good(srv, {}, None)'
    BY <1>1, <1>6, <2>1, <2>5, Moves
  <2>7. (OneTimedThread => OneTimed(srv, {}))'
    BY <1>1, <2>1 DEF OneTimedThread, OneTimed, TimedThread
  <2> QED
    BY <1>5, <2>6, <2>7 DEF RefereeInv
<1> QED
  BY <1>7, <1>8

-----------------------------------------------------------------------------
(***************************************************************************)
(* The steps of the server                                                 *)
(***************************************************************************)
\* A client that has just been made.
Fresh == [NoClient EXCEPT !.live = TRUE]

\* The fields of an absent and of a new client.
LEMMA FreshIs ==
    /\ NoClient \in ClientRec /\ Fresh \in ClientRec
    /\ Fresh.live = TRUE /\ Fresh.being_destroyed = FALSE
    /\ Fresh.num_pending_request = 0 /\ Fresh.deadline = NoTimeout
<1>1. NoTimeout \in Int
  BY RefereeAssumption DEF NoTimeout
<1>2. NoClient \in ClientRec
  BY <1>1 DEF NoClient, ClientRec
<1>3. /\ NoClient.being_destroyed = FALSE /\ NoClient.num_pending_request = 0
      /\ NoClient.deadline = NoTimeout
  BY DEF NoClient
<1> QED
  BY <1>2, <1>3 DEF Fresh, ClientRec

\* The memory when the client has been made, and once its first read is queued.
Making(s, t) == update_thread_count([s EXCEPT !.tc[t].live = TRUE], 1)

\* The memory after thread_client_create().
LEMMA ClientMade ==
    ASSUME NEW s, Memory(s), NEW t \in Thread, s.tc[t] = NoClient
    PROVE  /\ Making(s, t) = [f \in Fields |-> Making(s, t)[f]]
           /\ Making(s, t).locks = s.locks /\ Making(s, t).node = s.node
           /\ Making(s, t).apc = s.apc
           /\ Making(s, t).num_thread_client = s.num_thread_client + 1
           /\ Making(s, t).quit = (s.num_thread_client + 1 = 0)
           /\ Making(s, t).sent = s.sent /\ Making(s, t).crashed = s.crashed
           /\ Making(s, t).tc = [s.tc EXCEPT ![t] = Fresh]
           /\ Making(s, t).tc[t] = Fresh
<1> DEFINE z == [s EXCEPT !.tc[t].live = TRUE]
           y == Making(s, t)
<1>1. s = [f \in Fields |-> s[f]] /\ s.tc \in [Thread -> ClientRec]
  BY DEF Memory
<1>2. /\ z = [f \in Fields |-> z[f]]
      /\ z.locks = s.locks /\ z.node = s.node /\ z.apc = s.apc
      /\ z.num_thread_client = s.num_thread_client
      /\ z.sent = s.sent /\ z.crashed = s.crashed
      /\ z.tc = [s.tc EXCEPT ![t] = Fresh]
  BY <1>1 DEF Fields, Fresh
<1> HIDE DEF z
<1>3. /\ y = [f \in Fields |-> y[f]]
      /\ y.locks = z.locks /\ y.node = z.node /\ y.apc = z.apc
      /\ y.num_thread_client = z.num_thread_client + 1
      /\ y.quit = (z.num_thread_client + 1 = 0)
      /\ y.sent = z.sent /\ y.crashed = z.crashed
      /\ y.tc = z.tc
  BY <1>2 DEF Fields, update_thread_count, Making, z
<1> HIDE DEF y
<1>4. y.tc[t] = Fresh
  BY <1>1, <1>2, <1>3
<1> QED
  BY <1>2, <1>3, <1>4 DEF y, z

\* Memory x is memory s with a client for thread t, which reads.
Registered(x, s, t) ==
    /\ x = [f \in Fields |-> x[f]]
    /\ x.locks = s.locks /\ x.node = s.node
    /\ x.apc = IF req[t] = NoMsg THEN s.apc ELSE Append(s.apc, ReadDone(t, req[t]))
    /\ x.num_thread_client = s.num_thread_client + 1
    /\ x.quit = (s.num_thread_client + 1 = 0)
    /\ x.sent = s.sent /\ x.crashed = s.crashed
    /\ x.tc \in [Thread -> ClientRec]
    /\ \A v \in Thread : v # t => x.tc[v] = s.tc[v]
    /\ x.tc[t].live = TRUE /\ x.tc[t].being_destroyed = FALSE
    /\ x.tc[t].reading = (req[t] = NoMsg)
    /\ x.tc[t].num_pending_request = 1 /\ x.tc[t].deadline = NoTimeout

\* The connection of a thread that has not left is accepted with a read.
LEMMA ClientReads ==
    ASSUME NEW s, Memory(s), NEW t \in Thread, s.tc[t] = NoClient,
           Connected(t) \/ req[t] # NoMsg
    PROVE  Registered(thread_client_queue_read(Making(s, t), t), s, t)
<1> DEFINE y == Making(s, t)
           x == thread_client_queue_read(y, t)
           b == (req[t] = NoMsg)
           e == [Fresh EXCEPT !.num_pending_request = @ + 1]
           d == [e EXCEPT !.reading = b]
           tc1 == [y.tc EXCEPT ![t] = e]
<1>1. /\ y = [f \in Fields |-> y[f]]
      /\ y.locks = s.locks /\ y.node = s.node /\ y.apc = s.apc
      /\ y.num_thread_client = s.num_thread_client + 1
      /\ y.quit = (s.num_thread_client + 1 = 0)
      /\ y.sent = s.sent /\ y.crashed = s.crashed
      /\ y.tc = [s.tc EXCEPT ![t] = Fresh] /\ y.tc[t] = Fresh
  BY ClientMade
<1> HIDE DEF y
<1>2. s.tc \in [Thread -> ClientRec] /\ b \in BOOLEAN
  BY DEF Memory
<1>3. x = [y EXCEPT !.tc[t].num_pending_request = @ + 1,
                    !.tc[t].reading = b,
                    !.apc = IF b THEN @
                            ELSE Append(@, [op |-> "read", tc |-> t, msg |-> req[t]])]
  BY <1>1, FreshIs DEF thread_client_queue_read
<1>4. /\ x = [f \in Fields |-> x[f]]
      /\ x.locks = y.locks /\ x.node = y.node
      /\ x.apc = IF req[t] = NoMsg THEN y.apc ELSE Append(y.apc, ReadDone(t, req[t]))
      /\ x.num_thread_client = y.num_thread_client /\ x.quit = y.quit
      /\ x.sent = y.sent /\ x.crashed = y.crashed
  BY <1>1, <1>3 DEF Fields, ReadDone
<1>5. DOMAIN y.tc = Thread /\ DOMAIN y = Fields
  BY <1>1, <1>2
<1>6. x.tc = [[y.tc EXCEPT ![t].num_pending_request = @ + 1] EXCEPT ![t].reading = b]
  <2> HIDE DEF b
  <2> QED
    BY <1>3, <1>5 DEF Fields
<1>7. [y.tc EXCEPT ![t].num_pending_request = @ + 1] = tc1
  BY <1>1
<1> HIDE DEF x, b
<1>8. /\ e \in ClientRec /\ e.live = TRUE /\ e.being_destroyed = FALSE
      /\ e.num_pending_request = 1 /\ e.deadline = NoTimeout
  BY FreshIs DEF ClientRec
<1> HIDE DEF e
<1>9. /\ d \in ClientRec /\ d.live = TRUE /\ d.being_destroyed = FALSE /\ d.reading = b
      /\ d.num_pending_request = 1 /\ d.deadline = NoTimeout
  BY <1>2, <1>8 DEF ClientRec
<1>10. tc1[t] = e /\ DOMAIN tc1 = Thread /\ \A v \in Thread : v # t => tc1[v] = s.tc[v]
  BY <1>1, <1>2, <1>5
<1>11. x.tc = [tc1 EXCEPT ![t].reading = b]
  BY <1>6, <1>7
<1> HIDE DEF tc1
<1>12. x.tc = [tc1 EXCEPT ![t] = d]
  BY <1>10, <1>11
<1> HIDE DEF d
<1>13. x.tc[t] = d /\ DOMAIN x.tc = Thread /\ \A v \in Thread : v # t => x.tc[v] = s.tc[v]
  BY <1>10, <1>12
<1>14. x.tc \in [Thread -> ClientRec]
  <2>1. \A v \in Thread : x.tc[v] \in ClientRec
    BY <1>2, <1>9, <1>13
  <2>2. x.tc = [v \in Thread |-> x.tc[v]]
    BY <1>12, <1>13
  <2> QED
    BY <2>1, <2>2
<1> QED
  BY <1>1, <1>4, <1>9, <1>13, <1>14 DEF x, y, b, Registered

\* The client of a thread that has left is made and freed at once.
LEMMA ClientGoes ==
    ASSUME NEW s, Memory(s), NEW t \in Thread, s.tc[t] = NoClient,
           ~Connected(t), req[t] = NoMsg
    PROVE  LET x == thread_client_queue_read(Making(s, t), t) IN
           /\ x = [f \in Fields |-> x[f]]
           /\ x.locks = s.locks /\ x.node = s.node /\ x.apc = s.apc
           /\ x.num_thread_client = s.num_thread_client
           /\ x.quit = (s.num_thread_client = 0)
           /\ x.sent = s.sent /\ x.crashed = s.crashed /\ x.tc = s.tc
<1> DEFINE y == Making(s, t)
           z == [y EXCEPT !.tc[t] = NoClient]
           x == thread_client_queue_read(y, t)
<1>1. /\ y = [f \in Fields |-> y[f]]
      /\ y.locks = s.locks /\ y.node = s.node /\ y.apc = s.apc
      /\ y.num_thread_client = s.num_thread_client + 1
      /\ y.sent = s.sent /\ y.crashed = s.crashed
      /\ y.tc = [s.tc EXCEPT ![t] = Fresh] /\ y.tc[t] = Fresh
  BY ClientMade
<1> HIDE DEF y
<1>2. s.tc \in [Thread -> ClientRec] /\ s.num_thread_client \in Int
  BY DEF Memory
<1>3. x = thread_client_destroy(y, t)
  BY <1>1, FreshIs DEF thread_client_queue_read
<1>4. x = [z EXCEPT !.num_thread_client = @ + (-1), !.quit = z.num_thread_client + (-1) = 0]
  BY <1>1, <1>3, FreshIs DEF thread_client_destroy, update_thread_count
<1>5. /\ z = [f \in Fields |-> z[f]]
      /\ z.locks = y.locks /\ z.node = y.node /\ z.tc = [y.tc EXCEPT ![t] = NoClient]
      /\ z.apc = y.apc /\ z.num_thread_client = y.num_thread_client
      /\ z.sent = y.sent /\ z.crashed = y.crashed
  BY <1>1 DEF Fields
<1> HIDE DEF z
<1>6. /\ x = [f \in Fields |-> x[f]]
      /\ x.locks = z.locks /\ x.node = z.node /\ x.tc = z.tc
      /\ x.apc = z.apc /\ x.num_thread_client = z.num_thread_client + (-1)
      /\ x.quit = (z.num_thread_client + (-1) = 0)
      /\ x.sent = z.sent /\ x.crashed = z.crashed
  BY <1>4, <1>5 DEF Fields
<1> HIDE DEF x
<1>7. x.tc = s.tc
  <2>1. z.tc = [s.tc EXCEPT ![t] = NoClient]
    BY <1>1, <1>2, <1>5
  <2>2. [s.tc EXCEPT ![t] = NoClient] = s.tc
    BY <1>2
  <2> QED
    BY <1>6, <2>1, <2>2
<1>8. x.num_thread_client = s.num_thread_client /\ x.quit = (s.num_thread_client = 0)
  <2>1. z.num_thread_client + (-1) = s.num_thread_client
    BY <1>1, <1>2, <1>5
  <2> QED
    BY <1>6, <2>1
<1> QED
  BY <1>1, <1>5, <1>6, <1>7, <1>8 DEF x, y

\* handle_new_connection().
LEMMA ConnectionKeeps ==
    ASSUME RefereeInv, handle_new_connection
    PROVE  RefereeInv'
<1>0. PICK t \in Thread : t = pipe
  BY DEF handle_new_connection
<1> DEFINE x == thread_client_queue_read(Making(srv, t), t)
<1>1. /\ t \in Thread /\ t = pipe /\ srv' = x
      /\ req' = [req EXCEPT ![t] = NoMsg] /\ accepted' = accepted \cup {t}
      /\ pipe' = "listening" /\ UNCHANGED <<at, todo, now>>
  BY <1>0 DEF handle_new_connection, Making
<1>2. /\ Standing /\ Good(srv, {}, None) /\ (OneTimedThread => OneTimed(srv, {}))
      /\ Phase(srv, t, {}, None) /\ t # None /\ Memory(srv) /\ Counted(srv, t, None)
      /\ srv.num_thread_client = Cardinality(LiveIn(srv)) /\ (srv.quit => LiveIn(srv) = {})
  BY <1>1, Names DEF RefereeInv, Good
<1>3. /\ t \notin accepted /\ at[t] \in {"queued", "transact", "gone"}
      /\ ~srv.tc[t].live /\ srv.tc[t] = NoClient
      /\ srv.sent[t] = NoMsg /\ ~IsAsleep(srv.locks, t)
      /\ at[t] # "transact" => req[t] = NoMsg
      /\ at[t] = "transact" => req[t] \in Asked(t)
  BY <1>1, <1>2 DEF Phase, Counted
<1>4. /\ srv.apc \in Seq(Completion) /\ srv.tc \in [Thread -> ClientRec]
      /\ srv.num_thread_client \in Int /\ IsFiniteSet(LiveIn(srv)) /\ srv.num_thread_client \in Nat
  <2>1. LiveIn(srv) \subseteq Thread /\ IsFiniteSet(Thread)
    BY RefereeAssumption DEF LiveIn
  <2>2. IsFiniteSet(LiveIn(srv))
    BY <2>1, FS_Subset
  <2>3. Cardinality(LiveIn(srv)) \in Nat
    BY <2>2, FS_CardinalityType
  <2> QED
    BY <1>2, <2>2, <2>3 DEF Memory
<1>5. NR(srv.apc, t) = 0 /\ NW(srv.apc, t) = 0 /\ Reads(srv.apc, t) = {}
  <2>1. NR(srv.apc, t) \in Nat /\ NW(srv.apc, t) \in Nat
    BY <1>4, Counts
  <2>2. srv.tc[t].num_pending_request = 0 /\ ~srv.tc[t].reading
    BY <1>3 DEF NoClient
  <2>3. Pending(srv, t, None) = 0 /\ ~Reading(srv, t, None)
    BY <1>2, <2>2 DEF Pending, Reading
  <2>4. NR(srv.apc, t) = 0 /\ NW(srv.apc, t) = 0
    BY <1>2, <2>1, <2>3 DEF Counted
  <2> QED
    BY <1>4, <2>4, Counts
<1>6. /\ req' = [v \in Thread |-> req'[v]] /\ req'[t] = NoMsg
      /\ \A v \in Thread : v # t => req'[v] = req[v]
  BY <1>1, <1>2 DEF Standing
<1>7. Standing'
  BY <1>1, <1>2, <1>6 DEF Standing
<1>8. \A v \in Thread : v # t => Steady(v)
  BY <1>1, <1>6, Names DEF Steady
<1>9. CASE at[t] = "gone"
  <2>1. ~Connected(t) /\ req[t] = NoMsg
    BY <1>3, <1>9 DEF Connected
  <2>2. /\ srv' = [f \in Fields |-> srv'[f]]
        /\ srv'.locks = srv.locks /\ srv'.node = srv.node /\ srv'.apc = srv.apc
        /\ srv'.num_thread_client = srv.num_thread_client
        /\ srv'.quit = (srv.num_thread_client = 0)
        /\ srv'.sent = srv.sent /\ srv'.crashed = srv.crashed /\ srv'.tc = srv.tc
    BY <1>1, <1>2, <1>3, <2>1, ClientGoes
  <2>3. LiveIn(srv') = LiveIn(srv)
    BY <2>2 DEF LiveIn
  <2>4. srv'.quit => LiveIn(srv') = {}
    BY <1>2, <1>4, <2>2, <2>3, FS_EmptySet
  <2>5. Memory(srv')
    BY <1>2, <2>2 DEF Memory
  <2>6. \A v \in Thread : v # t => SameClient(srv', srv, v)
    BY <2>2 DEF SameClient
  <2>7. \A v \in Thread : v # t => Counted(srv, v, None)' /\ Phase(srv, v, {}, None)'
    BY <1>2, <1>8, <2>6, Elsewhere
  <2>8. Counted(srv', t, None) /\ ~Reading(srv', t, None)
    BY <1>2, <1>3, <2>2 DEF Counted, Reading, Pending, NoClient
  <2>9. Leaving(srv'.apc, t)
    BY <1>5, <2>2 DEF Leaving
  <2>10. Phase(srv, t, {}, None)'
    <3>1. pipe' # t /\ t \in accepted' /\ at'[t] = "gone"
      BY <1>1, <1>9, Names
    <3> QED
      BY <1>3, <1>6, <2>2, <2>8, <2>9, <3>1 DEF Phase
  <2>11. Good(srv, {}, None)'
    BY <1>1, <1>2, <2>2, <2>3, <2>4, <2>5, <2>7, <2>8, <2>10 DEF Good
  <2>12. (OneTimedThread => OneTimed(srv, {}))'
    BY <1>2, <2>2 DEF OneTimedThread, OneTimed, TimedThread
  <2> QED
    BY <1>7, <2>11, <2>12 DEF RefereeInv
<1>10. CASE at[t] # "gone"
  <2> DEFINE m == req[t]
             b == (m = NoMsg)
             c == srv'.tc[t]
  <2>1. Connected(t) /\ (b <=> at[t] = "queued") /\ (~b => m \in Asked(t)) /\ b \in BOOLEAN
    <3>1. at[t] = "transact" => req[t] # NoMsg
      BY <1>1, <1>3, AskedIs
    <3> QED
      BY <1>3, <1>10, <3>1 DEF Connected
  <2>2. /\ srv' = [f \in Fields |-> srv'[f]]
        /\ srv'.locks = srv.locks /\ srv'.node = srv.node
        /\ srv'.apc = IF b THEN srv.apc ELSE Append(srv.apc, ReadDone(t, m))
        /\ srv'.num_thread_client = srv.num_thread_client + 1
        /\ srv'.quit = (srv.num_thread_client + 1 = 0)
        /\ srv'.sent = srv.sent /\ srv'.crashed = srv.crashed
        /\ srv'.tc \in [Thread -> ClientRec]
        /\ \A v \in Thread : v # t => srv'.tc[v] = srv.tc[v]
        /\ c.live = TRUE /\ c.being_destroyed = FALSE
        /\ c.reading = b
        /\ c.num_pending_request = 1 /\ c.deadline = NoTimeout
    <3>1. Memory(srv) /\ srv.tc[t] = NoClient /\ Connected(t)
      BY <1>2, <1>3, <2>1
    <3>2. Registered(x, srv, t)
      BY <3>1, ClientReads
    <3>3. srv' = x
      BY <1>1
    <3> HIDE DEF x
    <3> QED
      BY <3>2, <3>3 DEF Registered
  <2> HIDE DEF m, b
  <2>3. ASSUME NEW v
        PROVE  /\ srv'.apc \in Seq(Completion)
               /\ NR(srv'.apc, v) = IF v = t /\ ~b THEN NR(srv.apc, v) + 1 ELSE NR(srv.apc, v)
               /\ NW(srv'.apc, v) = NW(srv.apc, v)
               /\ v # t => /\ Asking(srv'.apc, v) <=> Asking(srv.apc, v)
                           /\ Leaving(srv'.apc, v) <=> Leaving(srv.apc, v)
               /\ v = t => Asking(srv'.apc, v)
    <3>1. CASE b
      <4>1. srv'.apc = srv.apc
        BY <2>2, <3>1
      <4> QED
        BY <1>4, <1>5, <3>1, <4>1 DEF Asking
    <3>2. CASE ~b
      <4> DEFINE a == srv.apc
                 d == srv'.apc
      <4>1. a \in Seq(Completion) /\ d = Append(a, ReadDone(t, m)) /\ t \in Thread
            /\ m \in Asked(t) \cup {NoMsg} /\ m # NoMsg /\ NR(a, t) = 0
        BY <1>1, <1>4, <1>5, <2>1, <2>2, <3>2 DEF b
      <4> HIDE DEF a, d
      <4>2. /\ d \in Seq(Completion)
            /\ NR(d, v) = IF v = t THEN NR(a, v) + 1 ELSE NR(a, v)
            /\ NW(d, v) = NW(a, v)
            /\ v # t => (Asking(d, v) <=> Asking(a, v)) /\ (Leaving(d, v) <=> Leaving(a, v))
            /\ v = t /\ NR(a, v) = 0 => (Asking(d, v) <=> m # NoMsg)
        BY <4>1, AfterRead
      <4> QED
        BY <3>2, <4>1, <4>2 DEF a, d
    <3> QED
      BY <3>1, <3>2
  <2>4. srv'.num_thread_client \in Int /\ srv'.quit = FALSE
    <3>1. srv.num_thread_client + 1 \in Int /\ ~(srv.num_thread_client + 1 = 0)
      BY <1>4
    <3> QED
      BY <2>2, <3>1
  <2>5. Memory(srv')
    <3>1. LocksOK(srv.locks) /\ srv.node \in Linkage /\ srv.sent = [v \in Thread |-> srv.sent[v]] /\ srv.crashed = FALSE
      BY <1>2 DEF Memory
    <3> QED
      BY <2>2, <2>3, <2>4, <3>1 DEF Memory
  <2>6. srv'.num_thread_client = Cardinality(LiveIn(srv'))
    <3>1. t \notin LiveIn(srv) /\ LiveIn(srv') = LiveIn(srv) \cup {t}
      BY <1>1, <1>3, <2>2 DEF LiveIn
    <3>2. Cardinality(LiveIn(srv')) = Cardinality(LiveIn(srv)) + 1
      BY <1>4, <3>1, FS_AddElement
    <3> QED
      BY <1>2, <2>2, <3>2
  <2>7. \A v \in Thread : v # t => SameClient(srv', srv, v)
    BY <2>2, <2>3 DEF SameClient
  <2>8. \A v \in Thread : v # t => Counted(srv, v, None)' /\ Phase(srv, v, {}, None)'
    BY <1>2, <1>8, <2>7, Elsewhere
  <2>9. (Reading(srv', t, None) <=> b) /\ Pending(srv', t, None) = 1 /\ Serving(c)
    BY <1>2, <2>1, <2>2 DEF Reading, Pending, Serving
  <2>10. Counted(srv', t, None)
    <3>1. NR(srv'.apc, t) = (IF b THEN 0 ELSE 1) /\ NW(srv'.apc, t) = 0
      BY <1>5, <2>3
    <3>2. NoTimeout >= MaxNow
      BY RefereeAssumption DEF NoTimeout
    <3> QED
      BY <2>2, <2>9, <3>1, <3>2 DEF Counted
  <2>11. Phase(srv, t, {}, None)'
    <3>1. /\ pipe' # t /\ t \in accepted' /\ at'[t] = at[t] /\ at[t] \in {"queued", "transact"}
          /\ req'[t] = NoMsg /\ srv'.sent[t] = NoMsg /\ ~IsAsleep(srv'.locks, t)
          /\ Asking(srv'.apc, t)
      BY <1>1, <1>3, <1>6, <1>10, <2>2, <2>3, Names
    <3>2. at[t] = "transact" => ~Reading(srv', t, None)
      BY <2>1, <2>9
    <3>3. at[t] = "queued" => Reading(srv', t, None)
      BY <2>1, <2>9
    <3> QED
      BY <2>9, <3>1, <3>2, <3>3 DEF Phase
  <2>12. Good(srv, {}, None)'
    BY <2>4, <2>5, <2>6, <2>8, <2>10, <2>11 DEF Good
  <2>13. SameSleep(srv', srv)
    <3>1. srv.tc[t].deadline = NoTimeout
      BY <1>3 DEF NoClient
    <3> QED
      BY <2>2, <3>1 DEF SameSleep
  <2>14. (OneTimedThread => OneTimed(srv, {}))'
    BY <1>2, <2>13, SameTimed DEF OneTimedThread, TimedThread
  <2> QED
    BY <1>7, <2>12, <2>14 DEF RefereeInv
<1> QED
  BY <1>9, <1>10

\* A server that has just started: nobody is known, nothing is pending.
Started(x) ==
    /\ Memory(x) /\ OneTimed(x, {})
    /\ x.num_thread_client = Cardinality(LiveIn(x)) /\ x.quit = FALSE
    /\ \A t \in Thread : /\ Counted(x, t, None) /\ x.tc[t] = NoClient
                         /\ Reads(x.apc, t) = {} /\ ~IsAsleep(x.locks, t)

\* The empty sequence.
LEMMA EmptyIs == DOMAIN <<>> = {} /\ \A X : <<>> \in Seq(X)
<1>1. \A X : <<>> \in Seq(X)
  OBVIOUS
<1>2. \A i \in DOMAIN <<>> : FALSE
  <2>1. DOMAIN <<>> = 1 .. 0
    <3> DEFINE s == <<>>
    <3>1. s \in Seq({}) /\ Len(s) = 0
      OBVIOUS
    <3> HIDE DEF s
    <3>2. DOMAIN s = 1 .. 0
      BY <3>1
    <3> QED
      BY <3>2 DEF s
  <2> QED
    BY <2>1
<1> QED
  BY <1>1, <1>2

Starting(x) ==
    /\ x = [f \in Fields |-> x[f]] /\ x.locks = <<>>
    /\ x.node = [v \in Thread \cup {Head0} |-> Unlinked]
    /\ x.tc = [t \in Thread |-> NoClient] /\ x.apc = <<>>
    /\ x.num_thread_client = 0 /\ x.quit = FALSE /\ x.crashed = FALSE
    /\ x.sent = [t \in Thread |-> x.sent[t]]

\* A server that starts has no client, no lock and nothing pending.
LEMMA Starts ==
    ASSUME NEW x, Starting(x)
    PROVE  Started(x)
<1>1. /\ x = [f \in Fields |-> x[f]] /\ x.locks = <<>>
      /\ x.node = [v \in Thread \cup {Head0} |-> Unlinked]
      /\ x.tc = [t \in Thread |-> NoClient] /\ x.apc = <<>>
      /\ x.num_thread_client = 0 /\ x.quit = FALSE /\ x.crashed = FALSE
      /\ x.sent = [t \in Thread |-> x.sent[t]]
  BY DEF Starting
<1>2. x.node = NoneLinked /\ NoneLinked \in Linkage
  <2>1. Unlinked \in LinkRec
    BY DEF Unlinked, LinkRec
  <2> QED
    BY <1>1, <2>1 DEF NoneLinked, Nodes, Linkage
<1>3. LocksOK(x.locks) /\ \A t : ~IsAsleep(x.locks, t)
  <2>1. x.locks \in Seq(EntryRec) /\ DOMAIN x.locks = {}
    BY <1>1, EmptyIs
  <2> QED
    BY <2>1 DEF LocksOK, Sorted, OnceQueued, IsAsleep
<1>4. x.apc \in Seq(Completion) /\ \A t : Reads(x.apc, t) = {} /\ Writes(x.apc, t) = {}
  <2>1. x.apc \in Seq(Completion) /\ DOMAIN x.apc = {}
    BY <1>1, EmptyIs
  <2> QED
    BY <2>1 DEF Reads, Writes
<1>5. x.tc \in [Thread -> ClientRec] /\ \A t \in Thread : x.tc[t] = NoClient
  BY <1>1, FreshIs
<1>6. Memory(x)
  <2>1. x.num_thread_client \in Int /\ x.quit \in BOOLEAN /\ x.node \in Linkage
    <3>1. x.num_thread_client = 0 /\ x.quit = FALSE
      BY <1>1
    <3>2. x.node \in Linkage
      BY <1>2
    <3>3. x.num_thread_client \in Int
      BY <3>1
    <3>4. x.quit \in BOOLEAN
      BY <3>1
    <3> QED
      BY <3>2, <3>3, <3>4
  <2>2. x = [f \in Fields |-> x[f]] /\ x.sent = [t \in Thread |-> x.sent[t]] /\ x.crashed = FALSE
    BY <1>1
  <2> QED
    BY <1>3, <1>4, <1>5, <2>1, <2>2 DEF Memory
<1>7. NoClient.live = FALSE /\ NoClient.being_destroyed = FALSE /\ NoClient.reading = FALSE
      /\ NoClient.num_pending_request = 0 /\ NoClient.deadline = NoTimeout
  BY DEF NoClient
<1>8. LiveIn(x) = {} /\ Cardinality({}) = 0
  BY <1>5, <1>7, FS_EmptySet DEF LiveIn
<1>9. OneTimed(x, {})
  BY <1>2, <1>5, <1>7 DEF OneTimed
<1>10. ASSUME NEW t \in Thread PROVE Counted(x, t, None)
  <2>1. NR(x.apc, t) = 0 /\ NW(x.apc, t) = 0
    BY <1>4, FS_EmptySet DEF NR, NW
  <2>2. ~Reading(x, t, None) /\ Pending(x, t, None) = 0
    BY <1>5, <1>7, Names DEF Reading, Pending
  <2>3. NoTimeout >= MaxNow
    BY RefereeAssumption DEF NoTimeout
  <2> QED
    BY <1>5, <1>7, <2>1, <2>2, <2>3 DEF Counted, Serving
<1> QED
  BY <1>1, <1>3, <1>4, <1>5, <1>6, <1>8, <1>9, <1>10 DEF Started

\* The invariant holds initially.
LEMMA InitEstablishes == ASSUME Init PROVE RefereeInv
<1> DEFINE none == [t \in Thread |-> NoMsg]
<1>1. /\ at = [t \in Thread |-> "probe"] /\ todo \in Workload /\ req = none
      /\ accepted = {} /\ pipe = None /\ srv = InitServer /\ now = 0
  BY DEF Init
<1>2. none = [t \in Thread |-> none[t]] /\ srv.sent = none
  BY <1>1 DEF InitServer
<1>3. Started(srv)
  <2>1. Starting(InitServer)
    BY DEF InitServer, Fields, Starting
  <2> QED
    BY <1>1, <2>1, Starts
<1> HIDE DEF none
<1>4. \A t \in Thread : none[t] = NoMsg
  BY DEF none
<1>5. Standing
  <2>1. DOMAIN todo = Thread /\ \A t \in Thread : todo[t] \in Seq(Range(todo[t]))
    BY <1>1, RefereeAssumption
  <2>3. \A t \in Thread : Range(todo[t]) \subseteq Asked(t)
    BY <1>1 DEF Asked
  <2>4. \A t \in Thread : todo[t] \in Seq(Asked(t))
    BY <2>1, <2>3
  <2>5. at \in [Thread -> Places] /\ now \in 0 .. MaxNow
    BY <1>1, RefereeAssumption DEF Places
  <2> QED
    BY <1>1, <1>2, <2>1, <2>4, <2>5 DEF Standing
<1>6. \A t \in Thread : Phase(srv, t, {}, None)
  <2> TAKE t \in Thread
  <2>1. /\ at[t] = "probe" /\ t \notin accepted /\ srv.sent[t] = NoMsg /\ req[t] = NoMsg
        /\ pipe # t /\ ~IsAsleep(srv.locks, t) /\ ~srv.tc[t].live
    BY <1>1, <1>2, <1>3, <1>4, Names DEF Started, NoClient
  <2> QED
    BY <2>1 DEF Phase
<1>7. Good(srv, {}, None) /\ OneTimed(srv, {})
  BY <1>3, <1>6 DEF Good, Started
<1> QED
  BY <1>5, <1>7 DEF RefereeInv

\* The server ends: it has no client any more, or it gives up and nobody's
\* connection is accepted from now on.
LEMMA EndsKeeps ==
    ASSUME RefereeInv, Ends, UNCHANGED <<at, todo, req, now>>,
           (srv.quit /\ accepted' = accepted) \/ accepted' = {}
    PROVE  RefereeInv'
<1>1. /\ Standing /\ Good(srv, {}, None) /\ Memory(srv)
      /\ srv.quit => LiveIn(srv) = {}
      /\ \A t \in Thread : Counted(srv, t, None) /\ Phase(srv, t, {}, None)
  BY DEF RefereeInv, Good
<1>2. pipe' = None /\ srv' = [InitServer EXCEPT !.sent = srv.sent]
  BY DEF Ends
<1>3. srv.sent = [t \in Thread |-> srv.sent[t]]
  BY <1>1 DEF Memory
<1>4. Started(srv') /\ srv'.sent = srv.sent
  <2>1. srv'.sent = srv.sent
    BY <1>2 DEF InitServer
  <2>2. Starting(srv')
    BY <1>2, <1>3, <2>1 DEF InitServer, Fields, Starting
  <2> QED
    BY <2>1, <2>2, Starts
<1>5. ASSUME NEW t \in Thread PROVE Phase(srv, t, {}, None)'
  <2>1. /\ Phase(srv, t, {}, None) /\ t # None
        /\ t \in accepted' => t \in accepted /\ ~Serving(srv.tc[t])
    BY <1>1, Names DEF LiveIn, Serving
  <2>2. srv'.tc[t] = NoClient /\ Reads(srv'.apc, t) = {} /\ ~IsAsleep(srv'.locks, t) /\ srv'.sent[t] = srv.sent[t]
    BY <1>4 DEF Started
  <2>3. ~srv'.tc[t].live /\ ~Reading(srv', t, None) /\ Leaving(srv'.apc, t)
    BY <2>1, <2>2 DEF NoClient, Reading, Leaving
  <2>4. at'[t] = at[t] /\ req'[t] = req[t] /\ pipe' # t
    BY <1>2, Names
  <2>5. t \in accepted' => at[t] \notin {"probe", "open", "spawn", "abort", "queued", "idle", "transact"}
    BY <2>1 DEF Phase
  <2> QED
    BY <2>1, <2>2, <2>3, <2>4, <2>5 DEF Phase
<1>6. Good(srv, {}, None)' /\ OneTimed(srv, {})'
  BY <1>4, <1>5 DEF Good, Started
<1>7. Standing'
  BY <1>1 DEF Standing
<1> QED
  BY <1>6, <1>7 DEF RefereeInv

\* The server goes on with memory x.
LEMMA GoesOn ==
    ASSUME RefereeInv, NEW x, Good(x, {}, None), OneTimedThread => OneTimed(x, {}),
           srv' = x, UNCHANGED <<at, todo, req, accepted, pipe>>, now' \in 0 .. MaxNow
    PROVE  RefereeInv'
<1>1. Standing
  BY DEF RefereeInv
<1>2. Standing'
  BY <1>1 DEF Standing
<1>3. Good(srv, {}, None)'
  BY DEF Good, Phase
<1>4. (OneTimedThread => OneTimed(srv, {}))'
  BY DEF OneTimedThread, OneTimed, TimedThread
<1> QED
  BY <1>2, <1>3, <1>4 DEF RefereeInv

\* A completion is called back.
LEMMA CallbackKeeps ==
    ASSUME RefereeInv, Punctual, Callback
    PROVE  RefereeInv'
<1> DEFINE a == srv.apc
           e == Head(a)
           u == e.tc
           p == [srv EXCEPT !.apc = Tail(@)]
           x == IF e.op = "read" THEN read_completed(p, u, e.msg) ELSE write_completed(p, u)
<1>1. /\ Standing /\ Good(srv, {}, None) /\ (OneTimedThread => OneTimed(srv, {})) /\ Memory(srv)
  BY DEF RefereeInv, Good
<1>2. a # <<>> /\ Becomes(x, "woken") /\ UNCHANGED <<at, todo, req, accepted, now>>
  BY DEF Callback
<1>3. at[u] \in Places
  <2>1. a \in Seq(Completion) /\ a # <<>>
    BY <1>1, <1>2 DEF Memory
  <2> HIDE DEF a
  <2>2. e \in Completion
    BY <2>1
  <2>3. u \in Thread
    BY <2>2, CompletionIs
  <2> QED
    BY <1>1, <2>3 DEF Standing
<1>4. Good(x, {}, None) /\ (OneTimed(srv, {}) /\ OneTimedThread => OneTimed(x, {}))
  <2>1. CASE e.op = "read"
    BY <1>1, <1>2, <1>3, <2>1, ReadCalledBack
  <2>2. CASE e.op # "read"
    BY <1>1, <1>2, <1>3, <2>2, WriteCalledBack
  <2> QED
    BY <2>1, <2>2
<1> HIDE DEF x
<1>5. srv' = x /\ pipe' = pipe
  BY <1>2, <1>4 DEF Becomes, Good, Memory
<1>6. now' \in 0 .. MaxNow
  BY <1>1, <1>2 DEF Standing
<1> QED
  BY <1>1, <1>2, <1>4, <1>5, <1>6, GoesOn

\* What follows a wait of the main loop.
LEMMA IterateKeeps ==
    ASSUME RefereeInv, Iterate
    PROVE  RefereeInv'
<1>1. /\ Standing /\ Good(srv, {}, None) /\ (OneTimedThread => OneTimed(srv, {})) /\ Memory(srv)
      /\ \A t \in Thread : Counted(srv, t, None) /\ Phase(srv, t, {}, None)
  BY DEF RefereeInv, Good
<1>2. CASE srv.quit
  <2>1. Ends /\ UNCHANGED <<at, todo, req, accepted, now>>
    BY <1>2 DEF Iterate
  <2> QED
    BY <1>2, <2>1, EndsKeeps
<1>3. CASE ~srv.quit
  <2> DEFINE L == lock_array_drop_unused(srv.locks)
             x == [srv EXCEPT !.locks = L]
  <2>1. Becomes(timeout_list_update(x), "wait") /\ UNCHANGED <<at, todo, req, accepted, now>>
    BY <1>3 DEF Iterate
  <2>2. LocksOK(L) /\ \A t : IsAsleep(L, t) <=> IsAsleep(srv.locks, t)
    BY <1>1, DropUnused DEF Memory
  <2> HIDE DEF L
  <2>3. Good(x, {}, None) /\ x.locks = L /\ x.node = srv.node /\ x.tc = srv.tc
    <3>1. \A t \in Thread : /\ IsAsleep(L, t) \/ t \in {} <=> IsAsleep(srv.locks, t) \/ t \in {}
                            /\ ~(IsAsleep(L, t) /\ t \in {})
      BY <2>2
    <3> QED
      BY <1>1, <2>2, <3>1, NewLocks
  <2> HIDE DEF x
  <2>4. OneTimed(srv, {}) => OneTimed(x, {})
    <3>1. \A t \in Thread : IsAsleep(srv.locks, t) \/ t \in {} => IsAsleep(x.locks, t) \/ t \in {}
      BY <2>2, <2>3
    <3> QED
      BY <2>3, <3>1, TimedOn
  <2>5. timeout_list_update(x) = x
    <3>1. \A t \in Thread : ~(x.tc[t].deadline < now)
      <4> TAKE t \in Thread
      <4>1. x.tc[t].deadline \in Int /\ x.tc[t].deadline >= MaxNow
        BY <2>3, ClientIs DEF Good, Counted
      <4>2. now \in Nat /\ MaxNow \in Nat /\ now <= MaxNow
        BY <1>1, RefereeAssumption DEF Standing
      <4> QED
        BY <4>1, <4>2
    <3>2. x.node \in Linkage
      BY <1>1, <2>3 DEF Memory
    <3> QED
      BY <3>1, <3>2, NothingLate
  <2>6. srv' = x /\ pipe' = pipe
    BY <2>1, <2>3, <2>5 DEF Becomes, Good, Memory
  <2>7. now' \in 0 .. MaxNow
    BY <1>1, <2>1 DEF Standing
  <2> QED
    BY <1>1, <2>1, <2>3, <2>4, <2>6, <2>7, GoesOn
<1> QED
  BY <1>2, <1>3

\* Time passes, or the wait of the main loop ends at a deadline.
LEMMA StandsStill ==
    ASSUME RefereeInv, Tick \/ TimeoutElapsed \/ UNCHANGED vars
    PROVE  RefereeInv'
<1>1. /\ Standing /\ Good(srv, {}, None) /\ (OneTimedThread => OneTimed(srv, {}))
  BY DEF RefereeInv
<1>2. srv' = srv /\ UNCHANGED <<at, todo, req, accepted, pipe>>
  BY DEF Tick, TimeoutElapsed, vars
<1>3. now' \in 0 .. MaxNow
  <2>1. now \in 0 .. MaxNow /\ MaxNow \in Nat
    BY <1>1, RefereeAssumption DEF Standing
  <2>2. now' = now \/ (now < MaxNow /\ now' = now + 1)
    BY DEF Tick, TimeoutElapsed, vars
  <2> QED
    BY <2>1, <2>2
<1> QED
  BY <1>1, <1>2, <1>3, GoesOn

\* The invariant is inductive.
LEMMA NextKeeps ==
    ASSUME Punctual, ~DiesAnywhere, RefereeInv, [Next]_vars
    PROVE  RefereeInv'
<1>1. ASSUME NEW t \in Thread,
             \/ Connect(t) \/ Transact(t) \/ Disconnect(t)
             \/ spawn_lock_server(t) \/ SpawnFails(t) \/ DuplicateFails(t)
      PROVE  RefereeInv'
  <2>1. CASE Connect(t) \/ spawn_lock_server(t) \/ SpawnFails(t) \/ DuplicateFails(t)
    BY <2>1, ConnectKeeps
  <2>2. CASE create_robust_data(t) \/ Request(t)
    BY <2>2, RequestKeeps
  <2>3. CASE Receive(t)
    BY <2>3, ReceiveKeeps
  <2>4. CASE TransactFails(t)
    BY <2>4, FailKeeps
  <2>5. CASE Disconnect(t)
    BY <2>5, DisconnectKeeps
  <2> QED
    BY <1>1, <2>1, <2>2, <2>3, <2>4, <2>5 DEF Transact
<1>2. CASE handle_new_connection
  BY <1>2, ConnectionKeeps
<1>3. CASE Callback
  BY <1>3, CallbackKeeps
<1>4. CASE Iterate
  BY <1>4, IterateKeeps
<1>5. CASE Tick \/ TimeoutElapsed \/ UNCHANGED vars
  BY <1>5, StandsStill
<1>6. CASE GiveUp
  BY <1>6, EndsKeeps DEF GiveUp
<1> QED
  BY <1>1, <1>2, <1>3, <1>4, <1>5, <1>6 DEF Next, ServerStep

\* What the invariant says of the clients.
LEMMA InvAccounts == ASSUME RefereeInv PROVE ClientAccounting
<1>1. /\ Good(srv, {}, None) /\ Memory(srv)
      /\ \A t \in Thread : Counted(srv, t, None) /\ Phase(srv, t, {}, None)
      /\ srv.num_thread_client = Cardinality(LiveIn(srv)) /\ (srv.quit => LiveIn(srv) = {})
  BY DEF RefereeInv, Good
<1>2. NeverAbandoned
  BY <1>1 DEF Phase, NeverAbandoned
<1>3. Live = LiveIn(srv)
  BY DEF Live, LiveIn
<1>4. ASSUME NEW t \in Thread
      PROVE  LET tc == srv.tc[t] IN
        /\ tc.num_pending_request = CountApc(t, "read") + CountApc(t, "write")
                                    + (IF tc.reading THEN 1 ELSE 0)
        /\ tc.live /\ ~tc.being_destroyed
            => CountApc(t, "read") + (IF tc.reading THEN 1 ELSE 0) = 1
        /\ tc.being_destroyed => tc.live /\ tc.num_pending_request > 0
  <2>1. CountApc(t, "read") = NR(srv.apc, t) /\ CountApc(t, "write") = NW(srv.apc, t)
    BY DEF CountApc, NR, NW, Reads, Writes
  <2>2. Counted(srv, t, None) /\ t # None
    BY <1>1, Names
  <2>3. srv.tc[t].num_pending_request \in Int
    BY <1>1, ClientIs DEF Memory
  <2>4. (Reading(srv, t, None) <=> srv.tc[t].reading) /\ Pending(srv, t, None) = srv.tc[t].num_pending_request
    BY <2>2, <2>3 DEF Reading, Pending
  <2> QED
    BY <2>1, <2>2, <2>4 DEF Counted, Serving
<1> QED
  BY <1>1, <1>2, <1>3, <1>4 DEF ClientAccounting

\* A client sleeps in one queue at most.
LEMMA InOneQueue ==
    ASSUME NEW L, LocksOK(L), NEW t
    PROVE  Cardinality({i \in DOMAIN L : t \in Sleepers(L[i].lock)}) <= 1
<1> DEFINE Q == {i \in DOMAIN L : t \in Sleepers(L[i].lock)}
<1>1. ASSUME NEW i \in Q, NEW j \in Q PROVE i = j
  BY <1>1 DEF LocksOK, OnceQueued, Sleepers
<1>2. CASE Q = {}
  BY <1>2, FS_EmptySet
<1>3. CASE Q # {}
  <2>1. PICK i \in Q : Q = {i}
    BY <1>1, <1>3
  <2>2. Cardinality({i}) = 1
    BY FS_Singleton
  <2> QED
    BY <2>1, <2>2
<1> QED
  BY <1>2, <1>3

\* The timeout list holds the one timed sleeper, if there is one.
LEMMA ListOfTimed ==
    ASSUME RefereeInv, OneTimedThread
    PROVE  /\ Range(Listed(srv.node)) = {t \in Asleep : srv.tc[t].deadline # NoTimeout}
           /\ Len(Listed(srv.node)) \in 0 .. 1
<1>1. OneTimed(srv, {}) /\ Memory(srv)
  BY DEF RefereeInv, Good
<1>2. Asleep \subseteq Thread /\ \A t : t \in Asleep <=> IsAsleep(srv.locks, t)
  <2>1. \A t : t \in Asleep <=> IsAsleep(srv.locks, t)
    BY DEF Asleep, IsAsleep
  <2>2. ASSUME NEW t, IsAsleep(srv.locks, t) PROVE t \in Thread
    <3>1. PICK i \in DOMAIN srv.locks : t \in Sleepers(srv.locks[i].lock)
      BY <2>2 DEF IsAsleep
    <3> QED
      BY <1>1, <3>1, Entries DEF Memory, LocksOK
  <2> QED
    BY <2>1, <2>2
<1>3. CASE srv.node = NoneLinked /\ \A t \in Thread : srv.tc[t].deadline = NoTimeout
  <2>1. Listed(srv.node) = <<>>
    BY <1>3, ListedNone
  <2> QED
    BY <1>2, <1>3, <2>1 DEF Range
<1>4. ASSUME NEW u \in Thread, srv.node = OneLinked(u), IsAsleep(srv.locks, u),
             \A t \in Thread : srv.tc[t].deadline # NoTimeout <=> t = u
      PROVE  /\ Range(Listed(srv.node)) = {t \in Asleep : srv.tc[t].deadline # NoTimeout}
             /\ Len(Listed(srv.node)) \in 0 .. 1
  <2>1. Listed(srv.node) = <<u>>
    BY <1>4, ListedOne
  <2>2. Range(<<u>>) = {u}
    BY DEF Range
  <2>3. {t \in Asleep : srv.tc[t].deadline # NoTimeout} = {u}
    BY <1>2, <1>4
  <2> QED
    BY <2>1, <2>2, <2>3
<1> QED
  BY <1>1, <1>3, <1>4 DEF OneTimed

\* What the invariant says of those who sleep.
LEMMA InvKnowsSleepers ==
    ASSUME RefereeInv, OneTimedThread
    PROVE  SleepersExact
<1> DEFINE list == Listed(srv.node)
<1>1. /\ Good(srv, {}, None) /\ Memory(srv) /\ LocksOK(srv.locks)
      /\ \A t \in Thread : Counted(srv, t, None) /\ Phase(srv, t, {}, None)
  BY DEF RefereeInv, Good, Memory
<1>2. \A i, j \in DOMAIN srv.locks : i < j => srv.locks[i].key < srv.locks[j].key
  BY <1>1 DEF LocksOK, Sorted
<1>3. \A i \in DOMAIN srv.locks :
        search_key_index(srv.locks, srv.locks[i].key) = [found |-> TRUE, index |-> i]
  BY <1>1, FoundOnce DEF LocksOK
<1>4. \A t \in Thread :
        Cardinality({i \in DOMAIN srv.locks : t \in Sleepers(srv.locks[i].lock)}) <= 1
  BY <1>1, InOneQueue
<1>5. \A t : t \in Asleep <=> IsAsleep(srv.locks, t)
  BY DEF Asleep, IsAsleep
<1>6. ASSUME NEW t \in Thread
      PROVE  /\ t \in Asleep => at[t] = "transact" /\ srv.tc[t].live /\ srv.sent[t] = NoMsg
             /\ at[t] = "transact" /\ srv.tc[t].reading /\ srv.sent[t] = NoMsg => t \in Asleep
  <2>1. Counted(srv, t, None) /\ Phase(srv, t, {}, None) /\ t # None
    BY <1>1, Names
  <2>2. Reading(srv, t, None) <=> srv.tc[t].reading
    BY <2>1 DEF Reading
  <2>3. srv.tc[t].reading => srv.tc[t].live
    BY <2>1 DEF Counted, NoClient
  <2> QED
    BY <1>5, <2>1, <2>2, <2>3 DEF Phase, Serving
<1>7. Asleep \subseteq Thread
  <2>1. \A i \in DOMAIN srv.locks : Sleepers(srv.locks[i].lock) \subseteq Thread
    BY <1>1, Entries DEF LocksOK
  <2> QED
    BY <2>1 DEF Asleep
<1>8. Range(list) = {t \in Asleep : srv.tc[t].deadline # NoTimeout} /\ Len(list) \in 0 .. 1
  BY ListOfTimed
<1>9. \A i \in 1 .. Len(list) - 1 : srv.tc[list[i]].deadline <= srv.tc[list[i + 1]].deadline
  <2>1. \A n \in 0 .. 1 : 1 .. n - 1 = {}
    OBVIOUS
  <2>2. 1 .. Len(list) - 1 = {}
    BY <1>8, <2>1
  <2> QED
    BY <2>2
<1> QED
  BY <1>2, <1>3, <1>4, <1>6, <1>7, <1>8, <1>9 DEF SleepersExact

(***************************************************************************)
(* ClientAccounting, for every set of threads, every workload and every    *)
(* order of connections, completions and disconnections, also when servers *)
(* give up. Two hypotheses keep out what the code gets wrong: threads end  *)
(* between transactions only (a thread that dies in a wait stays in its    *)
(* queue when its client is freed), and no wait times out while the clock  *)
(* runs (thread_client_process_timeout() looks for the lock of key zero).  *)
(***************************************************************************)
THEOREM ClientsAccounted ==
    ASSUME ~DiesAnywhere, Punctual
    PROVE  Spec => []ClientAccounting
<1>1. Init => RefereeInv
  BY InitEstablishes
<1>2. RefereeInv /\ [Next]_vars => RefereeInv'
  BY NextKeeps
<1>3. RefereeInv => ClientAccounting
  BY InvAccounts
<1> QED
  BY <1>1, <1>2, <1>3, PTL DEF Spec

(***************************************************************************)
(* SleepersExact, under the same hypotheses, if one thread at most makes   *)
(* timed waits: detach_list_node() loses what follows the node it detaches *)
(* when there are more (it clears next before it links the previous node). *)
(***************************************************************************)
THEOREM SleepersKnown ==
    ASSUME ~DiesAnywhere, Punctual, OneTimedThread
    PROVE  Spec => []SleepersExact
<1>1. Init => RefereeInv
  BY InitEstablishes
<1>2. RefereeInv /\ [Next]_vars => RefereeInv'
  BY NextKeeps
<1>3. RefereeInv => SleepersExact
  BY InvKnowsSleepers
<1> QED
  BY <1>1, <1>2, <1>3, PTL DEF Spec
=============================================================================
