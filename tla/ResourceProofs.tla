--------------------------- MODULE ResourceProofs ---------------------------
(***************************************************************************)
(* Proofs about what the library keeps of resources of the system.         *)
(*                                                                         *)
(* The list of mappings on POSIX, for any number of threads, any address   *)
(* space and any sequence of calls: the list and the address space agree   *)
(* as long as munmap() of a whole mapping does not fail, which the kernel  *)
(* grants (mm_unmap() has no way to report such a failure).                *)
(*                                                                         *)
(* The cache of the environment on Windows, for any names, values and      *)
(* sequence of calls: cache and runtime agree as long as the names differ  *)
(* in more than case and a block can be enlarged.                          *)
(*                                                                         *)
(* Local IPC on Windows, for any processes, handle tables and messages: a  *)
(* message arrives whole with the files of its sender, and every handle is *)
(* accounted for, as long as no duplication fails half way and a message   *)
(* is read before the next one is sent.                                    *)
(*                                                                         *)
(* Measures of elapsed time, for any number of points, any clock and any   *)
(* sequence of calls: what is printed is of the times since the reset.     *)
(***************************************************************************)
EXTENDS Mappings, EnvWin32, IpcWin32, Profile, SequenceTheorems, FiniteSetTheorems,
        WellFoundedInduction, TLAPS

-----------------------------------------------------------------------------
(***************************************************************************)
(* The inductive invariant                                                 *)
(***************************************************************************)
RegionRec == [ptr : 1 .. Pages, len : 1 .. Pages]

MapTypeOK ==
    /\ mapAt \in [MapThread -> {"out", "add", "munmap", "unlink", "failed"}]
    /\ mapReg \in [MapThread -> RegionRec \cup {NoRegion}]
    /\ mapped \subseteq RegionRec
    /\ mapList \in [entries : Seq(RegionRec), num_max : Nat]
    /\ shmName \in BOOLEAN /\ shmLeft \in BOOLEAN
    /\ shmMtx \in MapThread \cup {"nobody"}

\* A thread has a mapping of its own while it is between mmap() and the list,
\* or between the list and munmap().
Working(t) == mapAt[t] \in {"add", "munmap"}

\* No two mappings share a page, and each belongs to one thread or to the list.
Disjoint ==
    /\ \A r, s \in mapped : r # s => PagesOf(r) \cap PagesOf(s) = {}
    /\ \A t \in MapThread : Working(t) <=> mapReg[t] # NoRegion
    /\ \A t \in MapThread : Working(t) => mapReg[t] \in mapped \ mapMine
    /\ \A t, u \in MapThread : Working(t) /\ mapReg[t] = mapReg[u] => t = u

ListExact ==
    /\ Range(mapList.entries) = mapMine
    /\ IsInjective(mapList.entries)
    /\ Len(mapList.entries) <= mapList.num_max
    /\ mapMine \subseteq mapped
    /\ mapped = mapMine \cup ({mapReg[t] : t \in MapThread} \ {NoRegion})

\* The name of the segment exists between shm_open() and shm_unlink(), under
\* the mutex, unless it was there before.
ShmInv ==
    /\ \A t \in MapThread : mapAt[t] \in {"unlink", "failed"} => shmMtx = t
    /\ \A t \in MapThread : mapAt[t] = "failed" => shmLeft
    /\ shmName /\ shmMtx = "nobody" => shmLeft

MapInv == MapTypeOK /\ Disjoint /\ ListExact /\ ShmInv

-----------------------------------------------------------------------------
(***************************************************************************)
(* The list                                                                *)
(***************************************************************************)

\* RemoveAt() shifts the entries behind the one that goes.
LEMMA RemoveAtShifts ==
    ASSUME NEW S, NEW s \in Seq(S), NEW i \in 1 .. Len(s)
    PROVE  /\ RemoveAt(s, i) \in Seq(S) /\ Len(RemoveAt(s, i)) = Len(s) - 1
           /\ \A k \in 1 .. Len(s) - 1 :
                 RemoveAt(s, i)[k] = IF k < i THEN s[k] ELSE s[k + 1]
<1> DEFINE n == Len(s)
           a == SubSeq(s, 1, i - 1)
           b == SubSeq(s, i + 1, n)
<1>1. n \in Nat /\ i \in Nat /\ 1 <= i /\ i <= n
  OBVIOUS
<1>2. \A k \in 1 .. n : s[k] \in S
  OBVIOUS
<1> HIDE DEF n
<1>3. /\ a \in Seq(S) /\ Len(a) = i - 1
      /\ \A k \in 1 .. i - 1 : a[k] = s[k]
  <2>1. \A k \in 1 .. i - 1 : s[k] \in S
    BY <1>1, <1>2
  <2>2. /\ a \in Seq(S) /\ Len(a) = IF 1 <= i - 1 THEN (i - 1) - 1 + 1 ELSE 0
        /\ \A k \in 1 .. (i - 1) - 1 + 1 : a[k] = s[1 + k - 1]
    BY <1>1, <2>1, SubSeqProperties, i - 1 \in Int
  <2> HIDE DEF a
  <2> QED
    BY <1>1, <2>2
<1>4. /\ b \in Seq(S) /\ Len(b) = n - i
      /\ \A k \in 1 .. n - i : b[k] = s[i + k]
  <2>1. \A k \in i + 1 .. n : s[k] \in S
    BY <1>1, <1>2
  <2>2. /\ b \in Seq(S) /\ Len(b) = IF i + 1 <= n THEN n - (i + 1) + 1 ELSE 0
        /\ \A k \in 1 .. n - (i + 1) + 1 : b[k] = s[(i + 1) + k - 1]
    BY <1>1, <2>1, SubSeqProperties, i + 1 \in Int
  <2> HIDE DEF b
  <2> QED
    BY <1>1, <2>2
<1>5. RemoveAt(s, i) = a \o b
  BY DEF RemoveAt, n
<1> HIDE DEF a, b
<1>6. /\ a \o b \in Seq(S) /\ Len(a \o b) = n - 1
      /\ \A k \in 1 .. n - 1 : (a \o b)[k] = IF k <= i - 1 THEN a[k] ELSE b[k - (i - 1)]
  <2>1. /\ a \o b \in Seq(S) /\ Len(a \o b) = Len(a) + Len(b)
        /\ \A k \in 1 .. Len(a) + Len(b) :
              (a \o b)[k] = IF k <= Len(a) THEN a[k] ELSE b[k - Len(a)]
    BY <1>3, <1>4, ConcatProperties
  <2>2. Len(a) + Len(b) = n - 1
    BY <1>1, <1>3, <1>4
  <2> QED
    BY <1>3, <2>1, <2>2
<1>7. ASSUME NEW k \in 1 .. n - 1
      PROVE  (a \o b)[k] = IF k < i THEN s[k] ELSE s[k + 1]
  <2>1. CASE k < i
    BY <1>1, <1>3, <1>6, <2>1
  <2>2. CASE ~(k < i)
    <3>1. k - (i - 1) \in 1 .. n - i /\ i + (k - (i - 1)) = k + 1 /\ ~(k <= i - 1)
      BY <1>1, <2>2
    <3>2. b[k - (i - 1)] = s[i + (k - (i - 1))]
      BY <1>4, <3>1
    <3> QED
      BY <1>6, <2>2, <3>1, <3>2
  <2> QED
    BY <2>1, <2>2
<1> QED
  BY <1>5, <1>6, <1>7 DEF n

\* mapping_list_add_entry(): the new entry, and room for it.
LEMMA AddEntry ==
    ASSUME NEW list \in [entries : Seq(RegionRec), num_max : Nat],
           IsInjective(list.entries), Len(list.entries) <= list.num_max,
           NEW r \in RegionRec, r \notin Range(list.entries)
    PROVE  /\ mapping_list_add_entry(list, r) \in [entries : Seq(RegionRec), num_max : Nat]
           /\ IsInjective(mapping_list_add_entry(list, r).entries)
           /\ Range(mapping_list_add_entry(list, r).entries) = Range(list.entries) \cup {r}
           /\ Len(mapping_list_add_entry(list, r).entries)
                 <= mapping_list_add_entry(list, r).num_max
<1> DEFINE e == list.entries
           n == Len(e)
           a == Append(e, r)
           m == IF list.num_max > n THEN list.num_max
                ELSE IF list.num_max < MIN_NUM_ENTRIES THEN MIN_NUM_ENTRIES
                ELSE 2 * list.num_max
<1>1. e \in Seq(RegionRec) /\ n \in Nat /\ DOMAIN e = 1 .. n /\ list.num_max \in Nat
  OBVIOUS
<1>2. mapping_list_add_entry(list, r) = [entries |-> a, num_max |-> m]
  BY DEF mapping_list_add_entry
<1>3. m \in Nat /\ n + 1 <= m
  <2>1. MIN_NUM_ENTRIES \in Nat /\ MIN_NUM_ENTRIES >= 1
    BY MappingsAssumption
  <2>2. CASE list.num_max > n
    BY <1>1, <2>2
  <2>3. CASE ~(list.num_max > n) /\ list.num_max < MIN_NUM_ENTRIES
    BY <1>1, <2>1, <2>3
  <2>4. CASE ~(list.num_max > n) /\ ~(list.num_max < MIN_NUM_ENTRIES)
    <3>1. m = 2 * list.num_max
      BY <2>4
    <3>2. n <= list.num_max /\ list.num_max = n
      BY <1>1, <2>4
    <3> HIDE DEF m, n
    <3> QED
      BY <1>1, <2>1, <2>4, <3>1, <3>2
  <2> QED
    BY <2>2, <2>3, <2>4
<1> HIDE DEF e, m
<1>4. /\ a \in Seq(RegionRec) /\ Len(a) = n + 1 /\ a[n + 1] = r
      /\ \A i \in 1 .. n : a[i] = e[i]
  BY <1>1, AppendProperties
<1>5. DOMAIN a = 1 .. n + 1 /\ \A i \in 1 .. n + 1 : i \in 1 .. n \/ i = n + 1
  BY <1>1, <1>4
<1>6. \A i \in 1 .. n : e[i] # r /\ i \in 1 .. n + 1
  BY <1>1 DEF Range, e
<1>7. Range(a) = Range(e) \cup {r}
  <2>1. Range(a) = {a[i] : i \in 1 .. n + 1} /\ Range(e) = {e[i] : i \in 1 .. n}
    BY <1>1, <1>5 DEF Range
  <2>2. n + 1 \in 1 .. n + 1
    BY <1>1
  <2> QED
    BY <1>4, <1>5, <1>6, <2>1, <2>2
<1>8. IsInjective(a)
  <2>1. \A i, j \in 1 .. n : e[i] = e[j] => i = j
    BY <1>1 DEF IsInjective, e
  <2> QED
    BY <1>4, <1>5, <1>6, <2>1 DEF IsInjective
<1> HIDE DEF a, n
<1> QED
  BY <1>2, <1>3, <1>4, <1>7, <1>8 DEF n, e

\* mapping_list_remove_entry(): the entry of that address goes, no other one.
LEMMA RemoveEntry ==
    ASSUME NEW list \in [entries : Seq(RegionRec), num_max : Nat],
           IsInjective(list.entries), Len(list.entries) <= list.num_max,
           NEW ptr, Indices(list, ptr) # {},
           \A i, j \in Indices(list, ptr) : i = j
    PROVE  LET gone == list.entries[FirstIndex(list, ptr)]
               new == mapping_list_remove_entry(list, ptr)
           IN  /\ gone \in Range(list.entries) /\ gone.ptr = ptr
               /\ new \in [entries : Seq(RegionRec), num_max : Nat]
               /\ IsInjective(new.entries)
               /\ Range(new.entries) = Range(list.entries) \ {gone}
               /\ Len(new.entries) <= new.num_max
<1> DEFINE e == list.entries
           n == Len(e)
           f == FirstIndex(list, ptr)
           a == RemoveAt(e, f)
<1>1. e \in Seq(RegionRec) /\ n \in Nat /\ DOMAIN e = 1 .. n /\ list.num_max \in Nat
  OBVIOUS
<1>2. f \in 1 .. n /\ e[f].ptr = ptr
  <2>1. Indices(list, ptr) \in SUBSET Nat /\ Indices(list, ptr) \in SUBSET 1 .. n
    BY <1>1 DEF Indices
  <2>2. \E i \in Indices(list, ptr) : \A j \in Indices(list, ptr) : i <= j
    <3>1. PICK i \in Indices(list, ptr) : TRUE
      OBVIOUS
    <3>2. \A j \in Indices(list, ptr) : i <= j
      BY <2>1
    <3> QED
      BY <3>2
  <2>3. f \in Indices(list, ptr)
    BY <2>2 DEF FirstIndex
  <2> QED
    BY <1>1, <2>3 DEF Indices
<1>3. mapping_list_remove_entry(list, ptr) = [entries |-> a, num_max |-> list.num_max]
  BY DEF mapping_list_remove_entry
<1> HIDE DEF e, f
<1>4. /\ a \in Seq(RegionRec) /\ Len(a) = n - 1
      /\ \A k \in 1 .. n - 1 : a[k] = IF k < f THEN e[k] ELSE e[k + 1]
  BY <1>1, <1>2, RemoveAtShifts
<1>5. DOMAIN a = 1 .. n - 1
  BY <1>1, <1>2, <1>4
<1>6. \A i, j \in 1 .. n : e[i] = e[j] => i = j
  BY <1>1 DEF IsInjective, e
<1> HIDE DEF n, a
<1>7. \A k \in 1 .. n - 1 : \E i \in 1 .. n : a[k] = e[i] /\ i # f
                                             /\ i = (IF k < f THEN k ELSE k + 1)
  BY <1>1, <1>2, <1>4
<1>8. \A i \in 1 .. n : i # f => \E k \in 1 .. n - 1 : a[k] = e[i]
  <2>1. SUFFICES ASSUME NEW i \in 1 .. n, i # f PROVE \E k \in 1 .. n - 1 : a[k] = e[i]
    OBVIOUS
  <2>2. CASE i < f
    <3>1. i \in 1 .. n - 1
      BY <1>1, <1>2, <2>2
    <3> QED
      BY <1>4, <2>2, <3>1
  <2>3. CASE ~(i < f)
    <3>1. i - 1 \in 1 .. n - 1 /\ ~(i - 1 < f) /\ i - 1 + 1 = i
      BY <1>1, <1>2, <2>1, <2>3
    <3>2. a[i - 1] = e[i]
      BY <1>4, <3>1
    <3> QED
      BY <3>1, <3>2
  <2> QED
    BY <2>2, <2>3
<1>9. Range(a) = Range(e) \ {e[f]}
  <2>1. Range(a) = {a[k] : k \in 1 .. n - 1} /\ Range(e) = {e[i] : i \in 1 .. n}
    BY <1>1, <1>5 DEF Range
  <2>2. \A k \in 1 .. n - 1 : a[k] \in Range(e) \ {e[f]}
    BY <1>2, <1>6, <1>7, <2>1
  <2>3. \A x \in Range(e) \ {e[f]} : x \in Range(a)
    BY <1>8, <2>1
  <2> QED
    BY <2>1, <2>2, <2>3
<1>10. IsInjective(a)
  <2>1. \A k, l \in 1 .. n - 1 : a[k] = a[l] => k = l
    <3>1. SUFFICES ASSUME NEW k \in 1 .. n - 1, NEW l \in 1 .. n - 1, a[k] = a[l]
                   PROVE  k = l
      OBVIOUS
    <3>2. (IF k < f THEN k ELSE k + 1) = (IF l < f THEN l ELSE l + 1)
      BY <1>6, <1>7, <3>1
    <3> QED
      BY <1>1, <1>2, <3>2
  <2> QED
    BY <1>5, <2>1 DEF IsInjective
<1>11. e[f] \in Range(e)
  BY <1>1, <1>2 DEF Range
<1>12. Len(a) <= list.num_max
  BY <1>1, <1>4 DEF n, e
<1> QED
  BY <1>1, <1>2, <1>3, <1>4, <1>9, <1>10, <1>11, <1>12 DEF f, e

-----------------------------------------------------------------------------
(***************************************************************************)
(* Every step keeps the invariant                                          *)
(***************************************************************************)

\* An address names at most one mapping, and at most one entry of the list.
LEMMA OneAtAddress ==
    ASSUME MapInv
    PROVE  /\ \A r, s \in mapped : r.ptr = s.ptr => r = s
           /\ Indices(mapList, 0) = {}
           /\ \A ptr : \A i, j \in Indices(mapList, ptr) : i = j
           /\ \A r \in mapMine : Indices(mapList, r.ptr) # {}
<1>1. Pages \in Nat
  BY MappingsAssumption
<1>2. \A r \in RegionRec : r.ptr \in PagesOf(r) /\ r.ptr \in 1 .. Pages
  BY <1>1 DEF RegionRec, PagesOf
<1>3. \A r, s \in mapped : r.ptr = s.ptr => r = s
  BY <1>2 DEF MapInv, MapTypeOK, Disjoint
<1> DEFINE e == mapList.entries
<1>4. e \in Seq(RegionRec) /\ DOMAIN e = 1 .. Len(e)
  BY DEF MapInv, MapTypeOK
<1>5. \A i \in DOMAIN e : e[i] \in RegionRec /\ e[i] \in mapMine /\ e[i] \in mapped
  BY <1>4 DEF MapInv, ListExact, Range
<1>6. \A i, j \in DOMAIN e : e[i] = e[j] => i = j
  BY DEF MapInv, ListExact, IsInjective
<1>7. \A r \in mapMine : \E i \in DOMAIN e : e[i] = r
  BY DEF MapInv, ListExact, Range
<1>8. 0 \notin 1 .. Pages
  BY <1>1
<1> QED
  BY <1>2, <1>3, <1>5, <1>6, <1>7, <1>8 DEF Indices

LEMMA InitMapInv == MapInit => MapInv
<1> SUFFICES ASSUME MapInit PROVE MapInv
  OBVIOUS
<1>1. MapTypeOK
  BY MappingsAssumption, EmptySeq DEF MapInit, MapTypeOK
<1>2. Disjoint
  BY DEF MapInit, Disjoint, Working
<1>3. ListExact
  BY EmptySeq DEF MapInit, ListExact, Range, IsInjective
<1>4. ShmInv
  BY DEF MapInit, ShmInv
<1> QED
  BY <1>1, <1>2, <1>3, <1>4 DEF MapInv

\* mmap(): a mapping where nothing was, which the thread works on.
LEMMA MmapStep ==
    ASSUME MapInv, NEW t \in MapThread, Mmap(t)
    PROVE  MapInv'
<1>1. PICK len \in MapLengths, ptr \in 1 .. Pages :
         /\ PagesOf(Region(ptr, len)) \subseteq FreePages
         /\ mapped' = mapped \cup {Region(ptr, len)}
         /\ mapReg' = [mapReg EXCEPT ![t] = Region(ptr, len)]
  BY DEF Mmap
<1> DEFINE r == Region(ptr, len)
<1>2. r \in RegionRec /\ r # NoRegion /\ PagesOf(r) # {}
  <2>1. Pages \in Nat /\ len \in 1 .. Pages
    BY MappingsAssumption
  <2>2. r \in RegionRec /\ r # NoRegion
    BY <2>1 DEF RegionRec, Region, NoRegion
  <2>3. ptr \in PagesOf(r)
    BY <2>1 DEF PagesOf, Region
  <2> QED
    BY <2>2, <2>3
<1> HIDE DEF r
<1>3. \A s \in mapped : PagesOf(r) \cap PagesOf(s) = {} /\ s # r
  BY <1>1, <1>2 DEF FreePages, r
<1>4. /\ mapAt[t] = "out" /\ mapAt' = [mapAt EXCEPT ![t] = "add"]
      /\ mapped' = mapped \cup {r} /\ mapReg' = [mapReg EXCEPT ![t] = r]
      /\ UNCHANGED <<mapList, mapMine, shmName, shmMtx, shmLeft>>
  BY <1>1 DEF Mmap, MapCall, MapGoto, r
<1>5. MapTypeOK'
  BY <1>2, <1>4 DEF MapInv, MapTypeOK
<1>6. mapReg[t] = NoRegion /\ \A u \in MapThread : mapReg[u] # r
  BY <1>2, <1>3, <1>4 DEF MapInv, Disjoint, Working
<1>7. \A u \in MapThread : /\ u # t => mapAt'[u] = mapAt[u] /\ mapReg'[u] = mapReg[u]
                           /\ mapAt'[t] = "add" /\ mapReg'[t] = r
  BY <1>4 DEF MapInv, MapTypeOK
<1>8. Disjoint'
  <2>1. (\A p, s \in mapped : p # s => PagesOf(p) \cap PagesOf(s) = {})'
    <3>1. \A p, s \in mapped \cup {r} : p # s => PagesOf(p) \cap PagesOf(s) = {}
      BY <1>3 DEF MapInv, Disjoint
    <3> QED
      BY <1>4, <3>1 DEF PagesOf
  <2>2. (\A u \in MapThread : Working(u) <=> mapReg[u] # NoRegion)'
    BY <1>2, <1>7 DEF MapInv, Disjoint, Working, NoRegion, Region
  <2>3. (\A u \in MapThread : Working(u) => mapReg[u] \in mapped \ mapMine)'
    BY <1>3, <1>4, <1>7 DEF MapInv, Disjoint, Working, ListExact
  <2>4. (\A u, v \in MapThread : Working(u) /\ mapReg[u] = mapReg[v] => u = v)'
    BY <1>6, <1>7 DEF MapInv, Disjoint, Working
  <2> QED
    BY <2>1, <2>2, <2>3, <2>4 DEF Disjoint
<1>9. ListExact'
  <2>1. {mapReg'[u] : u \in MapThread} \ {NoRegion}
          = ({mapReg[u] : u \in MapThread} \ {NoRegion}) \cup {r}
    BY <1>2, <1>6, <1>7
  <2> QED
    BY <1>4, <2>1 DEF MapInv, ListExact, NoRegion, Region
<1>10. ShmInv'
  BY <1>4, <1>7 DEF MapInv, ShmInv
<1> QED
  BY <1>5, <1>8, <1>9, <1>10 DEF MapInv

\* mapblock_add(): the mapping passes from the thread to the list.
LEMMA AddStep ==
    ASSUME MapInv, NEW t \in MapThread, mapblock_add(t)
    PROVE  MapInv'
<1> DEFINE r == mapReg[t]
           new == mapping_list_add_entry(mapList, r)
<1>1. /\ mapAt[t] = "add" /\ mapAt' = [mapAt EXCEPT ![t] = "out"]
      /\ mapList' = new /\ mapMine' = mapMine \cup {r}
      /\ mapReg' = [mapReg EXCEPT ![t] = NoRegion]
      /\ UNCHANGED <<mapped, shmName, shmMtx, shmLeft>>
  BY DEF mapblock_add, MapGoto
<1>2. r \in mapped \ mapMine /\ r # NoRegion
  BY <1>1 DEF MapInv, Disjoint, Working
<1>3. r \in RegionRec
  BY <1>2 DEF MapInv, MapTypeOK
<1> HIDE DEF r, new
<1>4. /\ new \in [entries : Seq(RegionRec), num_max : Nat]
      /\ IsInjective(new.entries) /\ Len(new.entries) <= new.num_max
      /\ Range(new.entries) = mapMine \cup {r}
  BY <1>2, <1>3, AddEntry DEF new, MapInv, MapTypeOK, ListExact
<1>5. MapTypeOK'
  BY <1>1, <1>4 DEF MapInv, MapTypeOK
<1>6. \A u \in MapThread : /\ u # t => mapAt'[u] = mapAt[u] /\ mapReg'[u] = mapReg[u]
                           /\ mapAt'[t] = "out" /\ mapReg'[t] = NoRegion
  BY <1>1 DEF MapInv, MapTypeOK
<1>7. \A u \in MapThread : mapReg[u] = r => u = t
  BY <1>1 DEF MapInv, Disjoint, Working, r
<1>8. Disjoint'
  <2>1. (\A p, s \in mapped : p # s => PagesOf(p) \cap PagesOf(s) = {})'
    BY <1>1 DEF MapInv, Disjoint, PagesOf
  <2>2. (\A u \in MapThread : Working(u) <=> mapReg[u] # NoRegion)'
    BY <1>6 DEF MapInv, Disjoint, Working, NoRegion, Region
  <2>3. (\A u \in MapThread : Working(u) => mapReg[u] \in mapped \ mapMine)'
    BY <1>1, <1>6, <1>7 DEF MapInv, Disjoint, Working
  <2>4. (\A u, v \in MapThread : Working(u) /\ mapReg[u] = mapReg[v] => u = v)'
    <3>1. \A u \in MapThread : Working(u)' => u # t /\ Working(u)
      BY <1>6 DEF Working
    <3>2. \A u \in MapThread : Working(u) => mapReg[u] # NoRegion
      BY DEF MapInv, Disjoint
    <3> QED
      BY <1>6, <3>1, <3>2 DEF MapInv, Disjoint
  <2> QED
    BY <2>1, <2>2, <2>3, <2>4 DEF Disjoint
<1>9. ListExact'
  <2>1. {mapReg'[u] : u \in MapThread} \ {NoRegion}
          = ({mapReg[u] : u \in MapThread} \ {NoRegion}) \ {r}
    BY <1>6, <1>7 DEF r
  <2>2. mapped = mapMine \cup {r} \cup ({mapReg'[u] : u \in MapThread} \ {NoRegion})
    BY <1>2, <2>1 DEF MapInv, ListExact
  <2> QED
    BY <1>1, <1>2, <1>4, <2>2 DEF MapInv, ListExact, NoRegion, Region
<1>10. ShmInv'
  BY <1>1, <1>6 DEF MapInv, ShmInv
<1> QED
  BY <1>5, <1>8, <1>9, <1>10 DEF MapInv

\* realloc() fails: the thread keeps the mapping, to undo it.
LEMMA AddFailsStep ==
    ASSUME MapInv, NEW t \in MapThread, AddFails(t)
    PROVE  MapInv'
<1>1. /\ mapAt[t] = "add" /\ mapAt' = [mapAt EXCEPT ![t] = "munmap"]
      /\ UNCHANGED <<mapReg, mapped, mapList, mapMine, shmName, shmMtx, shmLeft>>
  BY DEF AddFails, MapGoto
<1>2. \A u \in MapThread : (u # t => mapAt'[u] = mapAt[u]) /\ mapAt'[t] = "munmap"
  BY <1>1 DEF MapInv, MapTypeOK
<1>3. \A u \in MapThread : Working(u)' = Working(u)
  BY <1>1, <1>2 DEF Working
<1>4. MapTypeOK'
  BY <1>1 DEF MapInv, MapTypeOK, NoRegion, Region
<1>5. Disjoint'
  BY <1>1, <1>3 DEF MapInv, Disjoint, NoRegion, Region, PagesOf
<1>6. ListExact'
  BY <1>1 DEF MapInv, ListExact, NoRegion, Region
<1>7. ShmInv'
  BY <1>1, <1>2 DEF MapInv, ShmInv
<1> QED
  BY <1>4, <1>5, <1>6, <1>7 DEF MapInv

\* mapblock_remove(): the mapping passes from the list to the thread, with the
\* length it was made with; or there is none, and nothing happens.
LEMMA RemoveStep ==
    ASSUME MapInv, NEW t \in MapThread, mapblock_remove(t)
    PROVE  MapInv'
<1>1. /\ mapAt[t] = "out"
      /\ UNCHANGED <<mapped, shmName, shmMtx, shmLeft>>
  BY DEF mapblock_remove, MapCall
<1>2. PICK r \in mapMine \cup {NoRegion} :
        IF Indices(mapList, r.ptr) = {}
        THEN UNCHANGED <<mapAt, mapReg, mapList, mapMine>>
        ELSE /\ mapReg' = [mapReg EXCEPT ![t] =
                            mapList.entries[FirstIndex(mapList, r.ptr)]]
             /\ mapList' = mapping_list_remove_entry(mapList, r.ptr)
             /\ mapMine' = mapMine \ {r}
             /\ mapAt' = [mapAt EXCEPT ![t] = "munmap"]
  BY DEF mapblock_remove, MapGoto
<1>3. CASE Indices(mapList, r.ptr) = {}
  <2>1. UNCHANGED <<mapAt, mapReg, mapList, mapMine, mapped, shmName, shmMtx, shmLeft>>
    BY <1>1, <1>2, <1>3
  <2> QED
    BY <2>1 DEF MapInv, MapTypeOK, Disjoint, Working, ListExact, ShmInv, PagesOf,
                NoRegion, Region
<1>4. CASE Indices(mapList, r.ptr) # {}
  <2> DEFINE gone == mapList.entries[FirstIndex(mapList, r.ptr)]
             new == mapping_list_remove_entry(mapList, r.ptr)
  <2>1. r \in mapMine
    BY <1>4, OneAtAddress DEF NoRegion, Region
  <2>2. /\ gone \in mapMine /\ gone.ptr = r.ptr
        /\ new \in [entries : Seq(RegionRec), num_max : Nat]
        /\ IsInjective(new.entries) /\ Len(new.entries) <= new.num_max
        /\ Range(new.entries) = mapMine \ {gone}
    BY <1>4, OneAtAddress, RemoveEntry DEF MapInv, MapTypeOK, ListExact
  <2>3. /\ mapReg' = [mapReg EXCEPT ![t] = gone] /\ mapList' = new
        /\ mapMine' = mapMine \ {r} /\ mapAt' = [mapAt EXCEPT ![t] = "munmap"]
    BY <1>2, <1>4
  <2> HIDE DEF gone, new
  <2>4. gone = r /\ r \in mapped /\ r \in RegionRec /\ r # NoRegion
    <3>1. r \in mapped /\ gone \in mapped
      BY <2>1, <2>2 DEF MapInv, ListExact
    <3>2. gone = r /\ r \in RegionRec
      BY <2>2, <3>1, OneAtAddress DEF MapInv, MapTypeOK
    <3>3. 0 \notin 1 .. Pages
      BY MappingsAssumption
    <3> QED
      BY <3>1, <3>2, <3>3 DEF RegionRec, NoRegion, Region
  <2>5. \A u \in MapThread : /\ u # t => mapAt'[u] = mapAt[u] /\ mapReg'[u] = mapReg[u]
                             /\ mapAt'[t] = "munmap" /\ mapReg'[t] = r
    BY <2>3, <2>4 DEF MapInv, MapTypeOK
  <2>6. mapReg[t] = NoRegion /\ \A u \in MapThread : mapReg[u] # r
    BY <1>1, <2>1, <2>4 DEF MapInv, Disjoint, Working
  <2>7. MapTypeOK'
    BY <1>1, <2>2, <2>3, <2>4 DEF MapInv, MapTypeOK
  <2>8. Disjoint'
    <3>1. (\A p, s \in mapped : p # s => PagesOf(p) \cap PagesOf(s) = {})'
      BY <1>1 DEF MapInv, Disjoint, PagesOf
    <3>2. (\A u \in MapThread : Working(u) <=> mapReg[u] # NoRegion)'
      BY <2>4, <2>5 DEF MapInv, Disjoint, Working, NoRegion, Region
    <3>3. (\A u \in MapThread : Working(u) => mapReg[u] \in mapped \ mapMine)'
      BY <1>1, <2>3, <2>4, <2>5 DEF MapInv, Disjoint, Working
    <3>4. (\A u, v \in MapThread : Working(u) /\ mapReg[u] = mapReg[v] => u = v)'
      BY <2>5, <2>6 DEF MapInv, Disjoint, Working
    <3> QED
      BY <3>1, <3>2, <3>3, <3>4 DEF Disjoint
  <2>9. ListExact'
    <3>1. {mapReg'[u] : u \in MapThread} \ {NoRegion}
            = ({mapReg[u] : u \in MapThread} \ {NoRegion}) \cup {r}
      BY <2>4, <2>5, <2>6
    <3>2. mapped = (mapMine \ {r}) \cup ({mapReg'[u] : u \in MapThread} \ {NoRegion})
      BY <2>1, <3>1 DEF MapInv, ListExact
    <3>3. mapMine \ {r} \subseteq mapped
      BY DEF MapInv, ListExact
    <3> QED
      BY <1>1, <2>2, <2>3, <2>4, <3>2, <3>3 DEF ListExact, NoRegion, Region
  <2>10. ShmInv'
    BY <1>1, <2>5 DEF MapInv, ShmInv
  <2> QED
    BY <2>7, <2>8, <2>9, <2>10 DEF MapInv
<1> QED
  BY <1>3, <1>4

\* munmap() takes the mapping of the thread away, and touches no other.
LEMMA MunmapStep ==
    ASSUME MapInv, ~MunmapFails, NEW t \in MapThread, Munmap(t)
    PROVE  MapInv'
<1> DEFINE r == mapReg[t]
<1>1. /\ mapAt[t] = "munmap" /\ mapAt' = [mapAt EXCEPT ![t] = "out"]
      /\ mapReg' = [mapReg EXCEPT ![t] = NoRegion]
      /\ mapped' = {s \in mapped : PagesOf(s) \cap PagesOf(r) = {}}
      /\ UNCHANGED <<mapList, mapMine, shmName, shmMtx, shmLeft>>
  BY DEF Munmap, MapGoto
<1>2. r \in mapped \ mapMine /\ r # NoRegion
  BY <1>1 DEF MapInv, Disjoint, Working
<1>3. r.ptr \in PagesOf(r)
  <2>1. r \in RegionRec /\ Pages \in Nat
    BY <1>2, MappingsAssumption DEF MapInv, MapTypeOK
  <2> QED
    BY <2>1 DEF RegionRec, PagesOf
<1>4. \A s \in mapped : s # r => PagesOf(s) \cap PagesOf(r) = {}
  BY <1>2 DEF MapInv, Disjoint
<1>5. mapped' = mapped \ {r}
  BY <1>1, <1>3, <1>4
<1>6. \A u \in MapThread : /\ u # t => mapAt'[u] = mapAt[u] /\ mapReg'[u] = mapReg[u]
                           /\ mapAt'[t] = "out" /\ mapReg'[t] = NoRegion
  BY <1>1 DEF MapInv, MapTypeOK
<1>7. \A u \in MapThread : mapReg[u] = r => u = t
  BY <1>1 DEF MapInv, Disjoint, Working
<1>8. \A u \in MapThread : Working(u)' => u # t /\ Working(u)
  BY <1>6 DEF Working
<1> HIDE DEF r
<1>9. MapTypeOK'
  BY <1>1, <1>5 DEF MapInv, MapTypeOK, NoRegion, Region
<1>10. Disjoint'
  <2>1. (\A p, s \in mapped : p # s => PagesOf(p) \cap PagesOf(s) = {})'
    BY <1>5 DEF MapInv, Disjoint, PagesOf
  <2>2. (\A u \in MapThread : Working(u) <=> mapReg[u] # NoRegion)'
    BY <1>6 DEF MapInv, Disjoint, Working, NoRegion, Region
  <2>3. (\A u \in MapThread : Working(u) => mapReg[u] \in mapped \ mapMine)'
    BY <1>1, <1>5, <1>6, <1>7, <1>8 DEF MapInv, Disjoint
  <2>4. (\A u, v \in MapThread : Working(u) /\ mapReg[u] = mapReg[v] => u = v)'
    <3>1. \A u \in MapThread : Working(u) => mapReg[u] # NoRegion
      BY DEF MapInv, Disjoint
    <3> QED
      BY <1>6, <1>8, <3>1 DEF MapInv, Disjoint
  <2> QED
    BY <2>1, <2>2, <2>3, <2>4 DEF Disjoint
<1>11. ListExact'
  <2>1. {mapReg'[u] : u \in MapThread} \ {NoRegion}
          = ({mapReg[u] : u \in MapThread} \ {NoRegion}) \ {r}
    BY <1>6, <1>7 DEF r
  <2>2. /\ mapped' = mapMine \cup ({mapReg'[u] : u \in MapThread} \ {NoRegion})
        /\ mapMine \subseteq mapped'
    BY <1>2, <1>5, <2>1 DEF MapInv, ListExact
  <2> QED
    BY <1>1, <2>2 DEF MapInv, ListExact, NoRegion, Region
<1>12. ShmInv'
  BY <1>1, <1>6 DEF MapInv, ShmInv
<1> QED
  BY <1>9, <1>10, <1>11, <1>12 DEF MapInv

\* mm_anon_shm(): shm_open() and shm_unlink() under one mutex.
LEMMA ShmStep ==
    ASSUME MapInv, NEW t \in MapThread, AnonShmOpen(t) \/ AnonShmUnlink(t)
    PROVE  MapInv'
<1>1. UNCHANGED <<mapReg, mapped, mapList, mapMine, shmLeft>>
  BY DEF AnonShmOpen, AnonShmUnlink
<1>2. PICK at \in {"out", "unlink", "failed"} : mapAt' = [mapAt EXCEPT ![t] = at]
  BY DEF AnonShmOpen, AnonShmUnlink, MapGoto
<1>3. ~Working(t) /\ ~Working(t)' /\ \A u \in MapThread : u # t => mapAt'[u] = mapAt[u]
  BY <1>2 DEF Working, AnonShmOpen, AnonShmUnlink, MapCall, MapInv, MapTypeOK
<1>4. \A u \in MapThread : Working(u)' = Working(u)
  BY <1>3 DEF Working
<1>5. MapTypeOK'
  <2>1. shmName' \in BOOLEAN /\ shmMtx' \in MapThread \cup {"nobody"}
    BY DEF AnonShmOpen, AnonShmUnlink, MapInv, MapTypeOK
  <2> QED
    BY <1>1, <1>2, <2>1 DEF MapInv, MapTypeOK, NoRegion, Region
<1>6. Disjoint'
  BY <1>1, <1>4 DEF MapInv, Disjoint, NoRegion, Region, PagesOf
<1>7. ListExact'
  BY <1>1 DEF MapInv, ListExact, NoRegion, Region
<1>8. ShmInv'
  <2>1. mapAt' \in [MapThread -> {"out", "add", "munmap", "unlink", "failed"}]
    BY <1>5 DEF MapTypeOK
  <2>2. CASE AnonShmOpen(t)
    <3>1. /\ shmMtx = "nobody" /\ shmMtx' = t /\ shmMtx' # "nobody"
          /\ mapAt'[t] = "failed" => shmName
      BY <2>2, MappingsAssumption DEF AnonShmOpen, MapGoto, MapInv, MapTypeOK
    <3>2. \A u \in MapThread : mapAt[u] \notin {"unlink", "failed"}
      BY <3>1, MappingsAssumption DEF MapInv, ShmInv
    <3> QED
      BY <1>1, <1>3, <3>1, <3>2 DEF MapInv, ShmInv
  <2>3. CASE AnonShmUnlink(t)
    <3>1. /\ mapAt[t] \in {"unlink", "failed"} /\ shmMtx' = "nobody"
          /\ mapAt'[t] = "out" /\ (shmName' => mapAt[t] = "failed")
      BY <2>3 DEF AnonShmUnlink, MapGoto, MapInv, MapTypeOK
    <3>2. \A u \in MapThread : mapAt'[u] \notin {"unlink", "failed"}
      BY <1>3, <3>1 DEF MapInv, ShmInv
    <3> QED
      BY <1>1, <3>1, <3>2 DEF MapInv, ShmInv
  <2> QED
    BY <2>2, <2>3
<1> QED
  BY <1>5, <1>6, <1>7, <1>8 DEF MapInv

(***************************************************************************)
(* The list of mappings and the address space tell the same story, however *)
(* many threads call mm_mapfile(), mm_unmap() and mm_anon_shm(), in any    *)
(* address space and for ever: what the program has is mapped and has one  *)
(* entry, nothing else stays mapped, and the name of a segment is in the   *)
(* way only if a process that died left it.                                *)
(***************************************************************************)
THEOREM MappingsAgree ==
    ASSUME ~MunmapFails
    PROVE  MapSpec => []MappingsExact
<1>1. MapInit => MapInv
  BY InitMapInv
<1>2. MapInv /\ [MapNext]_mapVars => MapInv'
  <2> SUFFICES ASSUME MapInv, [MapNext]_mapVars PROVE MapInv'
    OBVIOUS
  <2>1. CASE UNCHANGED mapVars
    BY <2>1 DEF mapVars, MapInv, MapTypeOK, Disjoint, Working, ListExact, ShmInv, PagesOf,
                NoRegion, Region
  <2>2. ASSUME NEW t \in MapThread,
               \/ Mmap(t) \/ mapblock_add(t) \/ AddFails(t) \/ mapblock_remove(t)
               \/ Munmap(t) \/ AnonShmOpen(t) \/ AnonShmUnlink(t)
        PROVE  MapInv'
    BY <2>2, MmapStep, AddStep, AddFailsStep, RemoveStep, MunmapStep, ShmStep
  <2> QED
    BY <2>1, <2>2 DEF MapNext
<1>3. MapInv => MappingsExact
  BY DEF MapInv, ListExact, ShmInv, MappingsExact
<1> QED
  BY <1>1, <1>2, <1>3, PTL DEF MapSpec

-----------------------------------------------------------------------------
(***************************************************************************)
(* Induction, stated with sets in place of predicates, and what a loop     *)
(* that is a recursive function computes                                   *)
(***************************************************************************)

\* A set that holds 0 and the successor of each of its numbers holds all.
LEMMA SetInduction ==
    ASSUME NEW T, 0 \in T, \A n \in Nat : n \in T => n + 1 \in T
    PROVE  Nat \subseteq T
<1> DEFINE R == {p \in Nat \X Nat : p[1] < p[2]}
           Bad == Nat \ T
<1> SUFFICES ASSUME Bad # {} PROVE FALSE
  OBVIOUS
<1>1. IsWellFoundedOn(R, Nat)
  BY NatLessThanWellFounded DEF OpToRel
<1>2. Bad \subseteq Nat
  OBVIOUS
<1> HIDE DEF R, Bad
<1>3. PICK x \in Bad : \A y \in Bad : ~(<<y, x>> \in R)
  BY <1>1, <1>2, WFMin
<1>4. x \in Nat /\ x # 0
  BY DEF Bad
<1>5. x - 1 \in Nat /\ <<x - 1, x>> \in R
  BY <1>4 DEF R
<1>6. x - 1 \in T
  BY <1>3, <1>5 DEF Bad
<1>7. (x - 1) + 1 = x
  BY <1>4
<1> QED
  BY <1>3, <1>5, <1>6, <1>7 DEF Bad

\* A sequence of values can be computed one after the other.
RunOf(f, D, base, G, n) ==
    /\ f \in [0 .. n -> D] /\ f[0] = base
    /\ \A k \in 1 .. n : f[k] = G[<<k, f[k - 1]>>]

\* A function that is given by its first value and by steps exists.
LEMMA RunExists ==
    ASSUME NEW D, NEW base \in D, NEW G \in [Nat \X D -> D], NEW n \in Nat
    PROVE  \E f : RunOf(f, D, base, G, n)
<1> DEFINE IsRun(f, k) == f[0] = base /\ \A j \in 1 .. k : f[j] = G[<<j, f[j - 1]>>]
           T == {k \in Nat : \E f \in [0 .. k -> D] : IsRun(f, k)}
<1>1. 0 \in T
  <2> DEFINE g == [i \in 0 .. 0 |-> base]
  <2>1. g \in [0 .. 0 -> D] /\ IsRun(g, 0)
    OBVIOUS
  <2> QED
    BY <2>1
<1>2. ASSUME NEW k \in Nat, k \in T PROVE k + 1 \in T
  <2>1. PICK f \in [0 .. k -> D] : IsRun(f, k)
    BY <1>2
  <2> DEFINE g == [i \in 0 .. k + 1 |-> IF i = k + 1 THEN G[<<k + 1, f[k]>>] ELSE f[i]]
  <2>2. G[<<k + 1, f[k]>>] \in D
    <3>1. f[k] \in D /\ <<k + 1, f[k]>> \in Nat \X D
      OBVIOUS
    <3> QED
      BY <3>1
  <2>3. g \in [0 .. k + 1 -> D]
    BY <2>2
  <2>4. g[0] = base
    BY <2>1
  <2>5. ASSUME NEW j \in 1 .. k + 1 PROVE g[j] = G[<<j, g[j - 1]>>]
    <3>1. CASE j = k + 1
      <4>1. j - 1 = k /\ k \in 0 .. k + 1 /\ k # k + 1 /\ k + 1 \in 0 .. k + 1
        BY <3>1
      <4>2. g[k] = f[k] /\ g[k + 1] = G[<<k + 1, f[k]>>]
        BY <4>1
      <4> QED
        BY <3>1, <4>1, <4>2
    <3>2. CASE j # k + 1
      <4>1. j \in 1 .. k /\ j - 1 \in 0 .. k
        BY <3>2
      <4>2. g[j] = f[j] /\ g[j - 1] = f[j - 1]
        BY <3>2, <4>1
      <4> QED
        BY <2>1, <4>1, <4>2
    <3> QED
      BY <3>1, <3>2
  <2> HIDE DEF g
  <2>6. IsRun(g, k + 1)
    BY <2>4, <2>5
  <2> QED
    BY <2>3, <2>6
<1> HIDE DEF T
<1>3. n \in T
  BY <1>1, <1>2, SetInduction
<1>4. PICK f \in [0 .. n -> D] : IsRun(f, n)
  BY <1>3 DEF T
<1>5. RunOf(f, D, base, G, n)
  BY <1>4 DEF RunOf
<1> QED
  BY <1>5

-----------------------------------------------------------------------------
(***************************************************************************)
(* The environment: its inductive invariant                                *)
(***************************************************************************)
EnvSpec == EnvInit /\ [][EnvNext]_envVars

\* The system tells the names apart; a block can always be enlarged, and the
\* reading that precedes PREPEND and APPEND finds memory.
NamesDiffer == \A m, n \in EnvName : Folded[m] = Folded[n] => m = n
BlocksGrow == EnvFaults \subseteq {"create", "putenv"}

EnvValue == Seq(EnvWord \cup {"system", "unset"})
EntryRec == [name : EnvName, value : EnvValue, str : Nat, maxlen : Nat]
StringRec == [name : EnvName, value : EnvValue]
CacheRec == [c : Seq(EntryRec), n : Nat]

Has(c, name) == \E i \in 1 .. Len(c) : c[i].name = name

\* A cache that has one entry at most for a name, with the value in env.
RightCache(c, env) ==
    /\ \A i, j \in 1 .. Len(c) : c[i].name = c[j].name => i = j
    /\ \A i \in 1 .. Len(c) : c[i].value = env[Folded[c[i].name]]

\* The environments differ in the variable of the name at most.
ButFor(name, env, env2) ==
    \A m \in EnvName : m # name => env2[Folded[m]] = env[Folded[m]]

\* The array that mm_get_environ() has returned holds every variable.
ArrayHolds(x) ==
    \E i \in DOMAIN envp, j \in DOMAIN envCache :
        /\ envp[i] = envCache[j].str
        /\ Folded[envCache[j].name] = x /\ envCache[j].value = ideal[x]

EnvInv ==
    /\ blocks \in Nat
    /\ ideal \in [Variable -> EnvValue]
    /\ crt \in [Variable -> StringRec]
    /\ \A x \in Variable : Folded[crt[x].name] = x /\ crt[x].value = ideal[x]
    /\ envCache \in Seq(EntryRec)
    /\ RightCache(envCache, ideal)
    /\ envFresh \in BOOLEAN
    /\ envFresh => \A x \in Variable : ideal[x] # NotSet => ArrayHolds(x)

-----------------------------------------------------------------------------
(***************************************************************************)
(* The operations of the cache                                             *)
(***************************************************************************)

LEMMA EntryIs ==
    ASSUME NEW c \in Seq(EntryRec)
    PROVE  \A i \in 1 .. Len(c) : c[i] \in EntryRec /\ c[i].name \in EnvName /\ c[i].value \in EnvValue
<1>1. \A i \in 1 .. Len(c) : c[i] \in EntryRec
  OBVIOUS
<1>2. \A e \in EntryRec : e.name \in EnvName /\ e.value \in EnvValue
  BY DEF EntryRec
<1> QED
  BY <1>1, <1>2

\* envcache_find_entry() finds the entry of a name that has one.
LEMMA FoundIs ==
    ASSUME NEW c \in Seq(EntryRec), NEW name
    PROVE  /\ envcache_find_entry(c, name) = {} <=> ~Has(c, name)
           /\ Has(c, name) => Found(c, name) \in 1 .. Len(c) /\ c[Found(c, name)].name = name
<1>1. DOMAIN c = 1 .. Len(c)
  OBVIOUS
<1>2. envcache_find_entry(c, name) = {i \in 1 .. Len(c) : c[i].name = name}
  BY <1>1 DEF envcache_find_entry
<1>3. Has(c, name) => Found(c, name) \in envcache_find_entry(c, name)
  BY <1>2 DEF Found, Has
<1> QED
  BY <1>2, <1>3 DEF Has

\* envcache_create_entry() leaves the entries there are where they are.
LEMMA CreateIs ==
    ASSUME NEW c \in Seq(EntryRec), NEW n \in Nat, NEW name \in EnvName,
           NEW s, s = envcache_create_entry(c, n, name)
    PROVE  /\ s \in CacheRec /\ Has(s.c, name) /\ Len(c) <= Len(s.c)
           /\ \A i \in 1 .. Len(c) : s.c[i] = c[i]
           /\ \A i \in 1 .. Len(s.c) : i \notin 1 .. Len(c) =>
                    i = Len(c) + 1 /\ ~Has(c, name) /\ s.c[i].name = name
<1>1. CASE Has(c, name)
  <2>1. s = [c |-> c, n |-> n]
    BY <1>1, FoundIs DEF envcache_create_entry
  <2> QED
    BY <1>1, <2>1 DEF CacheRec
<1>2. CASE ~Has(c, name)
  <2> DEFINE e == envstr_init(name, n)
  <2>1. s = [c |-> Append(c, e), n |-> n + 1]
    BY <1>2, FoundIs DEF envcache_create_entry
  <2>2. e \in EntryRec /\ e.name = name
    <3>1. <<>> \in EnvValue
      BY DEF EnvValue
    <3> QED
      BY <3>1, EnvAssumption DEF envstr_init, EntryRec
  <2> HIDE DEF e
  <2> DEFINE d == Append(c, e)
  <2>3. d \in Seq(EntryRec) /\ Len(d) = Len(c) + 1 /\ d[Len(d)] = e
        /\ \A i \in 1 .. Len(c) : d[i] = c[i]
    BY <2>2
  <2>4. s.c = d /\ s.n = n + 1
    BY <2>1
  <2>4a. s \in CacheRec
    BY <2>1, <2>3 DEF CacheRec
  <2> HIDE DEF d
  <2>5. Len(d) \in 1 .. Len(d) /\ d[Len(d)].name = name
    BY <2>2, <2>3
  <2>6. Has(d, name)
    BY <2>5 DEF Has
  <2> QED
    BY <1>2, <2>2, <2>3, <2>4, <2>4a, <2>6
<1> QED
  BY <1>1, <1>2

\* envstr_set_value() changes the value of the one entry, and its block.
LEMMA SetIs ==
    ASSUME NEW s \in CacheRec, NEW name \in EnvName, NEW value \in EnvValue,
           Has(s.c, name),
           \A i, j \in 1 .. Len(s.c) : s.c[i].name = s.c[j].name => i = j,
           NEW t, t = envstr_set_value(s, name, value)
    PROVE  /\ t \in CacheRec /\ Len(t.c) = Len(s.c)
           /\ \A i \in 1 .. Len(s.c) : t.c[i].name = s.c[i].name
           /\ \A i \in 1 .. Len(s.c) : s.c[i].name = name => t.c[i].value = value
           /\ \A i \in 1 .. Len(s.c) : s.c[i].name # name => t.c[i] = s.c[i]
<1> DEFINE f == Found(s.c, name)
           c == s.c
           grows == c[f].maxlen < Len(value)
           e == [c[f] EXCEPT !.value = value, !.str = IF grows THEN s.n + 1 ELSE @,
                             !.maxlen = IF grows THEN Len(value) ELSE @]
<1>1. c \in Seq(EntryRec) /\ s.n \in Nat
  BY DEF CacheRec
<1>2. f \in 1 .. Len(c) /\ c[f].name = name
  BY <1>1, FoundIs
<1>3. c[f] \in EntryRec
  BY <1>1, <1>2
<1>4. Len(value) \in Nat
  BY DEF EnvValue
<1> DEFINE d == [c EXCEPT ![f].value = value,
                          ![f].str = IF grows THEN s.n + 1 ELSE @,
                          ![f].maxlen = IF grows THEN Len(value) ELSE @]
<1>5. t = [c |-> d, n |-> IF grows THEN s.n + 1 ELSE s.n]
  BY DEF envstr_set_value
<1>6. e \in EntryRec /\ e.name = name /\ e.value = value
  <2> DEFINE x == c[f]
             up == IF grows THEN s.n + 1 ELSE x.str
             room == IF grows THEN Len(value) ELSE x.maxlen
  <2>1. up \in Nat /\ room \in Nat
    BY <1>1, <1>3, <1>4 DEF EntryRec
  <2>2. e = [x EXCEPT !.value = value, !.str = up, !.maxlen = room]
    OBVIOUS
  <2> HIDE DEF grows, c, f, up, room
  <2>3. x \in [name : EnvName, value : EnvValue, str : Nat, maxlen : Nat]
    BY <1>3 DEF EntryRec
  <2> HIDE DEF e, x
  <2>4. e \in [name : EnvName, value : EnvValue, str : Nat, maxlen : Nat]
        /\ e.name = x.name /\ e.value = value
    BY <2>1, <2>2, <2>3
  <2> QED
    BY <1>2, <2>4 DEF EntryRec, x
<1>7. d = [c EXCEPT ![f] = e]
  <2> HIDE DEF grows, c, f
  <2> QED
    BY <1>1, <1>2, <1>3 DEF EntryRec
<1> HIDE DEF d, e, grows, f
<1>8. d \in Seq(EntryRec) /\ Len(d) = Len(c) /\ d[f] = e
      /\ \A i \in 1 .. Len(c) : i # f => d[i] = c[i]
  BY <1>1, <1>2, <1>6, <1>7
<1>9. t \in CacheRec /\ t.c = d
  BY <1>1, <1>5, <1>8 DEF CacheRec
<1>10. \A i \in 1 .. Len(c) : c[i].name = name => i = f
  BY <1>2
<1> QED
  BY <1>2, <1>6, <1>8, <1>9, <1>10

\* A cache to which a name and its value are added is right for the environment
\* in which the variable has that value; no entry is lost.
LEMMA UpdateIs ==
    ASSUME NamesDiffer, NEW s \in CacheRec, NEW name \in EnvName, NEW value \in EnvValue,
           NEW env, NEW env2, RightCache(s.c, env),
           env2[Folded[name]] = value,
           ButFor(name, env, env2),
           NEW t, t = envstr_set_value(envcache_create_entry(s.c, s.n, name), name, value)
    PROVE  /\ t \in CacheRec /\ RightCache(t.c, env2) /\ Has(t.c, name)
           /\ Len(s.c) <= Len(t.c)
           /\ \A i \in 1 .. Len(s.c) : t.c[i].name = s.c[i].name
           /\ \A i \in 1 .. Len(s.c) : s.c[i].name # name => t.c[i] = s.c[i]
<1> DEFINE m == envcache_create_entry(s.c, s.n, name)
<1>1. s.c \in Seq(EntryRec) /\ s.n \in Nat
  BY DEF CacheRec
<1>2. /\ m \in CacheRec /\ Has(m.c, name) /\ Len(s.c) <= Len(m.c)
      /\ \A i \in 1 .. Len(s.c) : m.c[i] = s.c[i]
      /\ \A i \in 1 .. Len(m.c) : i \notin 1 .. Len(s.c) =>
             i = Len(s.c) + 1 /\ ~Has(s.c, name) /\ m.c[i].name = name
  BY <1>1, CreateIs
<1>3. t = envstr_set_value(m, name, value)
  OBVIOUS
<1> HIDE DEF m
<1>4. \A i, j \in 1 .. Len(m.c) : m.c[i].name = m.c[j].name => i = j
  <2> SUFFICES ASSUME NEW i \in 1 .. Len(m.c), NEW j \in 1 .. Len(m.c),
                      m.c[i].name = m.c[j].name
               PROVE  i = j
    OBVIOUS
  <2>1. CASE i \in 1 .. Len(s.c) /\ j \in 1 .. Len(s.c)
    BY <1>2, <2>1 DEF RightCache
  <2>2. CASE i \notin 1 .. Len(s.c) /\ j \notin 1 .. Len(s.c)
    BY <1>2, <2>2
  <2>3. CASE i \in 1 .. Len(s.c) /\ j \notin 1 .. Len(s.c)
    BY <1>2, <2>3 DEF Has
  <2>4. CASE i \notin 1 .. Len(s.c) /\ j \in 1 .. Len(s.c)
    BY <1>2, <2>4 DEF Has
  <2> QED
    BY <2>1, <2>2, <2>3, <2>4
<1>5. /\ t \in CacheRec /\ Len(t.c) = Len(m.c)
      /\ \A i \in 1 .. Len(m.c) : t.c[i].name = m.c[i].name
      /\ \A i \in 1 .. Len(m.c) : m.c[i].name = name => t.c[i].value = value
      /\ \A i \in 1 .. Len(m.c) : m.c[i].name # name => t.c[i] = m.c[i]
  BY <1>2, <1>3, <1>4, SetIs
<1>6. Len(s.c) \in Nat /\ Len(m.c) \in Nat /\ \A i \in 1 .. Len(s.c) : i \in 1 .. Len(m.c)
  BY <1>1, <1>2 DEF CacheRec
<1>7. \A i \in 1 .. Len(t.c) : t.c[i].value = env2[Folded[t.c[i].name]]
  <2> SUFFICES ASSUME NEW i \in 1 .. Len(m.c) PROVE t.c[i].value = env2[Folded[t.c[i].name]]
    BY <1>5
  <2>1. CASE m.c[i].name = name
    BY <1>5, <2>1
  <2>2. CASE m.c[i].name # name
    <3>1. i \in 1 .. Len(s.c) /\ t.c[i] = s.c[i] /\ s.c[i].name # name
      BY <1>2, <1>5, <2>2
    <3>2. s.c[i].value = env[Folded[s.c[i].name]]
      BY <3>1 DEF RightCache
    <3>3. s.c[i].name \in EnvName
      BY <1>1, <3>1, EntryIs
    <3> QED
      BY <3>1, <3>2, <3>3 DEF ButFor
  <2> QED
    BY <2>1, <2>2
<1>8. RightCache(t.c, env2)
  BY <1>4, <1>5, <1>7 DEF RightCache
<1>9. Has(t.c, name)
  BY <1>2, <1>5 DEF Has
<1> QED
  BY <1>2, <1>5, <1>6, <1>8, <1>9

\* What envcache_remove_entry() leaves is right whatever becomes of the variable.
LEMMA RemoveIs ==
    ASSUME NEW c \in Seq(EntryRec), NEW name \in EnvName, NEW env, NEW env2,
           RightCache(c, env), ButFor(name, env, env2)
    PROVE  /\ envcache_remove_entry(c, name) \in Seq(EntryRec)
           /\ RightCache(envcache_remove_entry(c, name), env2)
<1> DEFINE r == envcache_remove_entry(c, name)
<1>0. \A i \in 1 .. Len(c) : c[i].name \in EnvName
  BY EntryIs
<1>1. CASE ~Has(c, name)
  <2>1. r = c
    BY <1>1, FoundIs DEF envcache_remove_entry
  <2>2. \A i \in 1 .. Len(c) : c[i].name # name
    BY <1>1 DEF Has
  <2> QED
    BY <1>0, <2>1, <2>2 DEF RightCache, ButFor
<1>2. CASE Has(c, name)
  <2> DEFINE f == Found(c, name)
  <2>1. r = RemoveAt(c, f) /\ f \in 1 .. Len(c) /\ c[f].name = name
    BY <1>2, FoundIs DEF envcache_remove_entry
  <2> HIDE DEF f, r
  <2>2. /\ r \in Seq(EntryRec) /\ Len(r) = Len(c) - 1
        /\ \A k \in 1 .. Len(c) - 1 : r[k] = IF k < f THEN c[k] ELSE c[k + 1]
    BY <2>1, RemoveAtShifts
  <2> DEFINE At(k) == IF k < f THEN k ELSE k + 1
  <2>3. ASSUME NEW k \in 1 .. Len(r)
        PROVE  At(k) \in 1 .. Len(c) /\ At(k) # f /\ r[k] = c[At(k)]
    BY <2>1, <2>2, <2>3
  <2>4. \A j, k \in 1 .. Len(r) : At(j) = At(k) => j = k
    BY <2>1
  <2> HIDE DEF At
  <2>5. \A k \in 1 .. Len(r) : c[At(k)].name # name
    BY <2>1, <2>3 DEF RightCache
  <2>6. \A k \in 1 .. Len(r) : r[k].value = env2[Folded[r[k].name]]
    BY <1>0, <2>3, <2>5 DEF RightCache, ButFor
  <2>7. \A j, k \in 1 .. Len(r) : r[j].name = r[k].name => j = k
    BY <2>3, <2>4 DEF RightCache
  <2> QED
    BY <2>2, <2>6, <2>7 DEF RightCache, r
<1> QED
  BY <1>1, <1>2

-----------------------------------------------------------------------------
(***************************************************************************)
(* mm_get_environ()                                                        *)
(***************************************************************************)

\* The loop over the strings of the system is one step for each.
LEMMA CacheRunIs ==
    ASSUME NEW n \in Nat, blocks \in Nat, envCache \in Seq(EntryRec), NamesDiffer,
           RightCache(envCache, ideal),
           NEW strings \in Seq(StringRec), n = Len(strings),
           \A k \in 1 .. n : strings[k].value = ideal[Folded[strings[k].name]]
    PROVE  LET s == CacheRun(strings)[n]
           IN  /\ s \in CacheRec /\ RightCache(s.c, ideal)
               /\ \A k \in 1 .. n : Has(s.c, strings[k].name)
<1> DEFINE D == {s \in CacheRec : RightCache(s.c, ideal)}
           base == [c |-> envCache, n |-> blocks]
           Up(s, k) == update_environment_cache(s, strings[k])
           G == [q \in Nat \X D |-> IF q[1] \in 1 .. n THEN Up(q[2], q[1]) ELSE q[2]]
           IsRun(f) == f = [k \in 0 .. n |-> IF k = 0 THEN base ELSE Up(f[k - 1], k)]
           Keeps(s, t) == \A m \in EnvName : Has(s.c, m) => Has(t.c, m)
<1>0. \A k \in 1 .. n : strings[k].name \in EnvName /\ strings[k].value \in EnvValue
  <2>1. \A k \in 1 .. n : strings[k] \in StringRec
    OBVIOUS
  <2>2. \A e \in StringRec : e.name \in EnvName /\ e.value \in EnvValue
    BY DEF StringRec
  <2> QED
    BY <2>1, <2>2
<1>1. base \in D
  BY DEF CacheRec
<1>2. ASSUME NEW s \in D, NEW k \in 1 .. n
      PROVE  Up(s, k) \in D /\ Has(Up(s, k).c, strings[k].name) /\ Keeps(s, Up(s, k))
  <2> DEFINE e == strings[k]
             t == Up(s, k)
  <2>1. e.name \in EnvName /\ e.value \in EnvValue
    BY <1>0
  <2>2. ideal[Folded[e.name]] = e.value
    OBVIOUS
  <2>3. t = envstr_set_value(envcache_create_entry(s.c, s.n, e.name), e.name, e.value)
    BY DEF update_environment_cache
  <2> HIDE DEF e, t
  <2>a. ButFor(e.name, ideal, ideal)
    BY DEF ButFor
  <2>4. /\ t \in CacheRec /\ RightCache(t.c, ideal) /\ Has(t.c, e.name)
        /\ Len(s.c) <= Len(t.c)
        /\ \A i \in 1 .. Len(s.c) : t.c[i].name = s.c[i].name
    BY <2>1, <2>2, <2>3, <2>a, UpdateIs
  <2>5. Len(s.c) \in Nat /\ Len(t.c) \in Nat
    <3>1. s \in CacheRec /\ t \in CacheRec
      BY <2>4
    <3>2. s.c \in Seq(EntryRec) /\ t.c \in Seq(EntryRec)
      BY ONLY <3>1 DEF CacheRec
    <3> QED
      BY ONLY <3>2
  <2>6. Keeps(s, t)
    BY <2>4, <2>5 DEF Has
  <2> QED
    BY <2>4, <2>6 DEF e, t
<1>3. G \in [Nat \X D -> D] /\ \A k \in 1 .. n : \A s \in D : G[<<k, s>>] = Up(s, k)
  <2> HIDE DEF D, Up
  <2> QED
    BY <1>2
<1>4. CacheRun(strings) = CHOOSE f : IsRun(f)
  BY DEF CacheRun
<1> HIDE DEF G, D, base, Up
<1>5. PICK f : RunOf(f, D, base, G, n)
  BY <1>1, <1>3, RunExists
<1>6. f \in [0 .. n -> D] /\ f[0] = base /\ \A k \in 1 .. n : f[k] = G[<<k, f[k - 1]>>]
  BY <1>5 DEF RunOf
<1>7. \A k \in 1 .. n : f[k] = Up(f[k - 1], k)
  <2> SUFFICES ASSUME NEW k \in 1 .. n PROVE f[k] = Up(f[k - 1], k)
    OBVIOUS
  <2>1. k - 1 \in 0 .. n
    OBVIOUS
  <2>2. f[k - 1] \in D
    BY <1>6, <2>1
  <2> QED
    BY <1>3, <1>6, <2>2
<1>8. IsRun(f)
  BY <1>6, <1>7
<1>9. IsRun(CacheRun(strings))
  BY <1>4, <1>8
<1> DEFINE g == CacheRun(strings)
           T == {k \in Nat : k <= n => g[k] \in D /\ \A j \in 1 .. k : Has(g[k].c, strings[j].name)}
<1>10. g = [k \in 0 .. n |-> IF k = 0 THEN base ELSE Up(g[k - 1], k)]
  BY <1>9
<1> HIDE DEF g
<1>11. g[0] = base /\ \A k \in 1 .. n : g[k] = Up(g[k - 1], k)
  BY <1>10
<1>12. 0 \in T
  BY <1>1, <1>11
<1>13. ASSUME NEW k \in Nat, k \in T PROVE k + 1 \in T
  <2> SUFFICES ASSUME k + 1 <= n
               PROVE  g[k + 1] \in D /\ \A j \in 1 .. k + 1 : Has(g[k + 1].c, strings[j].name)
    OBVIOUS
  <2>1. k + 1 \in 1 .. n /\ k <= n /\ (k + 1) - 1 = k
    OBVIOUS
  <2>2. g[k] \in D /\ \A j \in 1 .. k : Has(g[k].c, strings[j].name)
    BY <1>13, <2>1
  <2>3. g[k + 1] = Up(g[k], k + 1)
    BY <1>11, <2>1
  <2>4. g[k + 1] \in D /\ Has(g[k + 1].c, strings[k + 1].name) /\ Keeps(g[k], g[k + 1])
    BY <1>2, <2>1, <2>2, <2>3
  <2>5. ASSUME NEW j \in 1 .. k + 1 PROVE Has(g[k + 1].c, strings[j].name)
    <3>1. CASE j = k + 1
      BY <2>4, <3>1
    <3>2. CASE j # k + 1
      <4>1. j \in 1 .. k /\ j \in 1 .. n
        BY <2>1, <3>2
      <4>2. strings[j].name \in EnvName
        BY <1>0, <4>1
      <4> QED
        BY <2>2, <2>4, <4>1, <4>2
    <3> QED
      BY <3>1, <3>2
  <2> QED
    BY <2>4, <2>5
<1> HIDE DEF T
<1>14. n \in T
  BY <1>12, <1>13, SetInduction
<1> QED
  BY <1>14 DEF T, D, g

LEMMA VariablesFinite ==
    ASSUME crt \in [Variable -> StringRec]
    PROVE  IsFiniteSet(Range(crt))
<1>1. IsFiniteSet(EnvName) /\ DOMAIN Folded = EnvName
  BY EnvAssumption
<1> DEFINE f == [n \in EnvName |-> crt[Folded[n]]]
<1>2. Range(crt) = {crt[x] : x \in Variable}
  BY DEF Range
<1>3. \A n \in EnvName : f[n] \in Range(crt)
  BY <1>2 DEF Variable
<1>4. \A e \in Range(crt) : \E n \in EnvName : f[n] = e
  BY <1>2 DEF Variable
<1>5. f \in [EnvName -> Range(crt)]
  BY <1>3
<1> HIDE DEF f
<1>6. f \in Surjection(EnvName, Range(crt))
  BY <1>4, <1>5 DEF Surjection
<1> QED
  BY <1>1, <1>6, FS_Surjection

\* mm_get_environ() leaves a right cache, and an array that holds all of it.
LEMMA EnvironKeeps ==
    ASSUME EnvInv, NamesDiffer, BlocksGrow, mm_get_environ
    PROVE  EnvInv'
<1> DEFINE E == {e \in Range(crt) : e.value # NotSet}
<1>1. PICK strings \in InSomeOrder(E) :
        /\ envCache' = CacheRun(strings)[Len(strings)].c
        /\ blocks' = CacheRun(strings)[Len(strings)].n
        /\ envp' = [i \in DOMAIN CacheRun(strings)[Len(strings)].c |->
                        CacheRun(strings)[Len(strings)].c[i].str]
        /\ envFresh' = TRUE /\ UNCHANGED <<crt, ideal, envDone>>
  <2>1. "environ" \notin EnvFaults
    BY DEF BlocksGrow
  <2>2. E \ {} = E
    OBVIOUS
  <2> QED
    BY <2>1, <2>2 DEF mm_get_environ
<1>2. /\ blocks \in Nat /\ ideal \in [Variable -> EnvValue] /\ crt \in [Variable -> StringRec]
      /\ \A x \in Variable : Folded[crt[x].name] = x /\ crt[x].value = ideal[x]
      /\ envCache \in Seq(EntryRec) /\ RightCache(envCache, ideal)
  BY DEF EnvInv
<1>3. Range(crt) = {crt[x] : x \in Variable}
  BY <1>2 DEF Range
<1>4. \A e \in E : e \in StringRec /\ e.value = ideal[Folded[e.name]]
  BY <1>2, <1>3
<1>5. IsFiniteSet(E)
  BY <1>2, VariablesFinite, FS_Subset
<1>6. Cardinality(E) \in Nat
  BY <1>5, FS_CardinalityType
<1> HIDE DEF E
<1>7. strings \in [1 .. Cardinality(E) -> E] /\ Range(strings) = E
  BY DEF InSomeOrder
<1> DEFINE n == Len(strings)
<1>8. strings \in Seq(StringRec) /\ n \in Nat /\ DOMAIN strings = 1 .. n
  <2>1. strings \in Seq(E)
    BY <1>6, <1>7
  <2>2. E \subseteq StringRec
    BY <1>4
  <2>3. strings \in Seq(StringRec)
    BY <1>4, <1>6, <1>7
  <2> QED
    BY <2>3
<1>9. \A k \in 1 .. n : strings[k] \in E
  BY <1>7, <1>8
<1>10. \A k \in 1 .. n : strings[k].value = ideal[Folded[strings[k].name]]
  BY <1>4, <1>9
<1> DEFINE s == CacheRun(strings)[n]
<1>11. /\ s \in CacheRec /\ RightCache(s.c, ideal)
       /\ \A k \in 1 .. n : Has(s.c, strings[k].name)
  BY <1>2, <1>8, <1>10, CacheRunIs
<1>12. /\ envCache' = s.c /\ blocks' = s.n /\ envp' = [i \in DOMAIN s.c |-> s.c[i].str]
       /\ envFresh' = TRUE /\ crt' = crt /\ ideal' = ideal
  BY <1>1
<1> HIDE DEF s, n
<1>13. s.c \in Seq(EntryRec) /\ s.n \in Nat /\ DOMAIN s.c = 1 .. Len(s.c)
  BY <1>11 DEF CacheRec
<1>14. ASSUME NEW x \in Variable, ideal[x] # NotSet PROVE ArrayHolds(x)'
  <2>1. crt[x] \in E
    BY <1>2, <1>3, <1>14 DEF E
  <2>2. PICK k \in 1 .. n : strings[k] = crt[x]
    BY <1>7, <1>8, <2>1 DEF Range
  <2>3. PICK j \in 1 .. Len(s.c) : s.c[j].name = crt[x].name
    BY <1>11, <2>2 DEF Has
  <2>4. Folded[s.c[j].name] = x /\ s.c[j].value = ideal[x]
    BY <1>2, <1>11, <2>3 DEF RightCache
  <2>5. j \in DOMAIN s.c /\ j \in DOMAIN envp' /\ envp'[j] = s.c[j].str
    BY <1>12, <1>13
  <2>6. j \in DOMAIN envCache' /\ envp'[j] = envCache'[j].str
        /\ Folded[envCache'[j].name] = x /\ envCache'[j].value = ideal'[x]
    BY <1>12, <2>4, <2>5
  <2> QED
    BY <2>5, <2>6 DEF ArrayHolds
<1> QED
  BY <1>2, <1>11, <1>12, <1>13, <1>14 DEF EnvInv

-----------------------------------------------------------------------------
(***************************************************************************)
(* The other calls                                                         *)
(***************************************************************************)

\* mm_getenv() and the C runtime agree with the history.
LEMMA LookUpIs ==
    ASSUME EnvInv, NEW name \in EnvName
    PROVE  /\ Folded[name] \in Variable /\ ideal[Folded[name]] \in EnvValue
           /\ get_u16env(name) = ideal[Folded[name]]
           /\ LookUp(name) = ideal[Folded[name]]
<1>1. Folded[name] \in Variable
  BY DEF Variable
<1>2. ideal[Folded[name]] \in EnvValue /\ get_u16env(name) = ideal[Folded[name]]
  BY <1>1 DEF EnvInv, get_u16env
<1>3. envCache \in Seq(EntryRec) /\ RightCache(envCache, ideal)
  BY DEF EnvInv
<1>4. CASE Has(envCache, name)
  <2>1. Found(envCache, name) \in 1 .. Len(envCache) /\ envCache[Found(envCache, name)].name = name
        /\ envcache_find_entry(envCache, name) # {}
    BY <1>3, <1>4, FoundIs
  <2> QED
    BY <1>1, <1>2, <1>3, <2>1 DEF LookUp, RightCache
<1>5. CASE ~Has(envCache, name)
  <2>1. envcache_find_entry(envCache, name) = {}
    BY <1>3, <1>5, FoundIs
  <2> QED
    BY <1>1, <1>2, <2>1 DEF LookUp
<1> QED
  BY <1>4, <1>5

\* mm_getenv() adds what it has read, and leaves the array as it is.
LEMMA GetenvKeeps ==
    ASSUME EnvInv, NamesDiffer, BlocksGrow, NEW name \in EnvName, getenv_utf8(name)
    PROVE  EnvInv'
<1> DEFINE v == get_u16env(name)
           b == [c |-> envCache, n |-> blocks]
           m == envcache_create_entry(envCache, blocks, name)
           t == envstr_set_value(m, name, v)
<1>1. /\ blocks \in Nat /\ ideal \in [Variable -> EnvValue] /\ crt \in [Variable -> StringRec]
      /\ \A x \in Variable : Folded[crt[x].name] = x /\ crt[x].value = ideal[x]
      /\ envCache \in Seq(EntryRec) /\ RightCache(envCache, ideal)
      /\ envFresh \in BOOLEAN
      /\ envFresh => \A x \in Variable : ideal[x] # NotSet => ArrayHolds(x)
  BY DEF EnvInv
<1>2. ~Has(envCache, name) /\ UNCHANGED <<crt, envp, envFresh, ideal>>
  BY <1>1, FoundIs DEF getenv_utf8
<1>3. \/ envCache' = t.c /\ blocks' = t.n
      \/ UNCHANGED <<envCache, blocks>>
  <2>1. May("resize") = {TRUE}
    BY DEF BlocksGrow, May
  <2> QED
    BY <2>1 DEF getenv_utf8
<1>4. CASE UNCHANGED <<envCache, blocks>>
  BY <1>1, <1>2, <1>4 DEF EnvInv, ArrayHolds
<1>5. CASE envCache' = t.c /\ blocks' = t.n
  <2>1. v \in EnvValue /\ ideal[Folded[name]] = v
    BY LookUpIs
  <2>2. b \in CacheRec /\ b.c = envCache /\ b.n = blocks
    BY <1>1 DEF CacheRec
  <2> HIDE DEF v, b
  <2>3. t = envstr_set_value(envcache_create_entry(b.c, b.n, name), name, v)
    BY <2>2
  <2> HIDE DEF t
  <2>4. RightCache(b.c, ideal)
    BY <1>1, <2>2
  <2>a. ButFor(name, ideal, ideal)
    BY DEF ButFor
  <2>5. /\ t \in CacheRec /\ RightCache(t.c, ideal) /\ Len(b.c) <= Len(t.c)
        /\ \A i \in 1 .. Len(b.c) : b.c[i].name # name => t.c[i] = b.c[i]
    BY <2>1, <2>2, <2>3, <2>4, <2>a, UpdateIs
  <2>6. t.c \in Seq(EntryRec) /\ t.n \in Nat /\ DOMAIN t.c = 1 .. Len(t.c)
        /\ Len(t.c) \in Nat /\ Len(envCache) \in Nat /\ DOMAIN envCache = 1 .. Len(envCache)
    BY <1>1, <2>5 DEF CacheRec
  <2>7. \A j \in DOMAIN envCache : j \in DOMAIN envCache' /\ envCache'[j] = envCache[j]
    BY <1>2, <1>5, <2>2, <2>5, <2>6 DEF Has
  <2>8. ASSUME envFresh, NEW x \in Variable, ideal[x] # NotSet PROVE ArrayHolds(x)'
    <3>1. ArrayHolds(x)
      BY <1>1, <2>8
    <3> QED
      BY <1>2, <2>7, <3>1 DEF ArrayHolds
  <2> QED
    BY <1>1, <1>2, <1>5, <2>5, <2>6, <2>8 DEF EnvInv
<1> QED
  BY <1>3, <1>4, <1>5

\* What _wputenv() makes of the environment of the runtime, and the caller of
\* the history.
Puts(name, value, w, env) ==
    /\ w = [crt EXCEPT ![Folded[name]] = [name |-> name, value |-> value]]
    /\ env = [ideal EXCEPT ![Folded[name]] = value]

LEMMA PutIs ==
    ASSUME EnvInv, NamesDiffer, NEW name \in EnvName, NEW value \in EnvValue,
           NEW env, NEW w, Puts(name, value, w, env)
    PROVE  /\ env \in [Variable -> EnvValue] /\ w \in [Variable -> StringRec]
           /\ \A x \in Variable : Folded[w[x].name] = x /\ w[x].value = env[x]
           /\ env[Folded[name]] = value
           /\ ButFor(name, ideal, env) /\ ButFor(name, env, ideal)
<1>1. Folded[name] \in Variable /\ \A m \in EnvName : Folded[m] \in Variable
  BY DEF Variable
<1>2. ideal \in [Variable -> EnvValue] /\ crt \in [Variable -> StringRec]
      /\ \A x \in Variable : Folded[crt[x].name] = x /\ crt[x].value = ideal[x]
  BY DEF EnvInv
<1> DEFINE e == [name |-> name, value |-> value]
<1>3. e \in StringRec /\ e.name = name /\ e.value = value
  BY DEF StringRec
<1>4. w = [crt EXCEPT ![Folded[name]] = e]
  BY DEF Puts
<1> HIDE DEF e
<1>5. w \in [Variable -> StringRec] /\ w[Folded[name]] = e
      /\ \A x \in Variable : x # Folded[name] => w[x] = crt[x]
  BY <1>1, <1>2, <1>3, <1>4
<1>6. env \in [Variable -> EnvValue] /\ env[Folded[name]] = value
      /\ \A x \in Variable : x # Folded[name] => env[x] = ideal[x]
  BY <1>1, <1>2 DEF Puts
<1>7. ASSUME NEW x \in Variable PROVE Folded[w[x].name] = x /\ w[x].value = env[x]
  <2>1. CASE x = Folded[name]
    BY <1>3, <1>5, <1>6, <2>1
  <2>2. CASE x # Folded[name]
    BY <1>2, <1>5, <1>6, <2>2
  <2> QED
    BY <2>1, <2>2
<1>8. ButFor(name, ideal, env) /\ ButFor(name, env, ideal)
  BY <1>1, <1>6 DEF NamesDiffer, ButFor
<1> QED
  BY <1>5, <1>6, <1>7, <1>8

\* mm_unsetenv() forgets the entry, whether the runtime obeys or not.
LEMMA UnsetenvKeeps ==
    ASSUME EnvInv, NamesDiffer, NEW name \in EnvName, mm_unsetenv(name)
    PROVE  EnvInv'
<1> DEFINE c == envcache_remove_entry(envCache, name)
           env == [ideal EXCEPT ![Folded[name]] = NotSet]
           w == _wputenv(name, NotSet)
<1>1. /\ blocks \in Nat /\ ideal \in [Variable -> EnvValue] /\ crt \in [Variable -> StringRec]
      /\ \A x \in Variable : Folded[crt[x].name] = x /\ crt[x].value = ideal[x]
      /\ envCache \in Seq(EntryRec) /\ RightCache(envCache, ideal)
  BY DEF EnvInv
<1>2. NotSet \in EnvValue
  BY DEF NotSet, EnvValue
<1>3. /\ envCache' = c /\ blocks' = blocks /\ envFresh' = FALSE
      /\ \/ crt' = w /\ ideal' = env
         \/ crt' = crt /\ ideal' = ideal
  BY DEF mm_unsetenv
<1>a. Puts(name, NotSet, w, env)
  BY DEF _wputenv, Puts
<1> HIDE DEF c, env, w
<1>4. /\ env \in [Variable -> EnvValue] /\ w \in [Variable -> StringRec]
      /\ \A x \in Variable : Folded[w[x].name] = x /\ w[x].value = env[x]
      /\ ButFor(name, ideal, env) /\ ButFor(name, env, ideal)
  BY <1>2, <1>a, PutIs
<1>5. c \in Seq(EntryRec) /\ RightCache(c, env) /\ RightCache(c, ideal)
  <2>1. ButFor(name, ideal, ideal)
    BY DEF ButFor
  <2> QED
    BY <1>1, <1>4, <2>1, RemoveIs DEF c
<1>6. CASE crt' = w /\ ideal' = env
  BY <1>1, <1>3, <1>4, <1>5, <1>6 DEF EnvInv
<1>7. CASE crt' = crt /\ ideal' = ideal
  BY <1>1, <1>3, <1>5, <1>7 DEF EnvInv
<1> QED
  BY <1>3, <1>6, <1>7

\* setenv_utf8() on a cache that is right: when it sets the variable the cache
\* has the new value, and when the runtime refuses it has none.
LEMMA SetUtf8Keeps ==
    ASSUME EnvInv, NamesDiffer, BlocksGrow, NEW name \in EnvName, NEW value \in EnvValue,
           NEW overwrite \in BOOLEAN, NEW s \in CacheRec, RightCache(s.c, ideal),
           s = [c |-> envCache, n |-> blocks] \/ (overwrite /\ Has(s.c, name)),
           setenv_utf8(s, name, value, value, overwrite), envp' = envp
    PROVE  EnvInv'
<1> DEFINE made == envcache_create_entry(s.c, s.n, name)
           set == envstr_set_value(made, name, value)
           env == [ideal EXCEPT ![Folded[name]] = value]
           w == _wputenv(name, value)
           gone == envcache_remove_entry(set.c, name)
<1>1. /\ blocks \in Nat /\ ideal \in [Variable -> EnvValue] /\ crt \in [Variable -> StringRec]
      /\ \A x \in Variable : Folded[crt[x].name] = x /\ crt[x].value = ideal[x]
      /\ envCache \in Seq(EntryRec) /\ RightCache(envCache, ideal)
      /\ envFresh \in BOOLEAN
  BY DEF EnvInv
<1>2. s.c \in Seq(EntryRec) /\ s.n \in Nat
  BY DEF CacheRec
<1>3. \/ /\ ~overwrite /\ envCache' = s.c /\ blocks' = s.n
         /\ UNCHANGED <<crt, ideal, envFresh>>
      \/ /\ ~Has(s.c, name) /\ envCache' = s.c /\ blocks' = s.n
         /\ UNCHANGED <<crt, ideal>> /\ envFresh' = envFresh
      \/ /\ envFresh' = FALSE /\ blocks' = set.n
         /\ \/ envCache' = set.c /\ crt' = w /\ ideal' = env
            \/ envCache' = gone /\ crt' = crt /\ ideal' = ideal
  <2>1. CASE ~overwrite /\ get_u16env(name) # NotSet
    BY <2>1 DEF setenv_utf8
  <2>2. CASE ~(~overwrite /\ get_u16env(name) # NotSet)
    <3>1. May("resize") = {TRUE} /\ May("create") \subseteq BOOLEAN /\ May("putenv") \subseteq BOOLEAN
      BY DEF BlocksGrow, May
    <3>2. envcache_find_entry(s.c, name) # {} <=> Has(s.c, name)
      BY <1>2, FoundIs
    <3> DEFINE mayCreate(created) == created \/ envcache_find_entry(s.c, name) # {}
    <3>3. PICK created \in BOOLEAN, put \in BOOLEAN :
             /\ envFresh' = (envFresh /\ ~mayCreate(created))
             /\ CASE ~mayCreate(created) ->
                        /\ envCache' = s.c /\ blocks' = s.n
                        /\ UNCHANGED <<crt, ideal>>
                 [] mayCreate(created) /\ ~TRUE /\ Grows(made, name, value) ->
                        /\ envCache' = made.c /\ blocks' = made.n
                        /\ UNCHANGED <<crt, ideal>>
                 [] OTHER ->
                        /\ blocks' = set.n
                        /\ envCache' = IF put THEN set.c ELSE gone
                        /\ crt' = IF put THEN w ELSE crt
                        /\ ideal' = IF put THEN env ELSE ideal
      BY <2>2, <3>1 DEF setenv_utf8
    <3> HIDE DEF made, set, env, w, gone
    <3>4. CASE mayCreate(created)
      <4>1. envFresh' = FALSE /\ blocks' = set.n
            /\ envCache' = (IF put THEN set.c ELSE gone)
            /\ crt' = (IF put THEN w ELSE crt) /\ ideal' = (IF put THEN env ELSE ideal)
        BY <3>3, <3>4
      <4> QED
        BY <4>1
    <3>5. CASE ~mayCreate(created)
      <4>1. ~Has(s.c, name) /\ envCache' = s.c /\ blocks' = s.n /\ UNCHANGED <<crt, ideal>>
        BY <3>2, <3>3, <3>5
      <4>2. envFresh' = envFresh
        BY <1>1, <3>3, <3>5
      <4> QED
        BY <4>1, <4>2
    <3> QED
      BY <3>4, <3>5
  <2> QED
    BY <2>1, <2>2
<1>a. Puts(name, value, w, env)
  BY DEF _wputenv, Puts
<1>b. set = envstr_set_value(envcache_create_entry(s.c, s.n, name), name, value)
  OBVIOUS
<1> HIDE DEF env, w, set
<1>4. /\ env \in [Variable -> EnvValue] /\ w \in [Variable -> StringRec]
      /\ \A x \in Variable : Folded[w[x].name] = x /\ w[x].value = env[x]
      /\ env[Folded[name]] = value
      /\ ButFor(name, ideal, env) /\ ButFor(name, env, ideal)
  BY <1>a, PutIs
<1>5. set \in CacheRec /\ RightCache(set.c, env)
  BY <1>4, <1>b, UpdateIs
<1>6. set.c \in Seq(EntryRec) /\ set.n \in Nat
  BY <1>5 DEF CacheRec
<1>7. gone \in Seq(EntryRec) /\ RightCache(gone, ideal)
  BY <1>4, <1>5, <1>6, RemoveIs
<1> HIDE DEF gone
<1>8. CASE envCache' = s.c /\ blocks' = s.n /\ UNCHANGED <<crt, ideal, envFresh>>
           /\ s = [c |-> envCache, n |-> blocks]
  <2>1. envCache' = envCache /\ blocks' = blocks
    BY <1>8
  <2> QED
    BY <1>8, <2>1 DEF EnvInv, ArrayHolds
<1>9. CASE envFresh' = FALSE /\ blocks' = set.n /\ envCache' = set.c /\ crt' = w /\ ideal' = env
  BY <1>4, <1>5, <1>6, <1>9 DEF EnvInv
<1>10. CASE envFresh' = FALSE /\ blocks' = set.n /\ envCache' = gone /\ crt' = crt /\ ideal' = ideal
  BY <1>1, <1>6, <1>7, <1>10 DEF EnvInv
<1> QED
  BY <1>3, <1>8, <1>9, <1>10

\* The words of a value.
LEMMA JoinedIs ==
    ASSUME NEW word \in EnvWord, NEW old \in EnvValue, NEW action
    PROVE  Joined(action, word, old) \in EnvValue
<1> DEFINE W == EnvWord \cup {"system", "unset"}
<1>1. <<word>> \in Seq(W) /\ old \in Seq(W) /\ word \in W
  BY DEF EnvValue
<1> HIDE DEF W
<1>2. <<word>> \o old \in Seq(W) /\ Append(old, word) \in Seq(W)
  BY <1>1
<1> QED
  BY <1>1, <1>2 DEF Joined, EnvValue, W

\* mm_setenv(), which reads the variable first to join words to it.
LEMMA SetenvKeeps ==
    ASSUME EnvInv, NamesDiffer, BlocksGrow, NEW name \in EnvName, NEW word \in EnvWord,
           NEW action \in {"ADD", "OVERWRITE", "PREPEND", "APPEND"},
           mm_setenv(name, word, action)
    PROVE  EnvInv'
<1> DEFINE before == [c |-> envCache, n |-> blocks]
           cached == envcache_find_entry(envCache, name) # {}
           Old(seen) == IF seen \/ cached THEN LookUp(name) ELSE NotSet
           read == envstr_set_value(envcache_create_entry(envCache, blocks, name), name, LookUp(name))
           S(seen) == IF ~seen \/ cached \/ Old(seen) = NotSet THEN before
                      ELSE envstr_set_value(
                             envcache_create_entry(envCache, blocks, name), name, Old(seen))
           env == ideal[Folded[name]]
           joins == action \in {"PREPEND", "APPEND"}
           Sets(seen) == setenv_utf8(S(seen), name, Joined(action, word, Old(seen)),
                                     Joined(action, word, env), action # "ADD")
<1>1. PICK seen \in BOOLEAN : (seen <=> joins) /\ Sets(seen)
  <2>1. May("peek") = {TRUE}
    BY DEF BlocksGrow, May
  <2>2. CASE joins
    <3>1. Sets(TRUE)
      BY <2>1, <2>2 DEF mm_setenv
    <3> HIDE DEF Sets
    <3> QED
      BY <2>2, <3>1
  <2>3. CASE ~joins
    <3>1. Sets(FALSE)
      BY <2>3 DEF mm_setenv
    <3> HIDE DEF Sets
    <3> QED
      BY <2>3, <3>1
  <2> QED
    BY <2>2, <2>3
<1>a. seen <=> joins
  BY <1>1
<1>2. env \in EnvValue /\ LookUp(name) = env
  BY LookUpIs
<1>3. before \in CacheRec /\ before.c = envCache /\ before.n = blocks /\ RightCache(before.c, ideal)
  BY DEF EnvInv, CacheRec
<1>4. Joined(action, word, Old(seen)) = Joined(action, word, env)
  <2>1. CASE joins
    <3>1. Old(seen) = env
      BY <1>2, <1>a, <2>1
    <3> QED
      BY <3>1
  <2>2. CASE ~joins
    <3>1. action # "PREPEND" /\ action # "APPEND"
      BY <2>2
    <3> QED
      BY <3>1 DEF Joined
  <2> QED
    BY <2>1, <2>2
<1>5. /\ S(seen) \in CacheRec /\ RightCache(S(seen).c, ideal)
      /\ S(seen) = before \/ (joins /\ Has(S(seen).c, name))
  <2>1. CASE S(seen) = before
    BY <1>3, <2>1
  <2>2. CASE S(seen) # before
    <3>1. joins /\ S(seen) = read
      BY <1>a, <2>2
    <3>2. read = envstr_set_value(envcache_create_entry(before.c, before.n, name), name, env)
      BY <1>2, <1>3
    <3> HIDE DEF read, before, env
    <3>3. ideal[Folded[name]] = env
      BY DEF env
    <3>a. ButFor(name, ideal, ideal)
      BY DEF ButFor
    <3>4. read \in CacheRec /\ RightCache(read.c, ideal) /\ Has(read.c, name)
      BY <1>2, <1>3, <3>2, <3>3, <3>a, UpdateIs
    <3> HIDE DEF S
    <3> QED
      BY <3>1, <3>4
  <2> QED
    BY <2>1, <2>2
<1> DEFINE s == S(seen)
           value == Joined(action, word, env)
<1>6. value \in EnvValue
  BY <1>2, JoinedIs
<1>7. setenv_utf8(s, name, value, value, action # "ADD")
  BY <1>1, <1>4
<1>8. joins => action # "ADD"
  OBVIOUS
<1>9. envp' = envp /\ (action # "ADD") \in BOOLEAN
  BY DEF mm_setenv
<1>10. s = [c |-> envCache, n |-> blocks] \/ (action # "ADD" /\ Has(s.c, name))
  BY <1>5, <1>8
<1>11. s \in CacheRec /\ RightCache(s.c, ideal)
  BY <1>5
<1> HIDE DEF s, value, joins
<1> QED
  BY <1>6, <1>7, <1>9, <1>10, <1>11, SetUtf8Keeps

-----------------------------------------------------------------------------
(***************************************************************************)
(* The theorem                                                             *)
(***************************************************************************)
LEMMA InitEnvInv == EnvInit => EnvInv
<1> SUFFICES ASSUME EnvInit PROVE EnvInv
  OBVIOUS
<1>1. <<"system">> \in EnvValue /\ NotSet \in EnvValue
  BY DEF EnvValue, NotSet
<1> DEFINE R == {[name |-> n, value |-> v] : n \in EnvName, v \in {NotSet, <<"system">>}}
<1>2. R \subseteq StringRec
  BY <1>1 DEF StringRec
<1>3. crt \in [Variable -> R] /\ \A x \in Variable : Folded[crt[x].name] = x
  BY DEF EnvInit
<1>4. crt \in [Variable -> StringRec]
  BY <1>2, <1>3
<1>5. ideal = [x \in Variable |-> crt[x].value]
  BY DEF EnvInit
<1>6. \A x \in Variable : crt[x].value \in EnvValue
  BY <1>4 DEF StringRec
<1>7. ideal \in [Variable -> EnvValue] /\ \A x \in Variable : crt[x].value = ideal[x]
  BY <1>5, <1>6
<1>8. envCache = <<>> /\ blocks = 0 /\ envFresh = FALSE
  BY DEF EnvInit
<1>9. envCache \in Seq(EntryRec) /\ RightCache(envCache, ideal)
  BY <1>8 DEF RightCache
<1>10. envFresh \in BOOLEAN /\ ~envFresh
  BY <1>8
<1> QED
  BY <1>3, <1>4, <1>7, <1>8, <1>9, <1>10 DEF EnvInv

LEMMA EnvAgreesFollows == EnvInv => EnvAgrees
<1> SUFFICES ASSUME EnvInv PROVE EnvAgrees
  OBVIOUS
<1>1. \A n \in EnvName : LookUp(n) = ideal[Folded[n]] /\ get_u16env(n) = ideal[Folded[n]]
  BY LookUpIs
<1>2. DOMAIN envCache = 1 .. Len(envCache) /\ RightCache(envCache, ideal)
  BY DEF EnvInv
<1>3. envFresh => \A x \in Variable : ideal[x] # NotSet => ArrayHolds(x)
  BY DEF EnvInv
<1> QED
  BY <1>1, <1>2, <1>3 DEF EnvAgrees, RightCache, ArrayHolds

\* Whatever the sequence of calls and whichever of them fail to create an entry
\* or to change the environment of the runtime, mm_getenv() and the runtime
\* agree on what the successful calls have made of each variable, and the array
\* of mm_get_environ() is whole until the environment changes.
THEOREM EnvironmentAgrees ==
    ASSUME NamesDiffer, BlocksGrow PROVE EnvSpec => []EnvAgrees
<1>1. EnvInv /\ [EnvNext]_envVars => EnvInv'
  <2> SUFFICES ASSUME EnvInv, [EnvNext]_envVars PROVE EnvInv'
    OBVIOUS
  <2>1. CASE UNCHANGED envVars
    BY <2>1 DEF envVars, EnvInv, ArrayHolds
  <2>2. CASE EnvNext
    BY <2>2, GetenvKeeps, UnsetenvKeeps, SetenvKeeps, EnvironKeeps DEF EnvNext
  <2> QED
    BY <2>1, <2>2
<1> QED
  BY <1>1, InitEnvInv, EnvAgreesFollows, PTL DEF EnvSpec

-----------------------------------------------------------------------------
(***************************************************************************)
(* Local IPC: its inductive invariant                                      *)
(***************************************************************************)
IpcSpec == IpcInit /\ [][IpcNext]_ipcVars

\* No handle is duplicated half-way, and a new pipe can be made.
NoMishaps == Mishaps = {}

End == {PipeEnd(k, side) : k \in Pipe, side \in Side}
FileObj == {File(p) : p \in Proc}
Obj == {NoObj} \cup FileObj \cup End

Letter == UNION {Range(m.data) : m \in SendMsgs}
MsgRec == [given : Seq(Letter), data : Seq(Letter), hnds : Seq(HSlot), file : FileObj]

\* A message cut to what fits, with a handle for each descriptor.
GoodMsg ==
    {m \in MsgRec : /\ m.data = SubSeq(m.given, 1,
                            Min({Len(m.given), MaxData - HeaderSize(Len(m.hnds))}))
                    /\ \A i, j \in 1 .. Len(m.hnds) : m.hnds[i] = m.hnds[j] => i = j}
Mail == Seq(GoodMsg)
Hnds(q) == UNION {Range(m.hnds) : m \in Range(q)}

IpcTypes ==
    /\ table \in [Proc -> [HSlot -> Obj]]
    /\ fdInfo \in [Proc -> [HSlot -> {"none", "file", "ipc"}]]
    /\ queue \in [End -> Mail]
    /\ met \subseteq Pipe
    /\ hpipe \in HSlot
    /\ lost \in [Proc -> SUBSET HSlot]
    /\ \A p \in Proc : table[p][1] \in FileObj /\ fdInfo[p][1] = "file"

Listens(p, s) == p = Server /\ srvAt = "idle" /\ s = hpipe

\* A descriptor is around a handle of its kind; the only end that is nobody's
\* descriptor is the one that listens.
Kinds ==
    \A p \in Proc, s \in HSlot :
        /\ fdInfo[p][s] = "ipc" => table[p][s] \in End
        /\ fdInfo[p][s] = "file" => table[p][s] \in FileObj
        /\ table[p][s] \in End /\ fdInfo[p][s] = "none" => Listens(p, s)

Listening ==
    srvAt \in {"idle", "replace"} =>
        /\ \E k \in Pipe : table[Server][hpipe] = PipeEnd(k, "srv")
        /\ fdInfo[Server][hpipe] = IF srvAt = "idle" THEN "none" ELSE "ipc"

OneHolder ==
    \A p, q \in Proc : \A s, r \in HSlot :
        table[p][s] \in End /\ table[p][s] = table[q][r] => p = q /\ s = r

\* The end of a client is of a pipe that was opened, and messages are on their
\* way to ends that exist only.
Opened ==
    /\ \A k \in Pipe : IsOpen(PipeEnd(k, "cli")) => k \in met
    /\ \A e \in End : queue[e] # <<>> => IsOpen(e)

\* The handles of a message on its way are those of the file that was passed, in
\* the process that will read it, and of no message to another end of it.
Held(f, t, q) ==
    \A m \in Range(q) : \A s \in Range(m.hnds) : f[s] = "none" /\ t[s] = m.file
Flying ==
    \A p \in Proc, r \in HSlot : table[p][r] \in End =>
        /\ Held(fdInfo[p], table[p], queue[table[p][r]])
        /\ \A t \in HSlot : t # r /\ table[p][t] \in End =>
              Hnds(queue[table[p][r]]) \cap Hnds(queue[table[p][t]]) = {}

Carried(p, s) == \E r \in HSlot : table[p][r] \in End /\ s \in Hnds(queue[table[p][r]])
Covered ==
    \A p \in Proc, s \in HSlot :
        table[p][s] # NoObj /\ fdInfo[p][s] = "none" =>
            Listens(p, s) \/ s \in lost[p] \/ Carried(p, s)

\* What a reception has given.
GotRight(g) ==
    LET m == g.msg[1]
        n == Min({g.buf.data, Len(m.data)})
    IN  /\ m.data = SubSeq(m.given, 1,
                Min({Len(m.given), MaxData - HeaderSize(Len(m.hnds))}))
        /\ SubSeq(g.data, 1, n) = SubSeq(m.data, 1, n)
        /\ g.read = 1 => Len(g.data) = n /\ g.rv = Len(m.data)
        /\ Len(g.objs) <= g.buf.fds
        /\ \A i \in 1 .. Len(g.objs) : g.objs[i] = m.file
        /\ g.ctrunc = (Len(g.objs) < Len(m.hnds))

IpcInv ==
    /\ IpcTypes /\ Kinds /\ Listening /\ OneHolder /\ Opened /\ Flying /\ Covered
    /\ got # NothingGot => GotRight(got)

-----------------------------------------------------------------------------
(***************************************************************************)
(* Objects and messages                                                    *)
(***************************************************************************)
LEMMA ObjKinds ==
    /\ NoObj \notin End /\ NoObj \notin FileObj
    /\ \A o \in FileObj : o \notin End /\ o # NoObj
    /\ \A k \in Pipe : PipeEnd(k, "srv") \in End /\ PipeEnd(k, "cli") \in End
    /\ \A j, k \in Pipe : \A a, b \in Side : PipeEnd(j, a) = PipeEnd(k, b) => j = k /\ a = b
    /\ Server \in Proc /\ 1 \in HSlot
<1>1. MaxHandle \in Nat \ {0}
  BY IpcAssumption
<1>2. Server \in Proc /\ 1 \in HSlot
  BY <1>1 DEF Proc, HSlot
<1>3. \A o \in FileObj : o \notin End /\ o # NoObj
  BY DEF FileObj, End, File, PipeEnd, NoObj, Side
<1>4. NoObj \notin End /\ NoObj \notin FileObj
  BY <1>3 DEF End, PipeEnd, NoObj, Side
<1>5. \A k \in Pipe : PipeEnd(k, "srv") \in End /\ PipeEnd(k, "cli") \in End
  BY DEF End, Side
<1>6. \A j, k \in Pipe : \A a, b \in Side : PipeEnd(j, a) = PipeEnd(k, b) => j = k /\ a = b
  BY DEF PipeEnd
<1> QED
  BY <1>2, <1>3, <1>4, <1>5, <1>6

\* Messages on their way to an end.
LEMMA MailIs ==
    ASSUME NEW q \in Mail
    PROVE  /\ \A m \in Range(q) : m \in GoodMsg
           /\ q = <<>> => Hnds(q) = {}
           /\ q # <<>> => /\ Head(q) \in Range(q) /\ Head(q) \in GoodMsg
                          /\ Range(Head(q).hnds) \subseteq Hnds(q)
           /\ Hnds(q) \subseteq HSlot
<1>1. Range(q) = {q[i] : i \in 1 .. Len(q)} /\ \A i \in 1 .. Len(q) : q[i] \in GoodMsg
  BY DEF Mail, Range
<1>2. \A m \in Range(q) : m \in GoodMsg
  BY <1>1
<1>3. \A m \in Range(q) : Range(m.hnds) \subseteq HSlot
  <2> SUFFICES ASSUME NEW m \in Range(q) PROVE Range(m.hnds) \subseteq HSlot
    OBVIOUS
  <2>1. m.hnds \in Seq(HSlot)
    BY <1>2 DEF GoodMsg, MsgRec
  <2> QED
    BY <2>1 DEF Range
<1>4. Hnds(q) \subseteq HSlot
  BY <1>3 DEF Hnds
<1>5. q = <<>> => Hnds(q) = {}
  BY <1>1 DEF Hnds
<1>6. ASSUME q # <<>> PROVE Head(q) \in Range(q)
  <2>1. Len(q) \in Nat /\ Len(q) >= 1 /\ Head(q) = q[1]
    BY <1>6 DEF Mail
  <2> QED
    BY <1>1, <2>1
<1>7. Head(q) \in Range(q) => Range(Head(q).hnds) \subseteq Hnds(q)
  BY DEF Hnds
<1> QED
  BY <1>2, <1>4, <1>5, <1>6, <1>7

LEMMA MailGrows ==
    ASSUME NEW q \in Mail, NEW m \in GoodMsg
    PROVE  /\ Append(q, m) \in Mail
           /\ Range(Append(q, m)) = Range(q) \cup {m}
           /\ Hnds(Append(q, m)) = Hnds(q) \cup Range(m.hnds)
<1>1. Append(q, m) \in Mail /\ Len(q) \in Nat
  BY DEF Mail
<1>2. /\ DOMAIN q = 1 .. Len(q) /\ DOMAIN Append(q, m) = 1 .. Len(q) + 1
      /\ Append(q, m)[Len(q) + 1] = m
      /\ \A i \in 1 .. Len(q) : Append(q, m)[i] = q[i]
  BY DEF Mail
<1>3. \A i \in 1 .. Len(q) + 1 : i \in 1 .. Len(q) \/ i = Len(q) + 1
  BY <1>1
<1>4. Len(q) + 1 \in 1 .. Len(q) + 1 /\ \A i \in 1 .. Len(q) : i \in 1 .. Len(q) + 1
  BY <1>1
<1>5. Range(Append(q, m)) = Range(q) \cup {m}
  BY <1>2, <1>3, <1>4 DEF Range
<1>6. Hnds(Append(q, m)) = Hnds(q) \cup Range(m.hnds)
  BY <1>5 DEF Hnds
<1> QED
  BY <1>1, <1>5, <1>6

LEMMA NoMail == <<>> \in Mail /\ Hnds(<<>>) = {}
<1>1. <<>> \in Mail
  BY DEF Mail
<1> QED
  BY <1>1, MailIs

LEMMA NoneHeld ==
    ASSUME NEW q, NEW f, NEW t, Hnds(q) = {}
    PROVE  Held(f, t, q)
BY DEF Held, Hnds

\* Messages whose handles nobody touches stay as they are.
LEMMA HeldKept ==
    ASSUME NEW q, NEW f, NEW t, NEW g, NEW u, Held(f, t, q),
           \A s \in Hnds(q) : g[s] = f[s] /\ u[s] = t[s]
    PROVE  Held(g, u, q)
BY DEF Held, Hnds

\* The handle of a message on its way is that of a file.
LEMMA FlyingIs ==
    ASSUME IpcInv, NEW p \in Proc, NEW r \in HSlot, table[p][r] \in End
    PROVE  /\ Held(fdInfo[p], table[p], queue[table[p][r]])
           /\ \A s \in Hnds(queue[table[p][r]]) :
                /\ s \in HSlot /\ fdInfo[p][s] = "none"
                /\ table[p][s] \in FileObj /\ table[p][s] \notin End /\ table[p][s] # NoObj
<1> DEFINE q == queue[table[p][r]]
<1>1. q \in Mail
  BY DEF IpcInv, IpcTypes
<1>2. Held(fdInfo[p], table[p], q)
  BY DEF IpcInv, Flying
<1> HIDE DEF q
<1>3. ASSUME NEW s \in Hnds(q)
      PROVE  /\ s \in HSlot /\ fdInfo[p][s] = "none"
             /\ table[p][s] \in FileObj /\ table[p][s] \notin End /\ table[p][s] # NoObj
  <2>1. PICK m \in Range(q) : s \in Range(m.hnds)
    BY <1>3 DEF Hnds
  <2>2. m \in GoodMsg /\ s \in HSlot
    BY <1>1, <1>3, MailIs
  <2>3. m.file \in FileObj
    BY <2>2 DEF GoodMsg, MsgRec
  <2>4. fdInfo[p][s] = "none" /\ table[p][s] = m.file
    BY <1>2, <2>1 DEF Held
  <2> QED
    BY <2>2, <2>3, <2>4, ObjKinds
<1> QED
  BY <1>2, <1>3 DEF q

\* A slot without an object has no descriptor, and carries no message's handle.
LEMMA EmptyIs ==
    ASSUME IpcInv, NEW p \in Proc, NEW s \in HSlot, table[p][s] = NoObj
    PROVE  fdInfo[p][s] = "none" /\ s # 1 /\ ~Carried(p, s)
<1>1. fdInfo[p][s] \in {"none", "file", "ipc"} /\ table[p][1] \in FileObj
  BY DEF IpcInv, IpcTypes
<1>2. fdInfo[p][s] = "none"
  BY <1>1, ObjKinds DEF IpcInv, Kinds
<1>3. s # 1
  BY <1>1, ObjKinds
<1>4. ~Carried(p, s)
  BY FlyingIs DEF Carried
<1> QED
  BY <1>2, <1>3, <1>4

\* No two handles are of the same end.
LEMMA HolderIs ==
    ASSUME IpcInv
    PROVE  \A p, q \in Proc : \A s, r \in HSlot :
               table[p][s] \in End /\ table[p][s] = table[q][r] => p = q /\ s = r
BY DEF IpcInv, OneHolder

-----------------------------------------------------------------------------
(***************************************************************************)
(* Ends are made                                                           *)
(***************************************************************************)

\* Free slots of a process get ends that nobody has.
LEMMA EndsMade ==
    ASSUME IpcInv, NEW p \in Proc, NEW N, N \subseteq EmptySlots(p),
           NEW obj \in [N -> End],
           \A s, r \in N : obj[s] = obj[r] => s = r,
           \A s \in N : ~IsOpen(obj[s]),
           table' \in [Proc -> [HSlot -> Obj]],
           \A q \in Proc, x \in HSlot :
               table'[q][x] = IF q = p /\ x \in N THEN obj[x] ELSE table[q][x],
           fdInfo' \in [Proc -> [HSlot -> {"none", "file", "ipc"}]],
           \A q \in Proc, x \in HSlot :
               (q # p \/ x \notin N) => fdInfo'[q][x] = fdInfo[q][x],
           \A s \in N : fdInfo'[p][s] = "ipc" \/ (fdInfo'[p][s] = "none" /\ Listens(p, s)'),
           \A q \in Proc, x \in HSlot : Listens(q, x) => Listens(q, x)',
           Listening', hpipe' \in HSlot, met \subseteq met', met' \subseteq Pipe,
           \A s \in N, k \in Pipe : obj[s] = PipeEnd(k, "cli") => k \in met',
           UNCHANGED <<queue, lost, got>>
    PROVE  IpcInv'
<1>1. /\ table \in [Proc -> [HSlot -> Obj]] /\ queue \in [End -> Mail]
      /\ lost \in [Proc -> SUBSET HSlot]
      /\ \A q \in Proc : table[q][1] \in FileObj /\ fdInfo[q][1] = "file"
  BY DEF IpcInv, IpcTypes
<1>2. \A s \in N : s \in HSlot /\ table[p][s] = NoObj /\ s # 1 /\ fdInfo[p][s] = "none"
  BY EmptyIs DEF EmptySlots
<1>3. \A q \in Proc, x \in HSlot : table[q][x] # NoObj => table'[q][x] = table[q][x]
                                 /\ fdInfo'[q][x] = fdInfo[q][x]
  BY <1>2
<1>4. \A e \in End : IsOpen(e) => IsOpen(e)'
  <2> SUFFICES ASSUME NEW e \in End, NEW q \in Proc, NEW x \in HSlot, table[q][x] = e
               PROVE  IsOpen(e)'
    BY DEF IsOpen
  <2>1. table'[q][x] = e
    BY <1>3, ObjKinds
  <2> QED
    BY <2>1 DEF IsOpen
<1>5. IpcTypes'
  <2>0. 1 \in HSlot /\ \A q \in Proc : table[q][1] # NoObj /\ fdInfo[q][1] = "file"
    BY <1>1, ObjKinds
  <2>1. \A q \in Proc : table'[q][1] = table[q][1] /\ fdInfo'[q][1] = "file"
    BY ONLY <1>3, <2>0
  <2> QED
    BY <1>1, <2>1 DEF IpcTypes
<1>6. Kinds'
  <2> SUFFICES ASSUME NEW q \in Proc, NEW x \in HSlot
               PROVE  /\ fdInfo'[q][x] = "ipc" => table'[q][x] \in End
                      /\ fdInfo'[q][x] = "file" => table'[q][x] \in FileObj
                      /\ table'[q][x] \in End /\ fdInfo'[q][x] = "none" => Listens(q, x)'
    BY DEF Kinds
  <2>1. CASE q = p /\ x \in N
    BY <2>1
  <2>2. CASE ~(q = p /\ x \in N)
    <3>1. table'[q][x] = table[q][x] /\ fdInfo'[q][x] = fdInfo[q][x]
      BY <2>2
    <3>2. /\ fdInfo[q][x] = "ipc" => table[q][x] \in End
          /\ fdInfo[q][x] = "file" => table[q][x] \in FileObj
          /\ table[q][x] \in End /\ fdInfo[q][x] = "none" => Listens(q, x)
      BY DEF IpcInv, Kinds
    <3> QED
      BY <3>1, <3>2
  <2> QED
    BY <2>1, <2>2
<1>7. OneHolder'
  <2> SUFFICES ASSUME NEW q1 \in Proc, NEW q2 \in Proc, NEW x1 \in HSlot, NEW x2 \in HSlot,
                      table'[q1][x1] \in End, table'[q1][x1] = table'[q2][x2]
               PROVE  q1 = q2 /\ x1 = x2
    BY DEF OneHolder
  <2>1. CASE q1 = p /\ x1 \in N /\ q2 = p /\ x2 \in N
    BY <2>1
  <2>2. CASE q1 = p /\ x1 \in N /\ ~(q2 = p /\ x2 \in N)
    <3>1. table[q2][x2] = obj[x1]
      BY <2>2
    <3> QED
      BY <2>2, <3>1 DEF IsOpen
  <2>3. CASE ~(q1 = p /\ x1 \in N) /\ q2 = p /\ x2 \in N
    <3>1. table[q1][x1] = obj[x2]
      BY <2>3
    <3> QED
      BY <2>3, <3>1 DEF IsOpen
  <2>4. CASE ~(q1 = p /\ x1 \in N) /\ ~(q2 = p /\ x2 \in N)
    BY <2>4 DEF IpcInv, OneHolder
  <2> QED
    BY <2>1, <2>2, <2>3, <2>4
<1>8. Opened'
  <2>1. ASSUME NEW k \in Pipe, IsOpen(PipeEnd(k, "cli"))' PROVE k \in met'
    <3>1. PICK q \in Proc, x \in HSlot : table'[q][x] = PipeEnd(k, "cli")
      BY <2>1 DEF IsOpen, PipeEnd
    <3>2. CASE q = p /\ x \in N
      BY <3>1, <3>2
    <3>3. CASE ~(q = p /\ x \in N)
      <4>1. table[q][x] = PipeEnd(k, "cli")
        BY <3>1, <3>3
      <4>2. IsOpen(PipeEnd(k, "cli"))
        BY <4>1 DEF IsOpen
      <4>3. k \in met
        BY <4>2 DEF IpcInv, Opened
      <4> QED
        BY <4>3
    <3> QED
      BY <3>2, <3>3
  <2>2. \A e \in End : queue'[e] # <<>> => IsOpen(e)'
    BY <1>4 DEF IpcInv, Opened
  <2> QED
    BY <2>1, <2>2 DEF Opened, PipeEnd
<1>9. \A s \in N : Hnds(queue[obj[s]]) = {}
  <2> SUFFICES ASSUME NEW s \in N PROVE Hnds(queue[obj[s]]) = {}
    OBVIOUS
  <2>1. obj[s] \in End /\ queue[obj[s]] = <<>>
    BY DEF IpcInv, Opened
  <2> QED
    BY <2>1, NoMail
<1>10. Flying'
  <2>0. queue' = queue
    OBVIOUS
  <2> SUFFICES ASSUME NEW q \in Proc, NEW r \in HSlot, table'[q][r] \in End
               PROVE  /\ Held(fdInfo'[q], table'[q], queue'[table'[q][r]])
                      /\ \A t \in HSlot : t # r /\ table'[q][t] \in End =>
                            Hnds(queue'[table'[q][r]]) \cap Hnds(queue'[table'[q][t]]) = {}
    BY Zenon DEF Flying
  <2>1. CASE q = p /\ r \in N
    <3>1. Hnds(queue'[table'[q][r]]) = {}
      BY <1>9, <2>0, <2>1
    <3>2. Held(fdInfo'[q], table'[q], queue'[table'[q][r]])
      BY ONLY <3>1, NoneHeld
    <3> QED
      BY <3>1, <3>2
  <2>2. CASE ~(q = p /\ r \in N)
    <3>1. table'[q][r] = table[q][r]
      BY <2>2
    <3>2. Held(fdInfo'[q], table'[q], queue[table'[q][r]])
      <4>1. /\ Held(fdInfo[q], table[q], queue[table[q][r]])
            /\ \A s \in Hnds(queue[table[q][r]]) : s \in HSlot /\ table[q][s] # NoObj
        BY <3>1, FlyingIs
      <4>2. \A s \in Hnds(queue[table[q][r]]) :
                fdInfo'[q][s] = fdInfo[q][s] /\ table'[q][s] = table[q][s]
        BY <1>3, <4>1
      <4> QED
        BY ONLY <3>1, <4>1, <4>2, HeldKept
    <3>3. ASSUME NEW t \in HSlot, t # r, table'[q][t] \in End
          PROVE  Hnds(queue[table'[q][r]]) \cap Hnds(queue[table'[q][t]]) = {}
      <4>1. CASE q = p /\ t \in N
        BY <1>9, <4>1
      <4>2. CASE ~(q = p /\ t \in N)
        <5>1. table'[q][t] = table[q][t]
          BY <4>2
        <5> QED
          BY <3>1, <3>3, <5>1 DEF IpcInv, Flying
      <4> QED
        BY <4>1, <4>2
    <3> QED
      BY <3>2, <3>3
  <2> QED
    BY <2>0, <2>1, <2>2
<1>11. Covered'
  <2> SUFFICES ASSUME NEW q \in Proc, NEW x \in HSlot,
                      table'[q][x] # NoObj, fdInfo'[q][x] = "none"
               PROVE  Listens(q, x)' \/ x \in lost[q] \/ Carried(q, x)'
    BY DEF Covered
  <2>1. CASE q = p /\ x \in N
    BY <2>1
  <2>2. CASE ~(q = p /\ x \in N)
    <3>1. table'[q][x] = table[q][x] /\ fdInfo'[q][x] = fdInfo[q][x]
      BY <2>2
    <3>2. Listens(q, x) \/ x \in lost[q] \/ Carried(q, x)
      BY <3>1 DEF IpcInv, Covered
    <3>3. Carried(q, x) => Carried(q, x)'
      <4> SUFFICES ASSUME NEW r \in HSlot, table[q][r] \in End, x \in Hnds(queue[table[q][r]])
                   PROVE  Carried(q, x)'
        BY DEF Carried
      <4>1. table'[q][r] = table[q][r]
        BY <1>3, ObjKinds
      <4> QED
        BY <4>1 DEF Carried
    <3> QED
      BY <3>2, <3>3
  <2> QED
    BY <2>1, <2>2
<1>12. (got # NothingGot => GotRight(got))'
  BY DEF IpcInv
<1> QED
  BY <1>5, <1>6, <1>7, <1>8, <1>10, <1>11, <1>12 DEF IpcInv

-----------------------------------------------------------------------------
(***************************************************************************)
(* An end is closed                                                        *)
(***************************************************************************)

\* The table after objects were put into slots of p.
LEMMA FilledIs ==
    ASSUME IpcTypes, NEW p \in Proc, NEW N, NEW obj \in Obj
    PROVE  /\ Filled(p, N, obj) \in [Proc -> [HSlot -> Obj]]
           /\ \A q \in Proc, x \in HSlot :
                Filled(p, N, obj)[q][x] = IF q = p /\ x \in N THEN obj ELSE table[q][x]
<1>1. table \in [Proc -> [HSlot -> Obj]]
  BY DEF IpcTypes
<1>2. [s \in HSlot |-> IF s \in N THEN obj ELSE table[p][s]] \in [HSlot -> Obj]
  BY <1>1
<1> QED
  BY <1>1, <1>2 DEF Filled

\* An end that is closed takes the messages on their way to it along.
LEMMA EndClosed ==
    ASSUME IpcInv, NEW p \in Proc, NEW s \in HSlot, table[p][s] \in End,
           table' = Cleared(p, {s}),
           fdInfo' \in [Proc -> [HSlot -> {"none", "file", "ipc"}]],
           \A q \in Proc, x \in HSlot :
               (q # p \/ x # s) => fdInfo'[q][x] = fdInfo[q][x],
           fdInfo'[p][s] = "none",
           lost' = [lost EXCEPT ![p] = @ \cup Hnds(queue[table[p][s]])],
           queue' = [queue EXCEPT ![table[p][s]] = <<>>],
           \A q \in Proc, x \in HSlot :
               (q # p \/ x # s) /\ Listens(q, x) => Listens(q, x)',
           Listening', UNCHANGED <<met, hpipe, got>>
    PROVE  IpcInv'
<1> DEFINE e == table[p][s]
<1>1. /\ table \in [Proc -> [HSlot -> Obj]] /\ queue \in [End -> Mail]
      /\ lost \in [Proc -> SUBSET HSlot]
      /\ \A q \in Proc : table[q][1] \in FileObj /\ fdInfo[q][1] = "file"
      /\ met \subseteq Pipe /\ hpipe \in HSlot
  BY DEF IpcInv, IpcTypes
<1>2. /\ table' \in [Proc -> [HSlot -> Obj]]
      /\ \A q \in Proc, x \in HSlot :
           table'[q][x] = IF q = p /\ x = s THEN NoObj ELSE table[q][x]
  BY FilledIs DEF IpcInv, Cleared, Obj
<1>3. e \in End /\ e # NoObj /\ e \notin FileObj
  BY ObjKinds
<1>4. \A q \in Proc, x \in HSlot : table'[q][x] # NoObj =>
          (q # p \/ x # s) /\ table'[q][x] = table[q][x] /\ fdInfo'[q][x] = fdInfo[q][x]
  BY <1>2
<1>5. \A q \in Proc, x \in HSlot : table'[q][x] \in End =>
          table'[q][x] = table[q][x] /\ table'[q][x] # e
  <2>0. \A q \in Proc, x \in HSlot : table'[q][x] \in End =>
            (q # p \/ x # s) /\ table'[q][x] = table[q][x]
    BY <1>2, ObjKinds
  <2> SUFFICES ASSUME NEW q \in Proc, NEW x \in HSlot, table'[q][x] \in End, table'[q][x] = e
               PROVE  FALSE
    BY <2>0
  <2>1. (q # p \/ x # s) /\ table[q][x] = e
    BY <2>0
  <2> QED
    BY <2>1 DEF IpcInv, OneHolder
<1>6. Hnds(queue[e]) \subseteq HSlot
  BY <1>1, <1>3, MailIs
<1>7. /\ queue' \in [End -> Mail] /\ queue'[e] = <<>>
      /\ \A f \in End : f # e => queue'[f] = queue[f]
  BY <1>1, NoMail
<1>8. /\ lost' \in [Proc -> SUBSET HSlot] /\ lost'[p] = lost[p] \cup Hnds(queue[e])
      /\ \A q \in Proc : lost[q] \subseteq lost'[q]
  BY <1>1, <1>6
<1> HIDE DEF e
<1>9. IpcTypes'
  <2>1. \A q \in Proc : table'[q][1] = table[q][1] /\ fdInfo'[q][1] = "file"
    BY <1>1, <1>2, <1>3, ObjKinds DEF e
  <2> QED
    BY <1>1, <1>2, <1>7, <1>8, <2>1 DEF IpcTypes
<1>10. Kinds'
  <2> SUFFICES ASSUME NEW q \in Proc, NEW x \in HSlot
               PROVE  /\ fdInfo'[q][x] = "ipc" => table'[q][x] \in End
                      /\ fdInfo'[q][x] = "file" => table'[q][x] \in FileObj
                      /\ table'[q][x] \in End /\ fdInfo'[q][x] = "none" => Listens(q, x)'
    BY DEF Kinds
  <2>1. CASE q = p /\ x = s
    BY <1>2, <2>1, ObjKinds
  <2>2. CASE q # p \/ x # s
    <3>1. table'[q][x] = table[q][x] /\ fdInfo'[q][x] = fdInfo[q][x]
      BY <1>2, <2>2
    <3>2. /\ fdInfo[q][x] = "ipc" => table[q][x] \in End
          /\ fdInfo[q][x] = "file" => table[q][x] \in FileObj
          /\ table[q][x] \in End /\ fdInfo[q][x] = "none" => Listens(q, x)
      BY DEF IpcInv, Kinds
    <3> QED
      BY <2>2, <3>1, <3>2
  <2> QED
    BY <2>1, <2>2
<1>11. OneHolder'
  <2>1. ASSUME NEW q1 \in Proc, NEW q2 \in Proc, NEW x1 \in HSlot, NEW x2 \in HSlot,
               table'[q1][x1] \in End, table'[q1][x1] = table'[q2][x2]
        PROVE  q1 = q2 /\ x1 = x2
    <3>1. table'[q1][x1] = table[q1][x1] /\ table'[q2][x2] = table[q2][x2]
      BY <1>5, <2>1
    <3> QED
      BY <2>1, <3>1 DEF IpcInv, OneHolder
  <2>2. \A q1, q2 \in Proc : \A x1, x2 \in HSlot :
            table'[q1][x1] \in End /\ table'[q1][x1] = table'[q2][x2] => q1 = q2 /\ x1 = x2
    BY ONLY <2>1
  <2> QED
    BY Zenon, <2>2 DEF OneHolder
<1>12. Opened'
  <2>1. ASSUME NEW k \in Pipe, IsOpen(PipeEnd(k, "cli"))' PROVE k \in met'
    <3>1. PICK q \in Proc, x \in HSlot : table'[q][x] = PipeEnd(k, "cli")
      BY <2>1 DEF IsOpen, PipeEnd
    <3>2. table[q][x] = PipeEnd(k, "cli")
      <4>1. PipeEnd(k, "cli") # NoObj
        BY ObjKinds
      <4> QED
        BY <1>4, <3>1, <4>1
    <3>3. IsOpen(PipeEnd(k, "cli"))
      BY <3>2 DEF IsOpen
    <3> QED
      BY <3>3 DEF IpcInv, Opened
  <2>2. ASSUME NEW f \in End, queue'[f] # <<>> PROVE IsOpen(f)'
    <3>1. f # e /\ queue[f] # <<>>
      BY <1>7, <2>2
    <3>2. PICK q \in Proc, x \in HSlot : table[q][x] = f
      BY <3>1 DEF IpcInv, Opened, IsOpen
    <3>3. table'[q][x] = f
      BY <1>2, <3>1, <3>2 DEF e
    <3> QED
      BY <3>3 DEF IsOpen
  <2> QED
    BY <2>1, <2>2 DEF Opened, PipeEnd
<1>13. Flying'
  <2> SUFFICES ASSUME NEW q \in Proc, NEW r \in HSlot, table'[q][r] \in End
               PROVE  /\ Held(fdInfo'[q], table'[q], queue'[table'[q][r]])
                      /\ \A t \in HSlot : t # r /\ table'[q][t] \in End =>
                            Hnds(queue'[table'[q][r]]) \cap Hnds(queue'[table'[q][t]]) = {}
    BY Zenon DEF Flying
  <2>1. table'[q][r] = table[q][r] /\ queue'[table'[q][r]] = queue[table[q][r]]
    BY <1>5, <1>7
  <2>2. Held(fdInfo'[q], table'[q], queue[table[q][r]])
    <3>1. /\ Held(fdInfo[q], table[q], queue[table[q][r]])
          /\ \A x \in Hnds(queue[table[q][r]]) : x \in HSlot /\ table[q][x] \in FileObj
      BY <2>1, FlyingIs
    <3>2. \A x \in Hnds(queue[table[q][r]]) : q # p \/ x # s
      BY <1>3, <3>1 DEF e
    <3>3. \A x \in Hnds(queue[table[q][r]]) :
              fdInfo'[q][x] = fdInfo[q][x] /\ table'[q][x] = table[q][x]
      BY <1>2, <3>1, <3>2
    <3> QED
      BY ONLY <3>1, <3>3, HeldKept
  <2>3. ASSUME NEW t \in HSlot, t # r, table'[q][t] \in End
        PROVE  Hnds(queue[table[q][r]]) \cap Hnds(queue'[table'[q][t]]) = {}
    <3>1. table'[q][t] = table[q][t] /\ queue'[table'[q][t]] = queue[table[q][t]]
      BY <1>5, <1>7, <2>3
    <3> QED
      BY <2>1, <2>3, <3>1 DEF IpcInv, Flying
  <2> QED
    BY <2>1, <2>2, <2>3
<1>14. Covered'
  <2> SUFFICES ASSUME NEW q \in Proc, NEW x \in HSlot,
                      table'[q][x] # NoObj, fdInfo'[q][x] = "none"
               PROVE  Listens(q, x)' \/ x \in lost'[q] \/ Carried(q, x)'
    BY DEF Covered
  <2>1. (q # p \/ x # s) /\ table'[q][x] = table[q][x] /\ fdInfo'[q][x] = fdInfo[q][x]
    BY <1>4
  <2>2. Listens(q, x) \/ x \in lost[q] \/ Carried(q, x)
    BY <2>1 DEF IpcInv, Covered
  <2>3. Carried(q, x) => x \in lost'[q] \/ Carried(q, x)'
    <3> SUFFICES ASSUME NEW r \in HSlot, table[q][r] \in End, x \in Hnds(queue[table[q][r]])
                 PROVE  x \in lost'[q] \/ Carried(q, x)'
      BY DEF Carried
    <3>1. CASE q = p /\ r = s
      BY <1>8, <3>1 DEF e
    <3>2. CASE q # p \/ r # s
      <4>1. table'[q][r] = table[q][r]
        BY <1>2, <3>2
      <4>2. queue'[table'[q][r]] = queue[table[q][r]]
        BY <1>5, <1>7, <4>1
      <4> QED
        BY <4>1, <4>2 DEF Carried
    <3> QED
      BY <3>1, <3>2
  <2> QED
    BY <1>8, <2>1, <2>2, <2>3
<1>15. (got # NothingGot => GotRight(got))'
  BY DEF IpcInv
<1> QED
  BY <1>9, <1>10, <1>11, <1>12, <1>13, <1>14, <1>15 DEF IpcInv

-----------------------------------------------------------------------------
(***************************************************************************)
(* A message is sent                                                       *)
(***************************************************************************)

\* The file is duplicated into free slots of the process at the other end; the
\* message is then on its way, or the handles are lost.
LEMMA MessageSent ==
    ASSUME IpcInv, NEW h \in Proc, NEW s \in HSlot, table[h][s] \in End,
           NEW m \in GoodMsg, Range(m.hnds) \subseteq EmptySlots(h),
           table' = Filled(h, Range(m.hnds), m.file),
           \/ /\ queue' = [queue EXCEPT ![table[h][s]] = Append(@, m)]
              /\ lost' = lost
           \/ /\ queue' = queue
              /\ lost' = [lost EXCEPT ![h] = @ \cup Range(m.hnds)],
           UNCHANGED <<fdInfo, met, srvAt, hpipe, got>>
    PROVE  IpcInv'
<1> DEFINE e == table[h][s]
           N == Range(m.hnds)
           more == Append(queue[table[h][s]], m)
<1>1. /\ table \in [Proc -> [HSlot -> Obj]] /\ queue \in [End -> Mail]
      /\ lost \in [Proc -> SUBSET HSlot]
      /\ \A q \in Proc : table[q][1] \in FileObj /\ fdInfo[q][1] = "file"
      /\ met \subseteq Pipe /\ hpipe \in HSlot
      /\ fdInfo \in [Proc -> [HSlot -> {"none", "file", "ipc"}]]
  BY DEF IpcInv, IpcTypes
<1>2. m.file \in FileObj /\ m.file \in Obj
  BY DEF GoodMsg, MsgRec, Obj
<1>3. /\ table' \in [Proc -> [HSlot -> Obj]]
      /\ \A q \in Proc, x \in HSlot :
           table'[q][x] = IF q = h /\ x \in N THEN m.file ELSE table[q][x]
  BY <1>2, FilledIs DEF IpcInv
<1>4. \A x \in N : x \in HSlot /\ table[h][x] = NoObj /\ x # 1 /\ fdInfo[h][x] = "none"
                   /\ ~Carried(h, x)
  BY EmptyIs DEF EmptySlots
<1>5. e \in End /\ e # NoObj /\ e \notin FileObj /\ queue[e] \in Mail
  BY <1>1, ObjKinds
<1>6. /\ more \in Mail /\ Range(more) = Range(queue[e]) \cup {m}
      /\ Hnds(more) = Hnds(queue[e]) \cup N /\ Hnds(<<>>) = {}
  BY <1>5, MailGrows, NoMail
<1>7. \A q \in Proc, x \in HSlot : table[q][x] # NoObj => table'[q][x] = table[q][x]
  BY <1>3, <1>4
<1>8. \A q \in Proc, x \in HSlot : (table'[q][x] \in End \/ table[q][x] \in End) =>
          table'[q][x] = table[q][x]
  BY <1>2, <1>3, <1>7, ObjKinds
<1>9. \/ /\ queue' \in [End -> Mail] /\ queue'[e] = more
         /\ \A f \in End : f # e => queue'[f] = queue[f]
         /\ lost' = lost
      \/ /\ queue' = queue
         /\ lost' \in [Proc -> SUBSET HSlot] /\ lost'[h] = lost[h] \cup N
         /\ \A q \in Proc : lost[q] \subseteq lost'[q]
  <2>1. CASE queue' = [queue EXCEPT ![e] = Append(@, m)] /\ lost' = lost
    BY <1>1, <1>5, <1>6, <2>1
  <2>2. CASE queue' = queue /\ lost' = [lost EXCEPT ![h] = @ \cup N]
    <3>1. N \subseteq HSlot
      BY <1>4
    <3> HIDE DEF N
    <3> QED
      BY <1>1, <2>2, <3>1
  <2> QED
    BY <2>1, <2>2
<1>10. \A q \in Proc, x \in HSlot : Listens(q, x)' = Listens(q, x)
  BY DEF Listens
<1> HIDE DEF e, N, more
<1>11. \A f \in End : Hnds(queue[f]) \subseteq Hnds(queue'[f])
  BY <1>6, <1>9
<1>12. \A q \in Proc, x \in HSlot : Carried(q, x) => Carried(q, x)'
  <2> SUFFICES ASSUME NEW q \in Proc, NEW x \in HSlot, NEW r \in HSlot,
                      table[q][r] \in End, x \in Hnds(queue[table[q][r]])
               PROVE  Carried(q, x)'
    BY DEF Carried
  <2>1. table'[q][r] = table[q][r]
    BY <1>8
  <2>2. x \in Hnds(queue'[table'[q][r]])
    BY <1>11, <2>1
  <2> QED
    BY <2>1, <2>2 DEF Carried
<1>13. \A f \in End : IsOpen(f)' <=> IsOpen(f)
  <2> SUFFICES ASSUME NEW f \in End PROVE IsOpen(f)' <=> IsOpen(f)
    OBVIOUS
  <2>1. ASSUME NEW q \in Proc, NEW x \in HSlot PROVE table'[q][x] = f <=> table[q][x] = f
    BY <1>8
  <2> QED
    BY <2>1 DEF IsOpen
<1>14. IpcTypes'
  <2>1. \A q \in Proc : table'[q][1] = table[q][1]
    BY <1>1, <1>7, ObjKinds
  <2> QED
    BY <1>1, <1>3, <1>9, <2>1 DEF IpcTypes
<1>15. Kinds'
  <2>1. ASSUME NEW q \in Proc, NEW x \in HSlot
        PROVE  /\ fdInfo'[q][x] = "ipc" => table'[q][x] \in End
               /\ fdInfo'[q][x] = "file" => table'[q][x] \in FileObj
               /\ table'[q][x] \in End /\ fdInfo'[q][x] = "none" => Listens(q, x)'
    <3>1. /\ fdInfo[q][x] = "ipc" => table[q][x] \in End
          /\ fdInfo[q][x] = "file" => table[q][x] \in FileObj
          /\ table[q][x] \in End /\ fdInfo[q][x] = "none" => Listens(q, x)
      BY DEF IpcInv, Kinds
    <3>2. fdInfo'[q][x] = fdInfo[q][x]
      OBVIOUS
    <3>3. table[q][x] \in FileObj => table'[q][x] = table[q][x]
      BY <1>7, ObjKinds
    <3> QED
      BY <1>8, <1>10, <3>1, <3>2, <3>3
  <2> QED
    BY ONLY <2>1 DEF Kinds
<1>16. Listening'
  <2> SUFFICES ASSUME srvAt \in {"idle", "replace"}
               PROVE  /\ \E k \in Pipe : table'[Server][hpipe] = PipeEnd(k, "srv")
                      /\ fdInfo[Server][hpipe] = IF srvAt = "idle" THEN "none" ELSE "ipc"
    BY DEF Listening, PipeEnd
  <2>1. /\ \E k \in Pipe : table[Server][hpipe] = PipeEnd(k, "srv")
        /\ fdInfo[Server][hpipe] = IF srvAt = "idle" THEN "none" ELSE "ipc"
    BY DEF IpcInv, Listening
  <2>2. table[Server][hpipe] \in End
    BY <2>1, ObjKinds
  <2>3. table'[Server][hpipe] = table[Server][hpipe]
    BY <1>1, <1>8, <2>2, ObjKinds
  <2> QED
    BY <2>1, <2>3
<1>17. OneHolder'
  <2>1. ASSUME NEW q1 \in Proc, NEW q2 \in Proc, NEW x1 \in HSlot, NEW x2 \in HSlot,
               table'[q1][x1] \in End, table'[q1][x1] = table'[q2][x2]
        PROVE  q1 = q2 /\ x1 = x2
    <3>1. table'[q1][x1] = table[q1][x1] /\ table'[q2][x2] = table[q2][x2]
      BY <1>8, <2>1
    <3>2. table[q1][x1] \in End /\ table[q1][x1] = table[q2][x2]
      BY ONLY <2>1, <3>1
    <3> QED
      BY <3>2, HolderIs
  <2>2. \A q1, q2 \in Proc : \A x1, x2 \in HSlot :
            table'[q1][x1] \in End /\ table'[q1][x1] = table'[q2][x2] => q1 = q2 /\ x1 = x2
    BY ONLY <2>1
  <2> QED
    BY Zenon, <2>2 DEF OneHolder
<1>18. Opened'
  <2>1. \A k \in Pipe : IsOpen(PipeEnd(k, "cli"))' => k \in met'
    BY <1>13, ObjKinds DEF IpcInv, Opened
  <2>2. ASSUME NEW f \in End, queue'[f] # <<>> PROVE IsOpen(f)'
    <3>1. f = e \/ queue[f] # <<>>
      BY <1>9, <2>2
    <3>2. IsOpen(f)
      BY <3>1 DEF IpcInv, Opened, IsOpen, e
    <3> QED
      BY <1>13, <3>2
  <2> QED
    BY <2>1, <2>2 DEF Opened, PipeEnd
<1>19. Flying'
  <2>1. ASSUME NEW q \in Proc, NEW r \in HSlot, table'[q][r] \in End
        PROVE  Held(fdInfo'[q], table'[q], queue'[table'[q][r]])
    <3>0. table'[q][r] = table[q][r] /\ fdInfo' = fdInfo
      BY <1>8, <2>1
    <3>1. Held(fdInfo'[q], table'[q], queue[table[q][r]])
      <4>1. /\ Held(fdInfo[q], table[q], queue[table[q][r]])
            /\ \A x \in Hnds(queue[table[q][r]]) : x \in HSlot /\ table[q][x] # NoObj
        BY <2>1, <3>0, FlyingIs
      <4>2. \A x \in Hnds(queue[table[q][r]]) :
                fdInfo'[q][x] = fdInfo[q][x] /\ table'[q][x] = table[q][x]
        BY <1>7, <3>0, <4>1
      <4> QED
        BY ONLY <4>1, <4>2, HeldKept
    <3>2. CASE table[q][r] = e /\ queue'[e] = more
      <4>1. q = h
        BY <3>2, <1>5, HolderIs DEF e
      <4>2. \A x \in N : fdInfo'[q][x] = "none" /\ table'[q][x] = m.file
        BY <1>3, <1>4, <3>0, <4>1
      <4>3. Held(fdInfo'[q], table'[q], more)
        BY <1>6, <3>1, <3>2, <4>2 DEF Held, N
      <4> QED
        BY <3>0, <3>2, <4>3
    <3>3. CASE queue'[table[q][r]] = queue[table[q][r]]
      BY <3>0, <3>1, <3>3
    <3> QED
      BY <1>9, <2>1, <3>0, <3>2, <3>3
  <2>2. ASSUME NEW q \in Proc, NEW r \in HSlot, NEW t \in HSlot,
               table'[q][r] \in End, t # r, table'[q][t] \in End
        PROVE  Hnds(queue'[table'[q][r]]) \cap Hnds(queue'[table'[q][t]]) = {}
    <3>1. table'[q][r] = table[q][r] /\ table'[q][t] = table[q][t]
      BY <1>8, <2>2
    <3>2. table[q][r] # table[q][t]
      BY <2>2, <3>1, HolderIs
    <3>3. Hnds(queue[table[q][r]]) \cap Hnds(queue[table[q][t]]) = {}
      BY <2>2, <3>1 DEF IpcInv, Flying
    <3>4. ASSUME NEW u \in HSlot, table[q][u] \in End, table[q][u] = e PROVE q = h
      BY <1>5, <3>4, HolderIs DEF e
    <3>5. ASSUME NEW u \in HSlot, table[q][u] \in End, q = h
          PROVE  N \cap Hnds(queue[table[q][u]]) = {}
      BY <1>4, <3>5 DEF Carried
    <3>6. CASE table[q][r] = e /\ queue'[e] = more
      <4>1. q = h /\ queue'[table[q][t]] = queue[table[q][t]]
        BY <1>9, <2>2, <3>1, <3>2, <3>4, <3>6
      <4> QED
        BY <1>6, <2>2, <3>1, <3>3, <3>5, <3>6, <4>1
    <3>7. CASE table[q][t] = e /\ queue'[e] = more
      <4>1. q = h /\ queue'[table[q][r]] = queue[table[q][r]]
        BY <1>9, <2>2, <3>1, <3>2, <3>4, <3>7
      <4> QED
        BY <1>6, <2>2, <3>1, <3>3, <3>5, <3>7, <4>1
    <3>8. CASE /\ queue'[table[q][r]] = queue[table[q][r]]
               /\ queue'[table[q][t]] = queue[table[q][t]]
      BY <3>1, <3>3, <3>8
    <3> QED
      BY <1>9, <2>2, <3>1, <3>6, <3>7, <3>8
  <2>3. ASSUME NEW q \in Proc, NEW r \in HSlot, table'[q][r] \in End
        PROVE  /\ Held(fdInfo'[q], table'[q], queue'[table'[q][r]])
               /\ \A t \in HSlot : t # r /\ table'[q][t] \in End =>
                     Hnds(queue'[table'[q][r]]) \cap Hnds(queue'[table'[q][t]]) = {}
    BY ONLY <2>1, <2>2, <2>3
  <2> QED
    BY ONLY Zenon, <2>3 DEF Flying
<1>20. Covered'
  <2>1. ASSUME NEW q \in Proc, NEW x \in HSlot,
               table'[q][x] # NoObj, fdInfo'[q][x] = "none"
        PROVE  Listens(q, x)' \/ x \in lost'[q] \/ Carried(q, x)'
    <3>1. CASE q = h /\ x \in N
      <4>1. CASE queue'[e] = more
        <5>1. table'[h][s] = e
          BY <1>5, <1>8 DEF e
        <5> QED
          BY <1>5, <1>6, <3>1, <4>1, <5>1 DEF Carried
      <4>2. CASE queue'[e] # more
        BY <1>9, <3>1, <4>2
      <4> QED
        BY <4>1, <4>2
    <3>2. CASE ~(q = h /\ x \in N)
      <4>1. table[q][x] # NoObj /\ fdInfo[q][x] = "none"
        BY <1>3, <2>1, <3>2
      <4>2. Listens(q, x) \/ x \in lost[q] \/ Carried(q, x)
        BY <4>1 DEF IpcInv, Covered
      <4> QED
        BY <1>9, <1>10, <1>12, <4>2
    <3> QED
      BY <3>1, <3>2
  <2> QED
    BY ONLY <2>1 DEF Covered
<1>21. (got # NothingGot => GotRight(got))'
  BY DEF IpcInv
<1> QED
  BY <1>14, <1>15, <1>16, <1>17, <1>18, <1>19, <1>20, <1>21 DEF IpcInv

-----------------------------------------------------------------------------
(***************************************************************************)
(* A message is received                                                   *)
(***************************************************************************)

\* Of the handles of the message, some become descriptors and the others are
\* closed.
LEMMA MessageReceived ==
    ASSUME IpcInv, NEW p \in Proc, NEW s \in HSlot, table[p][s] \in End,
           NEW K, NEW D, K \cup D \subseteq Hnds(queue[table[p][s]]), K \cap D = {},
           table' = Cleared(p, D),
           fdInfo' = [fdInfo EXCEPT ![p] = [x \in HSlot |->
                        IF x \in K THEN "file" ELSE fdInfo[p][x]]],
           queue' = [queue EXCEPT ![table[p][s]] = <<>>],
           lost' = [lost EXCEPT ![p] = @ \cup (Hnds(queue[table[p][s]]) \ (K \cup D))],
           (got # NothingGot => GotRight(got))',
           UNCHANGED <<met, srvAt, hpipe>>
    PROVE  IpcInv'
<1> DEFINE e == table[p][s]
<1>1. /\ table \in [Proc -> [HSlot -> Obj]] /\ queue \in [End -> Mail]
      /\ lost \in [Proc -> SUBSET HSlot]
      /\ \A q \in Proc : table[q][1] \in FileObj /\ fdInfo[q][1] = "file"
      /\ met \subseteq Pipe /\ hpipe \in HSlot
      /\ fdInfo \in [Proc -> [HSlot -> {"none", "file", "ipc"}]]
  BY DEF IpcInv, IpcTypes
<1>2. /\ table' \in [Proc -> [HSlot -> Obj]]
      /\ \A q \in Proc, x \in HSlot :
           table'[q][x] = IF q = p /\ x \in D THEN NoObj ELSE table[q][x]
  BY FilledIs DEF IpcInv, Cleared, Obj
<1>3. /\ fdInfo' \in [Proc -> [HSlot -> {"none", "file", "ipc"}]]
      /\ \A q \in Proc, x \in HSlot :
           fdInfo'[q][x] = IF q = p /\ x \in K THEN "file" ELSE fdInfo[q][x]
  BY <1>1
<1>4. e \in End /\ e # NoObj /\ e \notin FileObj
  BY ObjKinds
<1>5. \A x \in K \cup D : /\ x \in HSlot /\ fdInfo[p][x] = "none"
                          /\ table[p][x] \in FileObj /\ table[p][x] \notin End
  BY FlyingIs
<1>6. Hnds(<<>>) = {} /\ <<>> \in Mail
  BY NoMail
<1>7. /\ queue' \in [End -> Mail] /\ queue'[e] = <<>>
      /\ \A f \in End : f # e => queue'[f] = queue[f]
  BY <1>1, <1>4, <1>6
<1>20. /\ lost' \in [Proc -> SUBSET HSlot]
       /\ lost'[p] = lost[p] \cup (Hnds(queue[e]) \ (K \cup D))
       /\ \A q \in Proc : lost[q] \subseteq lost'[q]
  <2>1. Hnds(queue[e]) \subseteq HSlot
    BY <1>1, <1>4, MailIs
  <2> QED
    BY <1>1, <2>1
<1>8. \A q \in Proc, x \in HSlot : (table'[q][x] \in End \/ table[q][x] \in End) =>
          table'[q][x] = table[q][x] /\ fdInfo'[q][x] = fdInfo[q][x]
  BY <1>2, <1>3, <1>5, ObjKinds
<1>9. \A q \in Proc, x \in HSlot : Listens(q, x)' = Listens(q, x)
  BY DEF Listens
<1>10. \A q \in Proc, r \in HSlot :
           table[q][r] \in End /\ (q # p \/ r # s) =>
             /\ queue'[table[q][r]] = queue[table[q][r]]
             /\ q = p => Hnds(queue[table[q][r]]) \cap (K \cup D) = {}
  <2> SUFFICES ASSUME NEW q \in Proc, NEW r \in HSlot, table[q][r] \in End, q # p \/ r # s
               PROVE  /\ queue'[table[q][r]] = queue[table[q][r]]
                      /\ q = p => Hnds(queue[table[q][r]]) \cap (K \cup D) = {}
    OBVIOUS
  <2>1. table[q][r] # e
    BY HolderIs
  <2>2. queue'[table[q][r]] = queue[table[q][r]]
    BY <1>7, <2>1
  <2>3. ASSUME q = p PROVE Hnds(queue[table[q][r]]) \cap (K \cup D) = {}
    BY <1>4, <2>3 DEF IpcInv, Flying
  <2> QED
    BY <2>2, <2>3
<1> HIDE DEF e
<1>11. IpcTypes'
  <2>1. 1 \notin D
    BY <1>1, <1>5
  <2>2. \A q \in Proc : table'[q][1] = table[q][1] /\ fdInfo'[q][1] = "file"
    BY <1>1, <1>2, <1>3, <2>1, ObjKinds
  <2> QED
    BY <1>1, <1>2, <1>3, <1>7, <1>20, <2>2 DEF IpcTypes
<1>12. Kinds'
  <2>1. ASSUME NEW q \in Proc, NEW x \in HSlot
        PROVE  /\ fdInfo'[q][x] = "ipc" => table'[q][x] \in End
               /\ fdInfo'[q][x] = "file" => table'[q][x] \in FileObj
               /\ table'[q][x] \in End /\ fdInfo'[q][x] = "none" => Listens(q, x)'
    <3>1. /\ fdInfo[q][x] = "ipc" => table[q][x] \in End
          /\ fdInfo[q][x] = "file" => table[q][x] \in FileObj
          /\ table[q][x] \in End /\ fdInfo[q][x] = "none" => Listens(q, x)
      BY DEF IpcInv, Kinds
    <3>2. CASE q = p /\ x \in K
      <4>1. table'[q][x] = table[q][x] /\ fdInfo'[q][x] = "file"
        BY <1>2, <1>3, <3>2
      <4> QED
        BY <1>5, <3>2, <4>1
    <3>3. CASE q = p /\ x \in D
      <4>1. table'[q][x] = NoObj /\ fdInfo'[q][x] = "none"
        BY <1>2, <1>3, <1>5, <3>3
      <4> QED
        BY <4>1, ObjKinds
    <3>4. CASE ~(q = p /\ x \in K \cup D)
      <4>1. table'[q][x] = table[q][x] /\ fdInfo'[q][x] = fdInfo[q][x]
        BY <1>2, <1>3, <3>4
      <4> QED
        BY <1>9, <3>1, <4>1
    <3> QED
      BY <3>2, <3>3, <3>4
  <2> QED
    BY ONLY <2>1 DEF Kinds
<1>13. Listening'
  <2> SUFFICES ASSUME srvAt \in {"idle", "replace"}
               PROVE  /\ \E k \in Pipe : table'[Server][hpipe] = PipeEnd(k, "srv")
                      /\ fdInfo'[Server][hpipe] = IF srvAt = "idle" THEN "none" ELSE "ipc"
    BY DEF Listening, PipeEnd
  <2>1. /\ \E k \in Pipe : table[Server][hpipe] = PipeEnd(k, "srv")
        /\ fdInfo[Server][hpipe] = IF srvAt = "idle" THEN "none" ELSE "ipc"
    BY DEF IpcInv, Listening
  <2>2. table[Server][hpipe] \in End
    BY <2>1, ObjKinds
  <2>3. /\ table'[Server][hpipe] = table[Server][hpipe]
        /\ fdInfo'[Server][hpipe] = fdInfo[Server][hpipe]
    BY <1>1, <1>8, <2>2, ObjKinds
  <2> QED
    BY <2>1, <2>3
<1>14. OneHolder'
  <2>1. ASSUME NEW q1 \in Proc, NEW q2 \in Proc, NEW x1 \in HSlot, NEW x2 \in HSlot,
               table'[q1][x1] \in End, table'[q1][x1] = table'[q2][x2]
        PROVE  q1 = q2 /\ x1 = x2
    <3>1. table'[q1][x1] = table[q1][x1] /\ table'[q2][x2] = table[q2][x2]
      BY <1>8, <2>1
    <3>2. table[q1][x1] \in End /\ table[q1][x1] = table[q2][x2]
      BY ONLY <2>1, <3>1
    <3> QED
      BY <3>2, HolderIs
  <2>2. \A q1, q2 \in Proc : \A x1, x2 \in HSlot :
            table'[q1][x1] \in End /\ table'[q1][x1] = table'[q2][x2] => q1 = q2 /\ x1 = x2
    BY ONLY <2>1
  <2> QED
    BY Zenon, <2>2 DEF OneHolder
<1>15. Opened'
  <2>1. ASSUME NEW f \in End PROVE IsOpen(f)' <=> IsOpen(f)
    <3>1. ASSUME NEW q \in Proc, NEW x \in HSlot PROVE table'[q][x] = f <=> table[q][x] = f
      BY <1>8
    <3> QED
      BY <3>1 DEF IsOpen
  <2>2. \A k \in Pipe : IsOpen(PipeEnd(k, "cli"))' => k \in met'
    BY <2>1, ObjKinds DEF IpcInv, Opened
  <2>3. ASSUME NEW f \in End, queue'[f] # <<>> PROVE IsOpen(f)'
    <3>1. queue[f] # <<>>
      BY <1>7, <2>3
    <3> QED
      BY <2>1, <3>1 DEF IpcInv, Opened
  <2> QED
    BY <2>2, <2>3 DEF Opened, PipeEnd
<1>16. Flying'
  <2>1. ASSUME NEW q \in Proc, NEW r \in HSlot, table'[q][r] \in End
        PROVE  Held(fdInfo'[q], table'[q], queue'[table'[q][r]])
    <3>0. table'[q][r] = table[q][r]
      BY <1>8, <2>1
    <3>1. CASE q = p /\ r = s
      <4>1. Hnds(queue'[table'[q][r]]) = {}
        BY <1>6, <1>7, <3>0, <3>1 DEF e
      <4> QED
        BY ONLY <4>1, NoneHeld
    <3>2. CASE q # p \/ r # s
      <4>1. queue'[table[q][r]] = queue[table[q][r]]
        BY <1>10, <2>1, <3>0, <3>2
      <4>2. /\ Held(fdInfo[q], table[q], queue[table[q][r]])
            /\ \A x \in Hnds(queue[table[q][r]]) : x \in HSlot
        BY <2>1, <3>0, FlyingIs
      <4>3. \A x \in Hnds(queue[table[q][r]]) : q = p => x \notin K \cup D
        BY <1>10, <2>1, <3>0, <3>2
      <4>4. \A x \in Hnds(queue[table[q][r]]) :
                fdInfo'[q][x] = fdInfo[q][x] /\ table'[q][x] = table[q][x]
        BY <1>2, <1>3, <4>2, <4>3
      <4> QED
        BY ONLY <3>0, <4>1, <4>2, <4>4, HeldKept
    <3> QED
      BY <3>1, <3>2
  <2>2. ASSUME NEW q \in Proc, NEW r \in HSlot, NEW t \in HSlot,
               table'[q][r] \in End, t # r, table'[q][t] \in End
        PROVE  Hnds(queue'[table'[q][r]]) \cap Hnds(queue'[table'[q][t]]) = {}
    <3>1. table'[q][r] = table[q][r] /\ table'[q][t] = table[q][t]
      BY <1>8, <2>2
    <3>2. Hnds(queue[table[q][r]]) \cap Hnds(queue[table[q][t]]) = {}
      BY <2>2, <3>1 DEF IpcInv, Flying
    <3>3. ASSUME NEW u \in HSlot, table[q][u] \in End
          PROVE  Hnds(queue'[table[q][u]]) = Hnds(queue[table[q][u]])
                 \/ Hnds(queue'[table[q][u]]) = {}
      <4>1. CASE q = p /\ u = s
        BY <1>6, <1>7, <4>1 DEF e
      <4>2. CASE q # p \/ u # s
        BY <1>10, <3>3, <4>2
      <4> QED
        BY <4>1, <4>2
    <3>4. /\ Hnds(queue'[table[q][r]]) = Hnds(queue[table[q][r]])
             \/ Hnds(queue'[table[q][r]]) = {}
          /\ Hnds(queue'[table[q][t]]) = Hnds(queue[table[q][t]])
             \/ Hnds(queue'[table[q][t]]) = {}
      BY <2>2, <3>1, <3>3
    <3> QED
      BY ONLY <3>1, <3>2, <3>4
  <2>3. ASSUME NEW q \in Proc, NEW r \in HSlot, table'[q][r] \in End
        PROVE  /\ Held(fdInfo'[q], table'[q], queue'[table'[q][r]])
               /\ \A t \in HSlot : t # r /\ table'[q][t] \in End =>
                     Hnds(queue'[table'[q][r]]) \cap Hnds(queue'[table'[q][t]]) = {}
    BY ONLY <2>1, <2>2, <2>3
  <2> QED
    BY ONLY Zenon, <2>3 DEF Flying
<1>17. Covered'
  <2>1. ASSUME NEW q \in Proc, NEW x \in HSlot,
               table'[q][x] # NoObj, fdInfo'[q][x] = "none"
        PROVE  Listens(q, x)' \/ x \in lost'[q] \/ Carried(q, x)'
    <3>1. ~(q = p /\ x \in K \cup D) /\ table[q][x] # NoObj /\ fdInfo[q][x] = "none"
      BY <1>2, <1>3, <2>1
    <3>2. Listens(q, x) \/ x \in lost[q] \/ Carried(q, x)
      BY <3>1 DEF IpcInv, Covered
    <3>3. Carried(q, x) => x \in lost'[q] \/ Carried(q, x)'
      <4> SUFFICES ASSUME NEW r \in HSlot, table[q][r] \in End, x \in Hnds(queue[table[q][r]])
                   PROVE  x \in lost'[q] \/ Carried(q, x)'
        BY DEF Carried
      <4>1. CASE q = p /\ r = s
        BY <1>20, <3>1, <4>1 DEF e
      <4>2. CASE q # p \/ r # s
        <5>1. table'[q][r] = table[q][r] /\ queue'[table[q][r]] = queue[table[q][r]]
          BY <1>8, <1>10, <4>2
        <5> QED
          BY <5>1 DEF Carried
      <4> QED
        BY <4>1, <4>2
    <3> QED
      BY <1>9, <1>20, <3>2, <3>3
  <2> QED
    BY ONLY <2>1 DEF Covered
<1> QED
  BY <1>11, <1>12, <1>13, <1>14, <1>15, <1>16, <1>17 DEF IpcInv

-----------------------------------------------------------------------------
(***************************************************************************)
(* The calls                                                               *)
(***************************************************************************)
LEMMA IpcStays ==
    ASSUME IpcInv, UNCHANGED <<table, fdInfo, queue, met, srvAt, hpipe, got, lost>>
    PROVE  IpcInv'
<1>1. IpcTypes' /\ Kinds' /\ Listening' /\ OneHolder'
  BY DEF IpcInv, IpcTypes, Kinds, Listening, OneHolder, Listens, PipeEnd
<1>2. Opened'
  BY DEF IpcInv, Opened, IsOpen, PipeEnd
<1>3. Flying'
  BY DEF IpcInv, Flying
<1>4. Covered'
  BY DEF IpcInv, Covered, Carried, Listens
<1>5. (got # NothingGot => GotRight(got))'
  BY DEF IpcInv
<1> QED
  BY <1>1, <1>2, <1>3, <1>4, <1>5 DEF IpcInv

\* A pipe that nobody uses is no process's handle, at neither end.
LEMMA UnusedIs ==
    ASSUME IpcInv, NEW k \in UnusedPipes
    PROVE  /\ k \in Pipe
           /\ PipeEnd(k, "srv") \in End /\ ~IsOpen(PipeEnd(k, "srv"))
           /\ PipeEnd(k, "cli") \in End /\ ~IsOpen(PipeEnd(k, "cli"))
           /\ \A j \in Pipe : PipeEnd(k, "srv") # PipeEnd(j, "cli")
<1>1. k \in Pipe /\ k \notin met /\ ~IsOpen(PipeEnd(k, "srv"))
  BY DEF UnusedPipes
<1>2. ~IsOpen(PipeEnd(k, "cli"))
  BY <1>1 DEF IpcInv, Opened
<1>3. \A j \in Pipe : PipeEnd(k, "srv") # PipeEnd(j, "cli")
  BY <1>1 DEF PipeEnd
<1> QED
  BY <1>1, <1>2, <1>3, ObjKinds

\* The server gets the handle of a new pipe to listen on.
LEMMA NewInstance ==
    ASSUME IpcInv, NEW k \in UnusedPipes, NEW s \in Lowest(Server), srvAt # "idle",
           hpipe' = s, table' = Filled(Server, {s}, PipeEnd(k, "srv")), srvAt' = "idle",
           UNCHANGED <<fdInfo, queue, met, got, lost>>
    PROVE  IpcInv'
<1> DEFINE obj == [x \in {s} |-> PipeEnd(k, "srv")]
<1>1. /\ k \in Pipe /\ PipeEnd(k, "srv") \in End /\ ~IsOpen(PipeEnd(k, "srv"))
      /\ \A j \in Pipe : PipeEnd(k, "srv") # PipeEnd(j, "cli")
  BY UnusedIs
<1>2. s \in EmptySlots(Server) /\ s \in HSlot /\ Server \in Proc /\ table[Server][s] = NoObj
  BY ObjKinds DEF Lowest, EmptySlots
<1>3. PipeEnd(k, "srv") \in Obj
  BY <1>1 DEF Obj
<1>4. /\ table' \in [Proc -> [HSlot -> Obj]]
      /\ \A q \in Proc, x \in HSlot :
           table'[q][x] = IF q = Server /\ x \in {s} THEN PipeEnd(k, "srv") ELSE table[q][x]
  BY <1>2, <1>3, FilledIs DEF IpcInv
<1>5. obj \in [{s} -> End] /\ obj[s] = PipeEnd(k, "srv")
  BY <1>1
<1>6. fdInfo[Server][s] = "none"
  BY <1>2, EmptyIs
<1>7. Listening'
  <2>1. table'[Server][hpipe'] = PipeEnd(k, "srv") /\ fdInfo'[Server][hpipe'] = "none"
    BY <1>2, <1>4, <1>6
  <2> QED
    BY <1>1, <2>1 DEF Listening, PipeEnd
<1>8. Listens(Server, s)' /\ \A q \in Proc, x \in HSlot : ~Listens(q, x)
  BY DEF Listens
<1>9. fdInfo \in [Proc -> [HSlot -> {"none", "file", "ipc"}]] /\ met \subseteq Pipe
  BY DEF IpcInv, IpcTypes
<1> DEFINE N == {s}
<1>10. /\ N \subseteq EmptySlots(Server) /\ obj \in [N -> End]
       /\ \A x, y \in N : obj[x] = obj[y] => x = y
       /\ \A x \in N : ~IsOpen(obj[x])
       /\ \A x \in N : fdInfo'[Server][x] = "none" /\ Listens(Server, x)'
       /\ \A x \in N, j \in Pipe : obj[x] = PipeEnd(j, "cli") => j \in met'
       /\ \A q \in Proc, x \in HSlot :
            table'[q][x] = IF q = Server /\ x \in N THEN obj[x] ELSE table[q][x]
  BY <1>1, <1>2, <1>4, <1>5, <1>6, <1>8
<1> HIDE DEF N, obj
<1>11. /\ \A q \in Proc, x \in HSlot :
            (q # Server \/ x \notin N) => fdInfo'[q][x] = fdInfo[q][x]
       /\ \A x \in N : fdInfo'[Server][x] = "ipc"
                       \/ (fdInfo'[Server][x] = "none" /\ Listens(Server, x)')
       /\ \A q \in Proc, x \in HSlot : Listens(q, x) => Listens(q, x)'
       /\ hpipe' \in HSlot /\ met \subseteq met' /\ met' \subseteq Pipe
       /\ fdInfo' \in [Proc -> [HSlot -> {"none", "file", "ipc"}]]
  BY <1>2, <1>8, <1>9, <1>10
<1> QED
  BY ZenonT(60), <1>2, <1>4, <1>7, <1>10, <1>11, EndsMade

LEMMA CreateKeeps ==
    ASSUME IpcInv, mm_ipc_srv_create PROVE IpcInv'
<1>1. PICK k \in UnusedPipes, s \in Lowest(Server) :
          hpipe' = s /\ table' = Filled(Server, {s}, PipeEnd(k, "srv"))
  BY DEF mm_ipc_srv_create
<1>2. srvAt # "idle" /\ srvAt' = "idle" /\ UNCHANGED <<fdInfo, queue, met, got, lost>>
  BY DEF mm_ipc_srv_create
<1> QED
  BY <1>1, <1>2, NewInstance

LEMMA InstanceKeeps ==
    ASSUME IpcInv, NoMishaps, mm_ipc_srv_accept PROVE IpcInv'
<1>1. PICK k \in UnusedPipes, s \in Lowest(Server) :
          hpipe' = s /\ table' = Filled(Server, {s}, PipeEnd(k, "srv"))
  BY DEF mm_ipc_srv_accept, NoMishaps
<1>2. srvAt # "idle" /\ srvAt' = "idle" /\ UNCHANGED <<fdInfo, queue, met, got, lost>>
  BY DEF mm_ipc_srv_accept
<1> QED
  BY <1>1, <1>2, NewInstance

\* The end that listens, while there is one.
LEMMA ListeningIs ==
    ASSUME IpcInv, srvAt \in {"idle", "replace"}
    PROVE  /\ ListeningPipe \in Pipe /\ Server \in Proc /\ hpipe \in HSlot
           /\ table[Server][hpipe] = PipeEnd(ListeningPipe, "srv")
           /\ table[Server][hpipe] \in End /\ table[Server][hpipe] # NoObj
           /\ fdInfo[Server][hpipe] = IF srvAt = "idle" THEN "none" ELSE "ipc"
<1>1. PICK k \in Pipe : table[Server][hpipe] = PipeEnd(k, "srv")
  BY DEF IpcInv, Listening
<1>2. ListeningPipe = k
  BY <1>1 DEF ListeningPipe, PipeEnd
<1>3. fdInfo[Server][hpipe] = IF srvAt = "idle" THEN "none" ELSE "ipc"
  BY DEF IpcInv, Listening
<1>4. Server \in Proc /\ hpipe \in HSlot
  BY ObjKinds DEF IpcInv, IpcTypes
<1> QED
  BY <1>1, <1>2, <1>3, <1>4, ObjKinds

LEMMA AcceptKeeps ==
    ASSUME IpcInv, AcceptClient PROVE IpcInv'
<1>1. /\ srvAt = "idle" /\ srvAt' = "replace"
      /\ fdInfo' = [fdInfo EXCEPT ![Server][hpipe] = "ipc"]
      /\ UNCHANGED <<table, queue, met, hpipe, got, lost>>
  BY DEF AcceptClient
<1>2. /\ Server \in Proc /\ hpipe \in HSlot /\ table[Server][hpipe] \in End
      /\ ListeningPipe \in Pipe /\ table[Server][hpipe] = PipeEnd(ListeningPipe, "srv")
      /\ table[Server][hpipe] \notin FileObj
  BY <1>1, ListeningIs, ObjKinds
<1>3. IpcTypes /\ fdInfo \in [Proc -> [HSlot -> {"none", "file", "ipc"}]]
  BY DEF IpcInv, IpcTypes
<1>4. /\ fdInfo' \in [Proc -> [HSlot -> {"none", "file", "ipc"}]]
      /\ fdInfo'[Server][hpipe] = "ipc"
      /\ \A q \in Proc, x \in HSlot :
           table[q][x] \in FileObj => fdInfo'[q][x] = fdInfo[q][x]
      /\ \A q \in Proc, x \in HSlot :
           q # Server \/ x # hpipe => fdInfo'[q][x] = fdInfo[q][x]
  BY <1>1, <1>2, <1>3
<1>5. IpcTypes'
  <2>1. \A q \in Proc : fdInfo'[q][1] = fdInfo[q][1]
    BY <1>3, <1>4, ObjKinds DEF IpcTypes
  <2> QED
    BY <1>1, <1>3, <1>4, <2>1 DEF IpcTypes
<1>6. Kinds'
  <2>1. ASSUME NEW q \in Proc, NEW x \in HSlot
        PROVE  /\ fdInfo'[q][x] = "ipc" => table'[q][x] \in End
               /\ fdInfo'[q][x] = "file" => table'[q][x] \in FileObj
               /\ table'[q][x] \in End /\ fdInfo'[q][x] = "none" => Listens(q, x)'
    <3>1. /\ fdInfo[q][x] = "ipc" => table[q][x] \in End
          /\ fdInfo[q][x] = "file" => table[q][x] \in FileObj
          /\ table[q][x] \in End /\ fdInfo[q][x] = "none" => Listens(q, x)
      BY DEF IpcInv, Kinds
    <3>2. Listens(q, x) => q = Server /\ x = hpipe
      BY DEF Listens
    <3> QED
      BY <1>1, <1>2, <1>4, <3>1, <3>2
  <2> QED
    BY ONLY <2>1 DEF Kinds
<1>7. Listening'
  BY <1>1, <1>2, <1>4 DEF Listening, PipeEnd
<1>8. OneHolder' /\ Opened'
  BY <1>1 DEF IpcInv, OneHolder, Opened, IsOpen, PipeEnd
<1>9. Flying'
  <2>1. ASSUME NEW q \in Proc, NEW r \in HSlot, table[q][r] \in End
        PROVE  /\ Held(fdInfo'[q], table[q], queue[table[q][r]])
               /\ \A t \in HSlot : t # r /\ table[q][t] \in End =>
                     Hnds(queue[table[q][r]]) \cap Hnds(queue[table[q][t]]) = {}
    <3>1. /\ Held(fdInfo[q], table[q], queue[table[q][r]])
          /\ \A x \in Hnds(queue[table[q][r]]) : x \in HSlot /\ table[q][x] \in FileObj
      BY <2>1, FlyingIs
    <3>2. \A t \in HSlot : t # r /\ table[q][t] \in End =>
              Hnds(queue[table[q][r]]) \cap Hnds(queue[table[q][t]]) = {}
      BY <2>1 DEF IpcInv, Flying
    <3>3. \A x \in Hnds(queue[table[q][r]]) :
              fdInfo'[q][x] = fdInfo[q][x] /\ table[q][x] = table[q][x]
      BY <1>4, <3>1
    <3>4. Held(fdInfo'[q], table[q], queue[table[q][r]])
      BY ONLY <3>1, <3>3, HeldKept
    <3> QED
      BY <3>2, <3>4
  <2>2. table' = table /\ queue' = queue
    BY <1>1
  <2> QED
    BY ONLY <2>1, <2>2 DEF Flying
<1>10. Covered'
  <2>1. ASSUME NEW q \in Proc, NEW x \in HSlot,
               table'[q][x] # NoObj, fdInfo'[q][x] = "none"
        PROVE  Listens(q, x)' \/ x \in lost'[q] \/ Carried(q, x)'
    <3>1. (q # Server \/ x # hpipe) /\ table[q][x] # NoObj /\ fdInfo[q][x] = "none"
      BY <1>1, <1>4, <2>1
    <3>2. x \in lost[q] \/ Carried(q, x)
      BY <3>1 DEF IpcInv, Covered, Listens
    <3>3. Carried(q, x) = Carried(q, x)'
      BY <1>1 DEF Carried
    <3> QED
      BY <1>1, <3>2, <3>3
  <2> QED
    BY ONLY <2>1 DEF Covered
<1> QED
  BY <1>1, <1>5, <1>6, <1>7, <1>8, <1>9, <1>10 DEF IpcInv

LEMMA DestroyKeeps ==
    ASSUME IpcInv, mm_ipc_srv_destroy PROVE IpcInv'
<1>1. /\ srvAt = "idle" /\ srvAt' = "destroyed" /\ table' = Cleared(Server, {hpipe})
      /\ lost' = [lost EXCEPT ![Server] = @ \cup Hnds(queue[table[Server][hpipe]])]
      /\ queue' = [queue EXCEPT ![table[Server][hpipe]] = <<>>]
      /\ UNCHANGED <<fdInfo, met, hpipe, got>>
  BY DEF mm_ipc_srv_destroy, HandlesIn, Hnds
<1>2. /\ Server \in Proc /\ hpipe \in HSlot /\ table[Server][hpipe] \in End
      /\ fdInfo[Server][hpipe] = "none"
  BY <1>1, ListeningIs
<1>3. fdInfo' \in [Proc -> [HSlot -> {"none", "file", "ipc"}]]
  BY <1>1 DEF IpcInv, IpcTypes
<1>4. Listening' /\ \A q \in Proc, x \in HSlot : Listens(q, x) => q = Server /\ x = hpipe
  BY <1>1 DEF Listening, Listens
<1>5. /\ \A q \in Proc, x \in HSlot :
           (q # Server \/ x # hpipe) => fdInfo'[q][x] = fdInfo[q][x]
      /\ \A q \in Proc, x \in HSlot :
           (q # Server \/ x # hpipe) /\ Listens(q, x) => Listens(q, x)'
      /\ fdInfo'[Server][hpipe] = "none"
  BY <1>1, <1>2, <1>4
<1> QED
  BY <1>1, <1>2, <1>3, <1>4, <1>5, EndClosed

LEMMA CloseKeeps ==
    ASSUME IpcInv, CloseConnection PROVE IpcInv'
<1>1. PICK p \in Proc, s \in HSlot :
        /\ fdInfo[p][s] = "ipc"
        /\ ~(p = Server /\ s = hpipe /\ srvAt = "replace")
        /\ table' = Cleared(p, {s})
        /\ fdInfo' = [fdInfo EXCEPT ![p][s] = "none"]
        /\ lost' = [lost EXCEPT ![p] = @ \cup Hnds(queue[table[p][s]])]
        /\ queue' = [queue EXCEPT ![table[p][s]] = <<>>]
  BY DEF CloseConnection, HandlesIn, Hnds
<1>2. UNCHANGED <<met, srvAt, hpipe, got>>
  BY DEF CloseConnection
<1>3. table[p][s] \in End
  BY <1>1 DEF IpcInv, Kinds
<1>4. fdInfo \in [Proc -> [HSlot -> {"none", "file", "ipc"}]]
  BY DEF IpcInv, IpcTypes
<1>5. /\ fdInfo' \in [Proc -> [HSlot -> {"none", "file", "ipc"}]]
      /\ fdInfo'[p][s] = "none"
      /\ \A q \in Proc, x \in HSlot : (q # p \/ x # s) => fdInfo'[q][x] = fdInfo[q][x]
  BY <1>1, <1>4
<1>6. \A q \in Proc, x \in HSlot : Listens(q, x) => Listens(q, x)'
  BY <1>2 DEF Listens
<1>7. Listening'
  <2>1. CASE srvAt \in {"idle", "replace"}
    <3>1. /\ ListeningPipe \in Pipe /\ Server \in Proc /\ hpipe \in HSlot
          /\ table[Server][hpipe] = PipeEnd(ListeningPipe, "srv")
          /\ fdInfo[Server][hpipe] = IF srvAt = "idle" THEN "none" ELSE "ipc"
      BY <2>1, ListeningIs
    <3>2. Server # p \/ hpipe # s
      BY <1>1, <2>1, <3>1
    <3>3. table'[Server][hpipe] = table[Server][hpipe]
      <4>1. NoObj \in Obj /\ IpcTypes
        BY DEF Obj, IpcInv
      <4> QED
        BY <1>1, <3>1, <3>2, <4>1, FilledIs DEF Cleared
    <3>4. fdInfo'[Server][hpipe] = fdInfo[Server][hpipe]
      BY <1>5, <3>1, <3>2
    <3> QED
      BY <1>2, <3>1, <3>3, <3>4 DEF Listening, PipeEnd
  <2>2. CASE srvAt \notin {"idle", "replace"}
    BY <1>2, <2>2 DEF Listening
  <2> QED
    BY <2>1, <2>2
<1>8. \A q \in Proc, x \in HSlot :
          (q # p \/ x # s) /\ Listens(q, x) => Listens(q, x)'
  BY <1>6
<1> QED
  BY <1>1, <1>2, <1>3, <1>5, <1>7, <1>8, EndClosed

\* The end that listens is left where it is when a free slot gets an end.
LEMMA ListeningStays ==
    ASSUME IpcInv, UNCHANGED <<srvAt, hpipe>>,
           \A q \in Proc, x \in HSlot : table[q][x] # NoObj =>
               table'[q][x] = table[q][x] /\ fdInfo'[q][x] = fdInfo[q][x]
    PROVE  Listening' /\ \A q \in Proc, x \in HSlot : Listens(q, x) => Listens(q, x)'
<1>1. \A q \in Proc, x \in HSlot : Listens(q, x) => Listens(q, x)'
  BY DEF Listens
<1>2. CASE srvAt \in {"idle", "replace"}
  <2>1. /\ ListeningPipe \in Pipe /\ Server \in Proc /\ hpipe \in HSlot
        /\ table[Server][hpipe] = PipeEnd(ListeningPipe, "srv")
        /\ table[Server][hpipe] # NoObj
        /\ fdInfo[Server][hpipe] = IF srvAt = "idle" THEN "none" ELSE "ipc"
    BY <1>2, ListeningIs
  <2>2. table'[Server][hpipe] = table[Server][hpipe] /\ fdInfo'[Server][hpipe] = fdInfo[Server][hpipe]
    BY <2>1
  <2> QED
    BY <1>1, <2>1, <2>2 DEF Listening, PipeEnd
<1>3. CASE srvAt \notin {"idle", "replace"}
  BY <1>1, <1>3 DEF Listening
<1> QED
  BY <1>2, <1>3

LEMMA ConnectKeeps ==
    ASSUME IpcInv, mm_ipc_connect PROVE IpcInv'
<1>1. UNCHANGED <<queue, srvAt, hpipe, got, lost>>
  BY DEF mm_ipc_connect
<1>2. CASE UNCHANGED <<table, fdInfo, met>>
  BY <1>1, <1>2, IpcStays
<1>4. CASE /\ UNCHANGED <<table, fdInfo>> /\ met' = met \cup {ListeningPipe}
           /\ srvAt \in {"idle", "replace"}
  <2>1. met \subseteq met' /\ met' \subseteq Pipe
    BY <1>4, ListeningIs DEF IpcInv, IpcTypes
  <2>2. IpcTypes' /\ Kinds' /\ Listening' /\ OneHolder'
    BY <1>1, <1>4, <2>1 DEF IpcInv, IpcTypes, Kinds, Listening, OneHolder, Listens, PipeEnd
  <2>3. Opened'
    BY <1>1, <1>4, <2>1 DEF IpcInv, Opened, IsOpen, PipeEnd
  <2>4. Flying' /\ Covered' /\ (got # NothingGot => GotRight(got))'
    BY <1>1, <1>4 DEF IpcInv, Flying, Covered, Carried, Listens
  <2> QED
    BY <2>2, <2>3, <2>4 DEF IpcInv
<1>3. CASE ~UNCHANGED <<table, fdInfo>>
  <2>0. PICK c \in Client : \E s \in Lowest(c) :
          /\ srvAt \in {"idle", "replace"} /\ ListeningPipe \notin met
          /\ table' = Filled(c, {s}, PipeEnd(ListeningPipe, "cli"))
          /\ fdInfo' = [fdInfo EXCEPT ![c][s] = "ipc"]
          /\ met' = met \cup {ListeningPipe}
    BY <1>3 DEF mm_ipc_connect
  <2>1. PICK s \in Lowest(c) :
          /\ srvAt \in {"idle", "replace"} /\ ListeningPipe \notin met
          /\ table' = Filled(c, {s}, PipeEnd(ListeningPipe, "cli"))
          /\ fdInfo' = [fdInfo EXCEPT ![c][s] = "ipc"]
          /\ met' = met \cup {ListeningPipe}
    BY <2>0
  <2> DEFINE k == ListeningPipe
             N == {s}
             obj == [x \in N |-> PipeEnd(k, "cli")]
  <2>2. k \in Pipe /\ k \notin met /\ PipeEnd(k, "cli") \in End /\ PipeEnd(k, "cli") \in Obj
    BY <2>1, ListeningIs, ObjKinds DEF Obj
  <2> HIDE DEF k
  <2>3. ~IsOpen(PipeEnd(k, "cli"))
    BY <2>2 DEF IpcInv, Opened
  <2>4. c \in Proc /\ s \in EmptySlots(c) /\ s \in HSlot /\ table[c][s] = NoObj
    BY DEF Proc, Lowest, EmptySlots
  <2>5. /\ table' \in [Proc -> [HSlot -> Obj]]
        /\ \A q \in Proc, x \in HSlot :
             table'[q][x] = IF q = c /\ x \in {s} THEN PipeEnd(k, "cli") ELSE table[q][x]
    BY <2>1, <2>2, <2>4, FilledIs DEF IpcInv, k
  <2>6. fdInfo \in [Proc -> [HSlot -> {"none", "file", "ipc"}]] /\ met \subseteq Pipe
        /\ hpipe \in HSlot
    BY DEF IpcInv, IpcTypes
  <2>7. /\ fdInfo' \in [Proc -> [HSlot -> {"none", "file", "ipc"}]]
        /\ fdInfo'[c][s] = "ipc"
        /\ \A q \in Proc, x \in HSlot : (q # c \/ x # s) => fdInfo'[q][x] = fdInfo[q][x]
    BY <2>1, <2>4, <2>6
  <2>8. Listening' /\ \A q \in Proc, x \in HSlot : Listens(q, x) => Listens(q, x)'
    <3>1. \A q \in Proc, x \in HSlot : table[q][x] # NoObj =>
              table'[q][x] = table[q][x] /\ fdInfo'[q][x] = fdInfo[q][x]
      BY <2>4, <2>5, <2>7
    <3> QED
      BY <1>1, <3>1, ListeningStays
  <2>9. /\ N \subseteq EmptySlots(c) /\ obj \in [N -> End]
        /\ \A x, y \in N : obj[x] = obj[y] => x = y
        /\ \A x \in N : ~IsOpen(obj[x])
        /\ \A x \in N : fdInfo'[c][x] = "ipc"
        /\ \A q \in Proc, x \in HSlot :
             table'[q][x] = IF q = c /\ x \in N THEN obj[x] ELSE table[q][x]
        /\ \A q \in Proc, x \in HSlot : (q # c \/ x \notin N) => fdInfo'[q][x] = fdInfo[q][x]
    BY <2>2, <2>3, <2>4, <2>5, <2>7
  <2>10. \A x \in N, j \in Pipe : obj[x] = PipeEnd(j, "cli") => j \in met'
    <3>1. \A j \in Pipe : PipeEnd(k, "cli") = PipeEnd(j, "cli") => j = k
      BY <2>2 DEF PipeEnd
    <3> QED
      BY <2>1, <3>1 DEF k
  <2>11. /\ met \subseteq met' /\ met' \subseteq Pipe /\ hpipe' \in HSlot
         /\ UNCHANGED <<queue, lost, got>>
    BY <1>1, <2>1, <2>2, <2>6 DEF k
  <2> HIDE DEF N, obj
  <2>12. \A x \in N : fdInfo'[c][x] = "ipc" \/ (fdInfo'[c][x] = "none" /\ Listens(c, x)')
    BY <2>9
  <2> QED
    BY ZenonT(60), <2>4, <2>5, <2>7, <2>8, <2>9, <2>10, <2>11, <2>12, EndsMade
<1> QED
  BY <1>2, <1>3, <1>4 DEF mm_ipc_connect

LEMMA PairKeeps ==
    ASSUME IpcInv, mm_ipc_connected_pair PROVE IpcInv'
<1>1. UNCHANGED <<queue, srvAt, hpipe, got, lost>>
  BY DEF mm_ipc_connected_pair
<1>2. CASE UNCHANGED <<table, fdInfo, met>>
  BY <1>1, <1>2, IpcStays
<1>3. CASE ~UNCHANGED <<table, fdInfo, met>>
  <2>0. PICK c \in Pairing : \E k \in UnusedPipes, two \in LowestSlots(c, 2) :
          /\ table' = [Filled(c, {two[1]}, PipeEnd(k, "srv"))
                          EXCEPT ![c][two[2]] = PipeEnd(k, "cli")]
          /\ fdInfo' = [fdInfo EXCEPT ![c][two[1]] = "ipc", ![c][two[2]] = "ipc"]
          /\ met' = met \cup {k}
    BY <1>3 DEF mm_ipc_connected_pair
  <2>1. PICK k \in UnusedPipes, two \in LowestSlots(c, 2) :
          /\ table' = [Filled(c, {two[1]}, PipeEnd(k, "srv"))
                          EXCEPT ![c][two[2]] = PipeEnd(k, "cli")]
          /\ fdInfo' = [fdInfo EXCEPT ![c][two[1]] = "ipc", ![c][two[2]] = "ipc"]
          /\ met' = met \cup {k}
    BY <2>0
  <2> DEFINE a == two[1]
             b == two[2]
             N == {a, b}
             obj == [x \in N |-> PipeEnd(k, IF x = a THEN "srv" ELSE "cli")]
  <2>2. /\ k \in Pipe /\ PipeEnd(k, "srv") \in End /\ PipeEnd(k, "cli") \in End
        /\ ~IsOpen(PipeEnd(k, "srv")) /\ ~IsOpen(PipeEnd(k, "cli"))
        /\ PipeEnd(k, "srv") # PipeEnd(k, "cli")
        /\ \A j \in Pipe : PipeEnd(k, "srv") # PipeEnd(j, "cli")
    BY UnusedIs
  <2>3. c \in Proc /\ a \in EmptySlots(c) /\ b \in EmptySlots(c) /\ a # b
    <3>1. c \in Proc
      BY IpcAssumption DEF Proc
    <3>2. two \in [1 .. 2 -> EmptySlots(c)] /\ a < b
      BY DEF LowestSlots
    <3>3. a \in HSlot /\ b \in HSlot
      BY <3>2 DEF EmptySlots
    <3> QED
      BY <3>1, <3>2, <3>3 DEF HSlot
  <2>4. a \in HSlot /\ b \in HSlot /\ table[c][a] = NoObj /\ table[c][b] = NoObj
    BY <2>3 DEF EmptySlots
  <2> HIDE DEF a, b
  <2>5. PipeEnd(k, "srv") \in Obj /\ PipeEnd(k, "cli") \in Obj
    BY <2>2 DEF Obj
  <2>6. /\ Filled(c, {a}, PipeEnd(k, "srv")) \in [Proc -> [HSlot -> Obj]]
        /\ \A q \in Proc, x \in HSlot :
             Filled(c, {a}, PipeEnd(k, "srv"))[q][x] =
                IF q = c /\ x \in {a} THEN PipeEnd(k, "srv") ELSE table[q][x]
    BY <2>3, <2>5, FilledIs DEF IpcInv
  <2>7. /\ table' \in [Proc -> [HSlot -> Obj]]
        /\ \A q \in Proc, x \in HSlot :
             table'[q][x] = IF q = c /\ x = b THEN PipeEnd(k, "cli")
                            ELSE IF q = c /\ x = a THEN PipeEnd(k, "srv") ELSE table[q][x]
    BY <2>1, <2>3, <2>4, <2>5, <2>6 DEF a, b
  <2>8. fdInfo \in [Proc -> [HSlot -> {"none", "file", "ipc"}]] /\ met \subseteq Pipe
        /\ hpipe \in HSlot
    BY DEF IpcInv, IpcTypes
  <2>9. /\ fdInfo' \in [Proc -> [HSlot -> {"none", "file", "ipc"}]]
        /\ fdInfo'[c][a] = "ipc" /\ fdInfo'[c][b] = "ipc"
        /\ \A q \in Proc, x \in HSlot :
             (q # c \/ (x # a /\ x # b)) => fdInfo'[q][x] = fdInfo[q][x]
    BY <2>1, <2>3, <2>4, <2>8 DEF a, b
  <2>10. Listening' /\ \A q \in Proc, x \in HSlot : Listens(q, x) => Listens(q, x)'
    <3>1. \A q \in Proc, x \in HSlot : table[q][x] # NoObj =>
              table'[q][x] = table[q][x] /\ fdInfo'[q][x] = fdInfo[q][x]
      BY <2>4, <2>7, <2>9
    <3> QED
      BY <1>1, <3>1, ListeningStays
  <2>11. obj[a] = PipeEnd(k, "srv") /\ obj[b] = PipeEnd(k, "cli") /\ obj \in [N -> End]
    BY <2>2, <2>3
  <2>12. /\ N \subseteq EmptySlots(c) /\ \A x \in N : x = a \/ x = b
         /\ a \in N /\ b \in N
    BY <2>3
  <2>13. \A j \in Pipe : PipeEnd(k, "cli") = PipeEnd(j, "cli") => j = k
    BY <2>2 DEF PipeEnd
  <2> HIDE DEF N, obj
  <2>14. /\ \A x, y \in N : obj[x] = obj[y] => x = y
         /\ \A x \in N : ~IsOpen(obj[x])
         /\ \A x \in N : fdInfo'[c][x] = "ipc" \/ (fdInfo'[c][x] = "none" /\ Listens(c, x)')
         /\ \A x \in N, j \in Pipe : obj[x] = PipeEnd(j, "cli") => j \in met'
    <3>1. \A x \in N : ~IsOpen(obj[x])
      BY <2>2, <2>11, <2>12
    <3>2. \A x \in N, j \in Pipe : obj[x] = PipeEnd(j, "cli") => j \in met'
      BY <2>1, <2>2, <2>11, <2>12, <2>13
    <3> QED
      BY <2>2, <2>9, <2>11, <2>12, <3>1, <3>2
  <2>15. /\ \A q \in Proc, x \in HSlot :
              table'[q][x] = IF q = c /\ x \in N THEN obj[x] ELSE table[q][x]
         /\ \A q \in Proc, x \in HSlot : (q # c \/ x \notin N) => fdInfo'[q][x] = fdInfo[q][x]
    BY <2>3, <2>7, <2>9, <2>11, <2>12
  <2>16. /\ met \subseteq met' /\ met' \subseteq Pipe /\ hpipe' \in HSlot
         /\ UNCHANGED <<queue, lost, got>>
    BY <1>1, <2>1, <2>2, <2>8
  <2> QED
    BY ZenonT(60), <2>3, <2>7, <2>9, <2>10, <2>11, <2>12, <2>14, <2>15, <2>16, EndsMade
<1> QED
  BY <1>2, <1>3

\* What is written is a message that fits, with the handles in order.
LEMMA MinOfTwo ==
    ASSUME NEW a \in Nat, NEW b \in Nat
    PROVE  /\ Min({a, b}) \in Nat /\ Min({a, b}) <= a /\ Min({a, b}) <= b
           /\ a <= b => Min({a, b}) = a
           /\ b <= a => Min({a, b}) = b
<1>1. CASE a <= b
  <2>1. a \in {a, b} /\ \A y \in {a, b} : a <= y
    BY <1>1
  <2> QED
    BY <1>1, <2>1 DEF Min
<1>2. CASE b <= a
  <2>1. b \in {a, b} /\ \A y \in {a, b} : b <= y
    BY <1>2
  <2> QED
    BY <1>2, <2>1 DEF Min
<1> QED
  BY <1>1, <1>2

LEMMA SerializedIs ==
    ASSUME NEW msg \in SendMsgs, NEW slots \in Seq(HSlot), Len(slots) = msg.fds,
           \A i, j \in 1 .. Len(slots) : slots[i] = slots[j] => i = j,
           NEW f \in FileObj
    PROVE  [given |-> msg.data, data |-> serialize_msg(msg.data, msg.fds),
            hnds |-> slots, file |-> f] \in GoodMsg
<1> DEFINE d == msg.data
           n == msg.fds
           m == [given |-> d, data |-> serialize_msg(d, n), hnds |-> slots, file |-> f]
           L == IF Len(d) + HeaderSize(n) >= MaxData THEN MaxData - HeaderSize(n) ELSE Len(d)
<1>1. d \in Seq(Range(d)) /\ n \in Nat /\ 1 + n <= MaxData /\ MaxData \in Nat
  BY IpcAssumption
<1>2. Range(d) \subseteq Letter
  BY DEF Letter
<1>3. d \in Seq(Letter) /\ Len(d) \in Nat
  <2>1. Len(d) \in Nat /\ \A i \in 1 .. Len(d) : d[i] \in Range(d)
    BY <1>1
  <2>2. d = [i \in 1 .. Len(d) |-> d[i]]
    BY <1>1
  <2> QED
    BY <1>2, <2>1, <2>2
<1> HIDE DEF d, n
<1>4. L \in 0 .. Len(d) /\ L = Min({Len(d), MaxData - HeaderSize(n)})
  <2>1. MaxData - (1 + n) \in Nat
    BY <1>1
  <2>2. CASE Len(d) + (1 + n) >= MaxData
    <3>1. L = MaxData - (1 + n)
      BY <2>2 DEF HeaderSize
    <3> HIDE DEF L
    <3>2. MaxData - (1 + n) <= Len(d)
      BY <1>1, <1>3, <2>2
    <3> QED
      BY <1>3, <2>1, <3>1, <3>2, MinOfTwo DEF HeaderSize
  <2>3. CASE ~(Len(d) + (1 + n) >= MaxData)
    <3>1. L = Len(d)
      BY <2>3 DEF HeaderSize
    <3> HIDE DEF L
    <3>2. Len(d) <= MaxData - (1 + n)
      BY <1>1, <1>3, <2>3
    <3> QED
      BY <1>3, <2>1, <3>1, <3>2, MinOfTwo DEF HeaderSize
  <2> QED
    BY <2>2, <2>3
<1>5. serialize_msg(d, n) = SubSeq(d, 1, L)
  BY DEF serialize_msg
<1> HIDE DEF L
<1>6. SubSeq(d, 1, L) \in Seq(Letter)
  <2>1. L \in 0 .. Len(d)
    BY <1>4
  <2> QED
    BY ONLY <1>3, <2>1
<1>7. m \in MsgRec
  BY <1>3, <1>5, <1>6 DEF MsgRec
<1>8. m.given = d /\ m.data = SubSeq(d, 1, L) /\ m.hnds = slots /\ Len(m.hnds) = n
  BY <1>5 DEF n
<1> HIDE DEF m
<1>9. m \in GoodMsg
  BY <1>4, <1>7, <1>8 DEF GoodMsg
<1> QED
  BY <1>9 DEF m, d, n

\* A descriptor of an end is around an end, and so is the other side of its pipe.
LEMMA OtherEndIs ==
    ASSUME IpcInv, NEW p \in Proc, NEW s \in HSlot, fdInfo[p][s] = "ipc"
    PROVE  OtherEnd(table[p][s]) \in End
<1>1. table[p][s] \in End
  BY DEF IpcInv, Kinds
<1>2. PICK k \in Pipe, side \in Side : table[p][s] = PipeEnd(k, side)
  BY <1>1 DEF End
<1>3. table[p][s][1] = side /\ table[p][s][2] = k
  BY <1>2 DEF PipeEnd
<1> QED
  BY <1>3 DEF End, Side, OtherEnd

LEMMA SendKeeps ==
    ASSUME IpcInv, NoMishaps, mm_ipc_sendmsg PROVE IpcInv'
<1>1. UNCHANGED <<fdInfo, met, srvAt, hpipe, got>>
  BY DEF mm_ipc_sendmsg
<1>2. PICK p \in Proc, s \in HSlot, msg \in SendMsgs :
        /\ fdInfo[p][s] = "ipc" /\ IsOpen(OtherEnd(table[p][s]))
        /\ WriteTo(p, OtherEnd(table[p][s]), Holder(OtherEnd(table[p][s])), msg)
  BY DEF mm_ipc_sendmsg
<1> DEFINE e == OtherEnd(table[p][s])
           h == Holder(e)
           Record(hnds) ==
               [given |-> msg.data, data |-> serialize_msg(msg.data, msg.fds),
                hnds |-> hnds, file |-> table[p][1]]
<1>3. e \in End
  BY <1>2, OtherEndIs
<1>4. h \in Proc /\ \E r \in HSlot : table[h][r] = e
  BY <1>2 DEF IsOpen, Holder
<1>5. PICK r \in HSlot : table[h][r] = e
  BY <1>4
<1>7. PICK slots \in LowestSlots(h, msg.fds) :
        \E anc \in write_ancillary_data(p, h, slots) :
          /\ table' = anc.table
          /\ \/ /\ anc.ok
                /\ queue' = [queue EXCEPT ![e] = Append(@, Record(anc.hnds))]
                /\ UNCHANGED lost
             \/ /\ lost' = [lost EXCEPT ![h] = @ \cup Range(anc.hnds)]
                /\ UNCHANGED queue
  BY <1>2 DEF WriteTo
<1>8. PICK anc \in write_ancillary_data(p, h, slots) :
          /\ table' = anc.table
          /\ \/ /\ anc.ok
                /\ queue' = [queue EXCEPT ![e] = Append(@, Record(anc.hnds))]
                /\ UNCHANGED lost
             \/ /\ lost' = [lost EXCEPT ![h] = @ \cup Range(anc.hnds)]
                /\ UNCHANGED queue
  BY <1>7
<1> HIDE DEF e, h
<1>9. /\ slots \in Seq(HSlot) /\ Len(slots) = msg.fds
      /\ \A i, j \in 1 .. Len(slots) : slots[i] = slots[j] => i = j
      /\ Range(slots) \subseteq EmptySlots(h)
  <2>1. msg.fds \in Nat
    BY IpcAssumption
  <2>2. /\ slots \in [1 .. msg.fds -> EmptySlots(h)]
        /\ \A i, j \in 1 .. msg.fds : i < j => slots[i] < slots[j]
    BY DEF LowestSlots
  <2>3. EmptySlots(h) \subseteq HSlot
    BY DEF EmptySlots
  <2>4. slots \in Seq(HSlot) /\ Len(slots) = msg.fds
    BY <2>1, <2>2, <2>3
  <2>5. Range(slots) \subseteq EmptySlots(h)
    BY <2>2 DEF Range
  <2>6. \A i \in 1 .. msg.fds : slots[i] \in Int
    BY <2>2, <2>3 DEF HSlot
  <2> QED
    BY <2>1, <2>2, <2>4, <2>5, <2>6
<1>10. table[p][1] \in FileObj
  BY DEF IpcInv, IpcTypes
<1> DEFINE m == Record(slots)
<1>11. m \in GoodMsg /\ m.hnds = slots /\ m.file = table[p][1]
  BY <1>9, <1>10, SerializedIs
<1>12. CASE anc = [hnds |-> slots, ok |-> TRUE, table |-> Filled(h, Range(slots), table[p][1])]
  <2>1. anc.hnds = slots /\ anc.table = Filled(h, Range(slots), table[p][1])
    BY <1>12
  <2>2. Record(anc.hnds) = m
    BY <2>1
  <2> HIDE DEF m, Record
  <2>3. table' = Filled(h, Range(m.hnds), m.file)
    BY <1>8, <1>11, <2>1
  <2>4. \/ queue' = [queue EXCEPT ![e] = Append(@, m)] /\ lost' = lost
        \/ queue' = queue /\ lost' = [lost EXCEPT ![h] = @ \cup Range(m.hnds)]
    BY <1>8, <1>11, <2>1, <2>2
  <2>5. Range(m.hnds) \subseteq EmptySlots(h)
    BY <1>9, <1>11
  <2> QED
    BY <1>1, <1>3, <1>4, <1>5, <1>11, <2>3, <2>4, <2>5, MessageSent DEF h
<1>13. CASE anc = [hnds |-> <<>>, ok |-> FALSE, table |-> table]
  <2>1. anc.hnds = <<>> /\ ~anc.ok /\ anc.table = table /\ Range(<<>>) = {}
    BY <1>13 DEF Range
  <2>2. table' = table /\ queue' = queue /\ lost' = [lost EXCEPT ![h] = @ \cup {}]
    BY <1>8, <2>1
  <2>3. lost' = lost
    BY <2>2 DEF IpcInv, IpcTypes
  <2> QED
    BY <1>1, <2>2, <2>3, IpcStays
<1> QED
  BY <1>8, <1>12, <1>13 DEF write_ancillary_data, NoMishaps

\* The first message is read as it was written, and with nothing behind it when
\* it is the only one.
LEMMA ReadAllIs ==
    ASSUME NEW msgs \in Mail, msgs # <<>>
    PROVE  \E x \in Seq({Junk}) : /\ ReadAll(msgs) = Head(msgs).data \o x
                                  /\ Len(msgs) = 1 => x = <<>>
<1> DEFINE rest == Tail(msgs)
           all == (1 .. Len(rest)) \X (1 .. MaxData)
           units == {u \in all : u[2] <= HeaderSize(Len(rest[u[1]].hnds)) + Len(rest[u[1]].data)}
           x == [i \in 1 .. Cardinality(units) |-> Junk]
<1>1. Len(rest) \in Nat /\ (Len(msgs) = 1 => Len(rest) = 0) /\ MaxData \in Nat
  BY IpcAssumption DEF Mail
<1>2. IsFiniteSet(1 .. Len(rest)) /\ IsFiniteSet(1 .. MaxData)
  BY <1>1, FS_Interval
<1>3. IsFiniteSet(all)
  BY <1>2, FS_Product
<1>4. IsFiniteSet(units)
  BY <1>3, FS_Subset
<1>5. Cardinality(units) \in Nat
  BY <1>4, FS_CardinalityType
<1>6. x \in Seq({Junk})
  <2> HIDE DEF units
  <2> QED
    BY <1>5
<1>7. ASSUME Len(msgs) = 1 PROVE x = <<>>
  <2>1. units = {}
    <3>1. Len(rest) = 0
      BY <1>1, <1>7
    <3> HIDE DEF rest
    <3>2. 1 .. Len(rest) = {}
      BY <3>1
    <3> QED
      BY <3>2
  <2>2. Cardinality(units) = 0
    BY <2>1, FS_EmptySet
  <2> HIDE DEF units
  <2> QED
    BY <2>2
<1>8. ReadAll(msgs) = Head(msgs).data \o x
  BY DEF ReadAll, Following
<1> HIDE DEF x
<1> QED
  BY <1>6, <1>7, <1>8

LEMMA Widened ==
    ASSUME NEW A, NEW B, NEW q \in Seq(A)
    PROVE  q \in Seq(A \cup B) /\ q \in Seq(B \cup A)
<1>1. Len(q) \in Nat /\ q = [i \in 1 .. Len(q) |-> q[i]] /\ \A i \in 1 .. Len(q) : q[i] \in A
  OBVIOUS
<1>2. q \in [1 .. Len(q) -> A \cup B] /\ q \in [1 .. Len(q) -> B \cup A]
  BY <1>1
<1> QED
  BY <1>1, <1>2

\* What a reader with room for b units gets of data d with x behind them.
Prefixed(d, x, b) ==
    LET all == d \o x
        n == Min({b, Len(d)})
        g == SubSeq(all, 1, Min({b, Len(all)}))
    IN  /\ SubSeq(g, 1, n) = SubSeq(d, 1, n)
        /\ x = <<>> => Len(g) = n /\ Len(all) = Len(d)

LEMMA PrefixRead ==
    ASSUME NEW S, NEW d \in Seq(S), NEW x \in Seq(S), NEW b \in Nat
    PROVE  Prefixed(d, x, b)
<1> DEFINE all == d \o x
           n == Min({b, Len(d)})
           k == Min({b, Len(all)})
           g == SubSeq(all, 1, k)
<1>1. /\ all \in Seq(S) /\ Len(all) = Len(d) + Len(x) /\ Len(d) \in Nat /\ Len(x) \in Nat
      /\ \A i \in 1 .. Len(d) : all[i] = d[i]
  OBVIOUS
<1> HIDE DEF all
<1>2. Len(all) \in Nat
  BY <1>1
<1>3. /\ n \in Nat /\ n <= b /\ n <= Len(d)
      /\ (b <= Len(d) => n = b) /\ (Len(d) <= b => n = Len(d))
  BY <1>1, MinOfTwo
<1>4. /\ k \in Nat /\ k <= b /\ k <= Len(all)
      /\ (b <= Len(all) => k = b) /\ (Len(all) <= b => k = Len(all))
  BY <1>2, MinOfTwo
<1> HIDE DEF n, k
<1>5. n <= k
  BY <1>1, <1>2, <1>3, <1>4
<1>6. g \in Seq(S) /\ Len(g) = k /\ \A i \in 1 .. k : g[i] = all[i]
  BY <1>1, <1>2, <1>4
<1> HIDE DEF g
<1>7. /\ SubSeq(g, 1, n) = [i \in 1 .. n |-> g[i]]
      /\ SubSeq(d, 1, n) = [i \in 1 .. n |-> d[i]]
  <2>1. n \in 0 .. Len(g) /\ n \in 0 .. Len(d)
    BY <1>1, <1>3, <1>4, <1>5, <1>6
  <2>2. SubSeq(g, 1, n) = [i \in 1 .. n |-> g[i]]
    BY ONLY <1>6, <2>1
  <2>3. SubSeq(d, 1, n) = [i \in 1 .. n |-> d[i]]
    BY ONLY d \in Seq(S), <2>1
  <2> QED
    BY <2>2, <2>3
<1>8. \A i \in 1 .. n : g[i] = d[i]
  <2>1. \A i \in 1 .. n : i \in 1 .. k /\ i \in 1 .. Len(d)
    BY <1>1, <1>3, <1>4, <1>5
  <2> QED
    BY ONLY <1>1, <1>6, <2>1
<1>9. SubSeq(g, 1, n) = SubSeq(d, 1, n)
  BY <1>7, <1>8
<1>10. ASSUME x = <<>> PROVE Len(g) = n /\ Len(all) = Len(d)
  BY <1>1, <1>3, <1>4, <1>6, <1>10
<1> QED
  BY <1>9, <1>10 DEF all, n, k, g, Prefixed

\* The handles of a message are those before a place and those behind it.
LEMMA HandlesSplit ==
    ASSUME NEW q \in Seq(HSlot), NEW n \in 0 .. Len(q),
           \A i, j \in 1 .. Len(q) : q[i] = q[j] => i = j
    PROVE  LET K == Range(SubSeq(q, 1, n))
               D == Range(SubSeq(q, n + 1, Len(q)))
           IN  /\ K \cup D = Range(q) /\ K \cap D = {}
               /\ \A i \in 1 .. n : q[i] \in K /\ q[i] \in HSlot
<1> DEFINE K == Range(SubSeq(q, 1, n))
           D == Range(SubSeq(q, n + 1, Len(q)))
<1>1. Len(q) \in Nat /\ n \in Nat /\ n <= Len(q) /\ \A i \in 1 .. Len(q) : q[i] \in HSlot
  OBVIOUS
<1>2. K = {q[i] : i \in 1 .. n}
  <2> DEFINE r == SubSeq(q, 1, n)
  <2>1. Len(r) = n /\ r \in Seq(HSlot) /\ \A i \in 1 .. n : r[i] = q[i]
    BY <1>1
  <2>2. DOMAIN r = 1 .. n
    BY <2>1
  <2> HIDE DEF r
  <2>3. Range(r) = {r[i] : i \in 1 .. n}
    BY <2>2 DEF Range
  <2>4. {r[i] : i \in 1 .. n} = {q[i] : i \in 1 .. n}
    BY <2>1
  <2> QED
    BY <2>3, <2>4 DEF r
<1>3. D = {q[i] : i \in n + 1 .. Len(q)}
  <2> DEFINE r == SubSeq(q, n + 1, Len(q))
  <2>1. /\ Len(r) = Len(q) - n /\ r \in Seq(HSlot)
        /\ \A i \in 1 .. Len(q) - n : r[i] = q[n + i]
    BY <1>1
  <2>2. DOMAIN r = 1 .. Len(q) - n
    BY <2>1
  <2> HIDE DEF r
  <2>3. \A i \in n + 1 .. Len(q) : i - n \in 1 .. Len(q) - n /\ n + (i - n) = i
    BY <1>1
  <2>4. \A i \in 1 .. Len(q) - n : n + i \in n + 1 .. Len(q)
    BY <1>1
  <2>5. Range(r) \subseteq {q[i] : i \in n + 1 .. Len(q)}
    BY <2>1, <2>2, <2>4 DEF Range
  <2>6. {q[i] : i \in n + 1 .. Len(q)} \subseteq Range(r)
    <3> SUFFICES ASSUME NEW i \in n + 1 .. Len(q) PROVE q[i] \in Range(r)
      OBVIOUS
    <3>1. i - n \in DOMAIN r /\ r[i - n] = q[i]
      BY <2>1, <2>2, <2>3
    <3> QED
      BY <3>1 DEF Range
  <2> QED
    BY <2>5, <2>6 DEF r
<1>4. Range(q) = {q[i] : i \in 1 .. Len(q)}
  BY DEF Range
<1>5. \A i \in 1 .. Len(q) : i \in 1 .. n \/ i \in n + 1 .. Len(q)
  BY <1>1
<1>6. \A i \in 1 .. n : i \in 1 .. Len(q)
  BY <1>1
<1>7. \A i \in n + 1 .. Len(q) : i \in 1 .. Len(q) /\ i \notin 1 .. n
  BY <1>1
<1> HIDE DEF K, D
<1>8. K \cup D = Range(q)
  BY <1>2, <1>3, <1>4, <1>5, <1>6, <1>7
<1>9. K \cap D = {}
  <2> SUFFICES ASSUME NEW i \in 1 .. n, NEW j \in n + 1 .. Len(q), q[i] = q[j] PROVE FALSE
    BY <1>2, <1>3
  <2> QED
    BY <1>6, <1>7
<1>10. \A i \in 1 .. n : q[i] \in K /\ q[i] \in HSlot
  BY <1>1, <1>2, <1>6
<1> QED
  BY <1>8, <1>9, <1>10 DEF K, D

LEMMA ReceiveKeeps ==
    ASSUME IpcInv, mm_ipc_recvmsg PROVE IpcInv'
<1>1. UNCHANGED <<met, srvAt, hpipe>>
  BY DEF mm_ipc_recvmsg
<1>2. PICK p \in Proc, s \in HSlot, buf \in RecvBufs :
        /\ fdInfo[p][s] = "ipc" /\ queue[table[p][s]] # <<>>
        /\ \E anc \in read_ancillary_data(p, Head(queue[table[p][s]]).hnds, buf.fds) :
             /\ table' = anc.table
             /\ fdInfo' = [fdInfo EXCEPT ![p] = [x \in HSlot |->
                    IF x \in Range(SubSeq(Head(queue[table[p][s]]).hnds, 1, anc.n)) THEN "file"
                    ELSE fdInfo[p][x]]]
             /\ got' = deserialize_msg(p, queue[table[p][s]], ReadAll(queue[table[p][s]]), buf, anc)
        /\ lost' = [lost EXCEPT ![p] = @ \cup (HandlesIn(table[p][s])
                                        \ Range(Head(queue[table[p][s]]).hnds))]
        /\ queue' = [queue EXCEPT ![table[p][s]] = <<>>]
  BY DEF mm_ipc_recvmsg
<1> DEFINE e == table[p][s]
           m == Head(queue[e])
           q == m.hnds
           data == ReadAll(queue[e])
<1>3. e \in End /\ queue[e] \in Mail /\ queue[e] # <<>>
  BY <1>2 DEF IpcInv, Kinds, IpcTypes
<1>4. m \in GoodMsg /\ m \in Range(queue[e]) /\ Range(q) \subseteq Hnds(queue[e])
  BY <1>3, MailIs
<1>5. PICK x \in Seq({Junk}) : data = m.data \o x /\ (Len(queue[e]) = 1 => x = <<>>)
  BY <1>3, ReadAllIs
<1> HIDE DEF m, data
<1>6. /\ q \in Seq(HSlot) /\ m.data \in Seq(Letter)
      /\ m.data = SubSeq(m.given, 1, Min({Len(m.given), MaxData - HeaderSize(Len(q))}))
      /\ \A i, j \in 1 .. Len(q) : q[i] = q[j] => i = j
  BY <1>4 DEF GoodMsg, MsgRec
<1> HIDE DEF q, e
<1>8. PICK anc \in read_ancillary_data(p, q, buf.fds) :
        /\ table' = anc.table
        /\ fdInfo' = [fdInfo EXCEPT ![p] = [y \in HSlot |->
               IF y \in Range(SubSeq(q, 1, anc.n)) THEN "file" ELSE fdInfo[p][y]]]
        /\ got' = deserialize_msg(p, queue[e], data, buf, anc)
  BY <1>2 DEF e, m, q, data
<1>9. PICK n \in 0 .. Min({Len(q), buf.fds}) :
        anc = [n |-> n, table |-> Cleared(p, Range(SubSeq(q, n + 1, Len(q))))]
  BY <1>8 DEF read_ancillary_data
<1> DEFINE K == Range(SubSeq(q, 1, n))
           D == Range(SubSeq(q, n + 1, Len(q)))
<1>10. n \in 0 .. Len(q) /\ n <= buf.fds
  <2>1. Len(q) \in Nat /\ buf.fds \in Nat
    BY <1>6, IpcAssumption
  <2> QED
    BY <2>1, MinOfTwo
<1>11. /\ K \cup D = Range(q) /\ K \cap D = {}
       /\ \A i \in 1 .. n : q[i] \in K /\ q[i] \in HSlot
  BY <1>6, <1>10, HandlesSplit
<1>12. anc.n = n /\ anc.table = Cleared(p, D)
  BY <1>9
<1> HIDE DEF K, D
<1>13. lost' = [lost EXCEPT ![p] = @ \cup (Hnds(queue[e]) \ (K \cup D))]
  <2>1. HandlesIn(e) = Hnds(queue[e])
    BY DEF HandlesIn, Hnds
  <2> QED
    BY <1>2, <1>11, <2>1 DEF e, m, q
<1>14. GotRight(got')
  <2> DEFINE objs == [i \in 1 .. n |-> anc.table[p][q[i]]]
             room == Min({buf.data, Len(m.data)})
             given == SubSeq(data, 1, Min({buf.data, Len(data)}))
  <2>1. /\ got'.msg = <<m>> /\ got'.buf = buf /\ got'.rv = Len(data)
        /\ got'.data = given /\ got'.read = Len(queue[e])
        /\ got'.objs = objs /\ got'.ctrunc = (n < Len(q))
    BY <1>8, <1>12 DEF deserialize_msg, q, m
  <2>2. Len(objs) = n
    BY <1>10
  <2>3. \A i \in 1 .. n : objs[i] = m.file
    <3> SUFFICES ASSUME NEW i \in 1 .. n PROVE anc.table[p][q[i]] = m.file
      OBVIOUS
    <3>1. q[i] \in K /\ q[i] \notin D /\ q[i] \in HSlot /\ q[i] \in Range(q)
      BY <1>11
    <3>2. NoObj \in Obj /\ IpcTypes
      BY DEF IpcInv, Obj
    <3>3. anc.table[p][q[i]] = table[p][q[i]]
      BY <1>12, <3>1, <3>2, FilledIs DEF Cleared
    <3>4. Held(fdInfo[p], table[p], queue[e])
      BY <1>3, FlyingIs DEF e
    <3>5. table[p][q[i]] = m.file
      BY <1>4, <3>1, <3>4 DEF Held, q
    <3> QED
      BY <3>3, <3>5
  <2>5. SubSeq(given, 1, room) = SubSeq(m.data, 1, room)
        /\ (Len(queue[e]) = 1 => Len(given) = room /\ Len(data) = Len(m.data))
    <3> DEFINE U == Letter \cup {Junk}
    <3>1. m.data \in Seq(U) /\ x \in Seq(U)
      BY <1>6, Widened
    <3>2. buf.data \in Nat
      BY IpcAssumption
    <3> DEFINE d == m.data
               b == buf.data
    <3>3. d \in Seq(U) /\ x \in Seq(U) /\ b \in Nat
      BY <3>1, <3>2
    <3> HIDE DEF U, d, b, room, given
    <3>4. Prefixed(d, x, b)
      BY ONLY <3>3, PrefixRead
    <3> QED
      BY ONLY <1>5, <3>4 DEF Prefixed, d, b, room, given
  <2> HIDE DEF objs, given, room
  <2>4. got'.msg[1] = m
    BY <2>1
  <2> QED
    BY <1>6, <1>10, <2>1, <2>2, <2>3, <2>4, <2>5 DEF GotRight, q, room
<1>15. /\ table' = Cleared(p, D) /\ K \cup D \subseteq Hnds(queue[e])
       /\ fdInfo' = [fdInfo EXCEPT ![p] = [y \in HSlot |->
               IF y \in K THEN "file" ELSE fdInfo[p][y]]]
  BY <1>4, <1>8, <1>11, <1>12 DEF K
<1>16. (got # NothingGot => GotRight(got))'
  BY <1>14 DEF GotRight
<1> QED
  BY <1>1, <1>2, <1>3, <1>11, <1>13, <1>15, <1>16, MessageReceived DEF e

-----------------------------------------------------------------------------
LEMMA IpcStarts == IpcInit => IpcInv
<1> SUFFICES ASSUME IpcInit PROVE IpcInv
  OBVIOUS
<1>1. /\ table = [p \in Proc |-> [s \in HSlot |-> IF s = 1 THEN File(p) ELSE NoObj]]
      /\ fdInfo = [p \in Proc |-> [s \in HSlot |-> IF s = 1 THEN "file" ELSE "none"]]
      /\ queue = [e \in End |-> <<>>]
      /\ met = {} /\ srvAt = "none" /\ hpipe = 1 /\ got = NothingGot
      /\ lost = [p \in Proc |-> {}]
  BY DEF IpcInit, End
<1>2. \A p \in Proc : File(p) \in FileObj
  BY DEF FileObj
<1>3. /\ \A p \in Proc, s \in HSlot : table[p][s] = IF s = 1 THEN File(p) ELSE NoObj
      /\ \A p \in Proc, s \in HSlot : fdInfo[p][s] = IF s = 1 THEN "file" ELSE "none"
  BY <1>1
<1>4. \A p \in Proc, s \in HSlot : table[p][s] \notin End
  BY <1>2, <1>3, ObjKinds
<1>5. IpcTypes
  <2>2. table \in [Proc -> [HSlot -> Obj]]
    BY <1>1, <1>2 DEF Obj
  <2> QED
    BY <1>1, <1>2, <1>3, <2>2, NoMail, ObjKinds DEF IpcTypes
<1>6. Kinds /\ Listening /\ OneHolder /\ Flying
  BY <1>1, <1>2, <1>3, <1>4 DEF Kinds, Listening, OneHolder, Flying
<1>7. Opened
  <2>1. \A e \in End : ~IsOpen(e)
    BY <1>4 DEF IsOpen
  <2> QED
    BY <1>1, <2>1, ObjKinds DEF Opened
<1>8. Covered
  BY <1>3 DEF Covered
<1> QED
  BY <1>1, <1>5, <1>6, <1>7, <1>8 DEF IpcInv

LEMMA IpcStep ==
    ASSUME IpcInv, NoMishaps, [IpcNext]_ipcVars PROVE IpcInv'
<1>1. CASE UNCHANGED ipcVars
  BY <1>1, IpcStays DEF ipcVars
<1> QED
  BY <1>1, CreateKeeps, AcceptKeeps, InstanceKeeps, DestroyKeeps, ConnectKeeps, PairKeeps,
     SendKeeps, ReceiveKeeps, CloseKeeps DEF IpcNext

LEMMA IpcInvGives == IpcInv => IpcDelivers
<1> SUFFICES ASSUME IpcInv PROVE IpcDelivers
  OBVIOUS
<1>1. ASSUME NEW p \in Proc, NEW s \in HSlot
      PROVE  /\ table[p][s] # NoObj =>
                 \/ fdInfo[p][s] # "none"
                 \/ p = Server /\ srvAt = "idle" /\ s = hpipe
                 \/ s \in InFlight(p) \cup lost[p]
             /\ fdInfo[p][s] # "none" => table[p][s] # NoObj
             /\ (p = Server /\ srvAt = "idle" /\ s = hpipe) => fdInfo[p][s] = "none"
  <2>1. fdInfo[p][s] # "none" => table[p][s] # NoObj
    BY EmptyIs
  <2>2. (p = Server /\ srvAt = "idle" /\ s = hpipe) => fdInfo[p][s] = "none"
    BY ListeningIs
  <2>3. ASSUME Carried(p, s) PROVE s \in InFlight(p)
    <3>1. PICK r \in HSlot : table[p][r] \in End /\ s \in Hnds(queue[table[p][r]])
      BY <2>3 DEF Carried
    <3> DEFINE e == table[p][r]
    <3>2. e \in DOMAIN queue /\ IsOpen(e)
      BY <3>1 DEF IpcInv, IpcTypes, IsOpen
    <3>3. Holder(e) \in Proc /\ \E x \in HSlot : table[Holder(e)][x] = e
      BY DEF Holder
    <3>4. Holder(e) = p
      BY <3>1, <3>3, HolderIs
    <3>5. s \in HandlesIn(e)
      BY <3>1 DEF HandlesIn, Hnds
    <3> HIDE DEF e
    <3> QED
      BY <3>2, <3>4, <3>5 DEF InFlight
  <2>4. table[p][s] # NoObj /\ fdInfo[p][s] = "none" =>
            Listens(p, s) \/ s \in lost[p] \/ Carried(p, s)
    BY DEF IpcInv, Covered
  <2> QED
    BY <2>1, <2>2, <2>3, <2>4 DEF Listens
<1>2. IpcHandlesAccounted
  BY <1>1 DEF IpcHandlesAccounted
<1> QED
  BY <1>2 DEF IpcDelivers, IpcInv, GotRight

\* While no duplication fails half-way and a listening pipe can be replaced, a
\* reception of mm_ipc_recvmsg() gives the oldest message of mm_ipc_sendmsg(), cut
\* to what fits a pipe message and to the room for it, with the very files of the
\* sender; whatever the number of messages on their way, only what is behind its
\* data is of other messages. No process loses track of a handle other than those
\* of messages that were never read (src/local-ipc-win32.c).
THEOREM DescriptorsArrive ==
    ASSUME NoMishaps PROVE IpcSpec => []IpcDelivers
<1>1. IpcInv /\ [IpcNext]_ipcVars => IpcInv'
  BY IpcStep
<1> QED
  BY <1>1, IpcStarts, IpcInvGives, PTL DEF IpcSpec

-----------------------------------------------------------------------------
(***************************************************************************)
(* Profile: its inductive invariant                                        *)
(***************************************************************************)
ProfSpec == ProfInit /\ [][ProfNext]_profVars

Duration == 0 .. MaxClock

\* The time of a point, and the iterations before the current one.
TimeAt(i) == timestamps[i].tv_sec * SEC_IN_NSEC + timestamps[i].tv_nsec
Earlier == SubSeq(iters, 1, Len(iters) - 1)
Current == iters[Len(iters)]

ProfTypes ==
    /\ next_ts \in Slots /\ num_ts \in Slots /\ num_iter \in Nat /\ toc_overhead \in Nat
    /\ timestamps \in [Slots -> [tv_sec : Nat, tv_nsec : Nat]]
    /\ profClock \in 0 .. MaxClock
    /\ iters \in Seq(Seq(Duration)) /\ Len(iters) = num_iter
    /\ \E S : results \in Seq(S)
    /\ \A i \in Slots : stats[i].min \in Int /\ stats[i].max \in Int /\ stats[i].sum \in Int

\* The current iteration has one duration for each point behind the first, and
\* the last point is where the clock stands while there is room for more.
Points ==
    /\ num_iter = 0 <=> next_ts = 0
    /\ num_iter > 0 =>
        /\ Len(Current) = next_ts - 1
        /\ \A i \in 1 .. next_ts - 1 : Current[i] = TimeAt(i) - TimeAt(i - 1)
        /\ next_ts < NUM_TS_MAX - 1 => TimeAt(next_ts - 1) = profClock
    /\ \A i \in 1 .. num_ts - 1 : \E k \in 1 .. Len(iters) : i <= Len(iters[k])

\* The measures of some iterations at a point, and their sum, with the overhead o.
Measures(its, i, o) == {its[k][i] - o : k \in {j \in DOMAIN its : i <= Len(its[j])}}
Summed(its, i, o) ==
    LET sum[k \in 0 .. Len(its)] == IF k = 0 THEN 0 ELSE sum[k - 1] + its[k][i] - o
    IN  sum[Len(its)]

\* Statistics of a point that are of all of some iterations and of part of others;
\* the least value and the median after a reset only, the sum until the first print only.
StatsOf(s, i, all, some, o, reset, fresh) ==
    /\ reset =>
        /\ s.min = STEP_NEED_INIT \/ s.min \in Measures(some, i, o)
        /\ \A v \in Measures(all, i, o) : s.min <= v
        /\ \A v : Measures(some, i, o) \subseteq {v} =>
                /\ s.median.step = STEP_NEED_INIT \/ s.median.median = v
                /\ Measures(all, i, o) # {} => s.median.median = v
    /\ s.max = 0 \/ s.max \in Measures(some, i, o)
    /\ s.max >= 0 /\ \A v \in Measures(all, i, o) : v <= s.max
    /\ fresh /\ (\A k \in 1 .. Len(all) : i <= Len(all[k])) => s.sum = Summed(all, i, o)

StatsRight ==
    \A i \in Slots \ {0} :
        StatsOf(stats[i], i, Earlier, iters, toc_overhead, wasReset, results = <<>>)

\* A row of a table printed for some iterations.
RowOf(row, its, i, o, reset, first) ==
    /\ i <= Len(its[Len(its)]) => row.curr = its[Len(its)][i] - o
    /\ reset => /\ row.min = Min(Measures(its, i, o))
                /\ \A v \in Measures(its, i, o) : Measures(its, i, o) = {v} => row.median = v
    /\ row.max = Max(Measures(its, i, o) \cup {0})
    /\ first /\ (\A j \in DOMAIN its : i <= Len(its[j])) =>
            row.mean = Quot(Summed(its, i, o), Len(its))

RowsRight ==
    \A k \in DOMAIN results : \A i \in DOMAIN results[k].table :
        RowOf(results[k].table[i], results[k].iters, i, toc_overhead, wasReset, k = 1)

LabelsRight ==
    /\ labels \in [Slots -> Labels \cup {"null", ""}]
    /\ labelled \in [Slots -> Labels \cup {"null"}]
    /\ labelled[0] = "null"
    /\ \A i \in Slots \ {0} : labels[i] = labelled[i]

ProfInv == ProfTypes /\ Points /\ StatsRight /\ RowsRight /\ LabelsRight

-----------------------------------------------------------------------------
(***************************************************************************)
(* Sums, measures and times                                                *)
(***************************************************************************)

LEMMA WithOverhead ==
    /\ \A its, i : MeasuredAt(its, i) = Measures(its, i, toc_overhead)
    /\ \A its, i : SumAt(its, i) = Summed(its, i, toc_overhead)
BY DEF MeasuredAt, SumAt, Measures, Summed

LEMMA SlotsAre ==
    /\ NUM_TS_MAX \in Nat /\ NUM_TS_MAX >= 2 /\ MaxClock \in Nat
    /\ STEP_NEED_INIT \in Nat /\ STEP_NEED_INIT > MaxClock /\ SEC_IN_NSEC \in Nat \ {0}
    /\ 0 \in Slots /\ Slots \subseteq Nat /\ Duration \subseteq Nat
    /\ \A i : i \in Slots <=> i \in Nat /\ i <= NUM_TS_MAX - 1
<1>1. NUM_TS_MAX \in Nat \ {0, 1} /\ MaxClock \in Nat /\ STEP_NEED_INIT \in Nat
      /\ SEC_IN_NSEC \in Nat \ {0} /\ STEP_NEED_INIT > MaxClock + SEC_IN_NSEC
  BY ProfileAssumption
<1> QED
  BY <1>1 DEF Slots, Duration

\* A sum is given by a function of its terms.
SumRun(f, its, i, o) ==
    /\ f[0] = 0 /\ \A k \in 1 .. Len(its) : f[k] = f[k - 1] + its[k][i] - o
    /\ \A k \in 0 .. Len(its) : f[k] \in Int

LEMMA SumRunIs ==
    ASSUME NEW its \in Seq(Seq(Duration)), NEW i \in Nat \ {0}, NEW o \in Int,
           \A k \in 1 .. Len(its) : i <= Len(its[k])
    PROVE  \E f : SumRun(f, its, i, o) /\ Summed(its, i, o) = f[Len(its)]
<1> DEFINE n == Len(its)
           Up(x, k) == x + its[k][i] - o
           D == Int
           G == [q \in Nat \X D |-> IF q[1] \in 1 .. n THEN Up(q[2], q[1]) ELSE q[2]]
           IsRun(f) == f = [k \in 0 .. n |-> IF k = 0 THEN 0 ELSE Up(f[k - 1], k)]
<1>1. n \in Nat /\ \A k \in 1 .. n : its[k][i] \in Int
  <2>1. n \in Nat
    OBVIOUS
  <2>2. ASSUME NEW k \in 1 .. n PROVE its[k][i] \in Int
    <3>1. its[k] \in Seq(Duration) /\ i \in 1 .. Len(its[k])
      OBVIOUS
    <3>2. its[k][i] \in Duration
      BY <3>1
    <3>3. Duration \subseteq Nat
      BY SlotsAre
    <3> HIDE DEF n
    <3>4. its[k][i] \in Nat
      BY ONLY <3>2, <3>3
    <3> QED
      BY ONLY <3>4
  <2> QED
    BY <2>1, <2>2
<1>2. \A x \in Int, k \in 1 .. n : Up(x, k) \in Int
  BY <1>1
<1>3. Summed(its, i, o) = (CHOOSE f : IsRun(f))[n]
  BY DEF Summed
<1> HIDE DEF Up, n
<1>a. 0 \in D /\ \A x \in D, k \in 1 .. n : Up(x, k) \in D
  BY <1>2
<1> HIDE DEF D
<1>4. G \in [Nat \X D -> D] /\ \A k \in 1 .. n : \A x \in D : G[<<k, x>>] = Up(x, k)
  BY <1>1, <1>a
<1> HIDE DEF G
<1>5. PICK g : RunOf(g, D, 0, G, n)
  BY <1>1, <1>4, <1>a, RunExists
<1>6. g \in [0 .. n -> D] /\ g[0] = 0 /\ \A k \in 1 .. n : g[k] = G[<<k, g[k - 1]>>]
  BY <1>5 DEF RunOf
<1>7. \A k \in 1 .. n : g[k] = Up(g[k - 1], k)
  <2> SUFFICES ASSUME NEW k \in 1 .. n PROVE g[k] = Up(g[k - 1], k)
    OBVIOUS
  <2>1. k - 1 \in 0 .. n
    BY <1>1
  <2> QED
    BY <1>4, <1>6, <2>1
<1>8. IsRun(g)
  BY <1>1, <1>6, <1>7
<1> DEFINE f == CHOOSE f : IsRun(f)
<1>9. IsRun(f)
  <2> HIDE DEF IsRun
  <2> QED
    BY <1>8
<1> HIDE DEF f
<1>10. f[0] = 0 /\ \A k \in 1 .. n : f[k] = Up(f[k - 1], k)
  BY <1>1, <1>9
<1> DEFINE T == {k \in Nat : k <= n => f[k] \in Int}
<1>11. Nat \subseteq T
  <2>1. 0 \in T
    BY <1>10
  <2>2. ASSUME NEW k \in Nat, k \in T PROVE k + 1 \in T
    <3> SUFFICES ASSUME k + 1 <= n PROVE f[k + 1] \in Int
      OBVIOUS
    <3>1. k + 1 \in 1 .. n /\ k <= n /\ (k + 1) - 1 = k
      BY <1>1
    <3> QED
      BY <1>2, <1>10, <2>2, <3>1
  <2> HIDE DEF T
  <2> QED
    BY <2>1, <2>2, SetInduction
<1>12. \A k \in 0 .. n : f[k] \in Int
  BY <1>1, <1>11
<1>13. SumRun(f, its, i, o)
  BY <1>10, <1>12 DEF SumRun, Up, n
<1>14. Summed(its, i, o) = f[n]
  BY <1>3 DEF f
<1> QED
  BY <1>13, <1>14 DEF n

LEMMA SumOfNone ==
    ASSUME NEW i \in Nat \ {0}, NEW o \in Int PROVE Summed(<<>>, i, o) = 0
<1>1. <<>> \in Seq(Seq(Duration)) /\ Len(<<>>) = 0 /\ \A k \in 1 .. 0 : i <= Len(<<>>[k])
  OBVIOUS
<1>2. PICK f : SumRun(f, <<>>, i, o) /\ Summed(<<>>, i, o) = f[Len(<<>>)]
  BY <1>1, SumRunIs
<1> QED
  BY <1>1, <1>2 DEF SumRun

LEMMA SumOfOneMore ==
    ASSUME NEW its \in Seq(Seq(Duration)), NEW it \in Seq(Duration), NEW i \in Nat \ {0},
           NEW o \in Int, \A k \in 1 .. Len(its) : i <= Len(its[k]), i <= Len(it)
    PROVE  Summed(Append(its, it), i, o) = Summed(its, i, o) + it[i] - o
<1> DEFINE n == Len(its)
           all == Append(its, it)
<1>1. /\ n \in Nat /\ all \in Seq(Seq(Duration)) /\ Len(all) = n + 1 /\ all[n + 1] = it
      /\ \A k \in 1 .. n : all[k] = its[k]
  OBVIOUS
<1> HIDE DEF all
<1>2. \A k \in 1 .. Len(all) : i <= Len(all[k])
  <2> SUFFICES ASSUME NEW k \in 1 .. Len(all) PROVE i <= Len(all[k])
    OBVIOUS
  <2>1. k = n + 1 \/ k \in 1 .. n
    BY <1>1
  <2> QED
    BY <1>1, <2>1
<1>3. PICK f : SumRun(f, its, i, o) /\ Summed(its, i, o) = f[n]
  BY SumRunIs
<1>4. PICK g : SumRun(g, all, i, o) /\ Summed(all, i, o) = g[n + 1]
  BY <1>1, <1>2, SumRunIs
<1> DEFINE T == {k \in Nat : k <= n => f[k] = g[k]}
<1>5. Nat \subseteq T
  <2>1. 0 \in T
    BY <1>3, <1>4 DEF SumRun
  <2>2. ASSUME NEW k \in Nat, k \in T PROVE k + 1 \in T
    <3> SUFFICES ASSUME k + 1 <= n PROVE f[k + 1] = g[k + 1]
      OBVIOUS
    <3>1. k + 1 \in 1 .. n /\ k + 1 \in 1 .. Len(all) /\ k <= n /\ (k + 1) - 1 = k
      BY <1>1
    <3>2. f[k + 1] = f[k] + its[k + 1][i] - o
      BY <1>3, <3>1 DEF SumRun
    <3>3. g[k + 1] = g[k] + all[k + 1][i] - o
      BY <1>4, <3>1 DEF SumRun
    <3> QED
      BY <1>1, <2>2, <3>1, <3>2, <3>3
  <2> HIDE DEF T
  <2> QED
    BY <2>1, <2>2, SetInduction
<1>6. f[n] = g[n]
  BY <1>1, <1>5
<1>7. g[n + 1] = g[n] + it[i] - o
  <2>1. n + 1 \in 1 .. Len(all) /\ (n + 1) - 1 = n
    BY <1>1
  <2> QED
    BY <1>1, <1>4, <2>1 DEF SumRun
<1> QED
  BY <1>3, <1>4, <1>6, <1>7 DEF all

\* The measures of one iteration more.
LEMMA MeasuresOfOneMore ==
    ASSUME NEW its \in Seq(Seq(Duration)), NEW it \in Seq(Duration), NEW i, NEW o
    PROVE  Measures(Append(its, it), i, o) =
               Measures(its, i, o) \cup (IF i <= Len(it) THEN {it[i] - o} ELSE {})
<1> DEFINE n == Len(its)
           all == Append(its, it)
<1>1. /\ n \in Nat /\ DOMAIN its = 1 .. n /\ DOMAIN all = 1 .. n + 1 /\ all[n + 1] = it
      /\ \A k \in 1 .. n : all[k] = its[k]
  OBVIOUS
<1> HIDE DEF all, n
<1>2. 1 .. n + 1 = 1 .. n \cup {n + 1}
  BY <1>1
<1>3. Measures(all, i, o) = Measures(its, i, o) \cup (IF i <= Len(it) THEN {it[i] - o} ELSE {})
  BY <1>1, <1>2 DEF Measures
<1> QED
  BY <1>3 DEF all

\* A measure is no larger than the clock goes.
LEMMA MeasuresAre ==
    ASSUME NEW its \in Seq(Seq(Duration)), NEW i \in Nat \ {0}, NEW o \in Nat,
           NEW v \in Measures(its, i, o)
    PROVE  v \in Int /\ v < STEP_NEED_INIT
<1>1. PICK k \in DOMAIN its : i <= Len(its[k]) /\ v = its[k][i] - o
  BY DEF Measures
<1>2. its[k] \in Seq(Duration) /\ i \in 1 .. Len(its[k])
  BY <1>1
<1>3. its[k][i] \in Duration
  BY <1>2
<1> QED
  BY <1>1, <1>3, SlotsAre DEF Duration

LEMMA DiffIs ==
    ASSUME ProfTypes, NEW i \in Slots \ {0}
    PROVE  /\ get_diff_ts(i) = TimeAt(i) - TimeAt(i - 1) - toc_overhead
           /\ TimeAt(i) \in Nat /\ TimeAt(i - 1) \in Nat
<1> DEFINE a == timestamps[i].tv_sec
           b == timestamps[i].tv_nsec
           c == timestamps[i - 1].tv_sec
           d == timestamps[i - 1].tv_nsec
           S == SEC_IN_NSEC
<1>0. NUM_TS_MAX \in Nat /\ S \in Nat
  BY SlotsAre
<1>1. i - 1 \in Slots /\ S \in Nat /\ toc_overhead \in Nat
  BY <1>0 DEF ProfTypes, Slots
<1>2. a \in Nat /\ b \in Nat /\ c \in Nat /\ d \in Nat
  BY <1>1 DEF ProfTypes
<1>3. get_diff_ts(i) = (a - c) * S + b - d - toc_overhead
  BY DEF get_diff_ts
<1>4. TimeAt(i) = a * S + b /\ TimeAt(i - 1) = c * S + d
  BY DEF TimeAt
<1> HIDE DEF a, b, c, d, S
<1>5. (a - c) * S = a * S - c * S /\ a * S \in Nat /\ c * S \in Nat
  BY <1>1, <1>2
<1> QED
  BY <1>1, <1>2, <1>3, <1>4, <1>5

\* A time is stored as it was read.
LEMMA TimeIs ==
    ASSUME NEW t \in Nat
    PROVE  /\ t \div SEC_IN_NSEC \in Nat /\ t % SEC_IN_NSEC \in Nat
           /\ (t \div SEC_IN_NSEC) * SEC_IN_NSEC + (t % SEC_IN_NSEC) = t
<1> DEFINE S == SEC_IN_NSEC
<1>1. S \in Nat /\ S > 0
  BY SlotsAre
<1> HIDE DEF S
<1>2. t \div S \in Nat /\ t % S \in Nat
  BY <1>1
<1>3. (t \div S) * S + (t % S) = t
  BY <1>1
<1> QED
  BY <1>2, <1>3 DEF S

LEMMA LeastOfTwo ==
    ASSUME NEW a \in Int, NEW b \in Int
    PROVE  /\ Min({a, b}) \in {a, b} /\ Min({a, b}) <= a /\ Min({a, b}) <= b
           /\ Max({a, b}) \in {a, b} /\ Max({a, b}) >= a /\ Max({a, b}) >= b
<1> DEFINE IsMin(x) == x \in {a, b} /\ \A y \in {a, b} : x <= y
           IsMax(x) == x \in {a, b} /\ \A y \in {a, b} : x >= y
<1>1. Min({a, b}) = (CHOOSE x : IsMin(x)) /\ Max({a, b}) = (CHOOSE x : IsMax(x))
  BY DEF Min, Max
<1>2. (\E x : IsMin(x)) /\ (\E x : IsMax(x))
  <2>1. CASE a <= b
    BY <2>1
  <2>2. CASE b <= a
    BY <2>2
  <2> QED
    BY <2>1, <2>2
<1> HIDE DEF IsMin, IsMax
<1>3. IsMin(Min({a, b})) /\ IsMax(Max({a, b}))
  BY <1>1, <1>2
<1> QED
  BY <1>3 DEF IsMin, IsMax

\* Extrema are told by what they are.
LEMMA ExtremumIs ==
    ASSUME NEW M, M \subseteq Int, NEW m \in M
    PROVE  /\ (\A v \in M : m <= v) => m = Min(M)
           /\ (\A v \in M : v <= m) => m = Max(M)
<1> DEFINE IsMin(x) == x \in M /\ \A y \in M : x <= y
           IsMax(x) == x \in M /\ \A y \in M : x >= y
<1>1. Min(M) = (CHOOSE x : IsMin(x)) /\ Max(M) = (CHOOSE x : IsMax(x))
  BY DEF Min, Max
<1>2. ASSUME \A v \in M : m <= v PROVE m = Min(M)
  <2>1. IsMin(m)
    BY <1>2
  <2>2. \A x : IsMin(x) => x = m
    BY <1>2
  <2> HIDE DEF IsMin
  <2> QED
    BY <1>1, <2>1, <2>2
<1>3. ASSUME \A v \in M : v <= m PROVE m = Max(M)
  <2>1. IsMax(m)
    BY <1>3
  <2>2. \A x : IsMax(x) => x = m
    BY <1>3
  <2> HIDE DEF IsMax
  <2> QED
    BY <1>1, <2>1, <2>2
<1> QED
  BY <1>2, <1>3

LEMMA WithoutLast ==
    ASSUME NEW S, NEW s \in Seq(S), NEW e \in S
    PROVE  SubSeq(Append(s, e), 1, Len(s)) = s
<1> DEFINE a == Append(s, e)
           b == SubSeq(a, 1, Len(s))
<1>1. a \in Seq(S) /\ Len(a) = Len(s) + 1 /\ Len(s) \in Nat
  OBVIOUS
<1>2. ASSUME NEW k \in 1 .. Len(s) PROVE a[k] = s[k]
  OBVIOUS
<1> HIDE DEF a
<1>3. b \in Seq(S) /\ Len(b) = Len(s)
  BY <1>1
<1>4. ASSUME NEW k \in 1 .. Len(s) PROVE b[k] = s[k]
  <2>1. b[k] = a[k]
    BY <1>1
  <2> QED
    BY <1>2, <2>1
<1> HIDE DEF b
<1>5. b = s
  BY <1>3, <1>4
<1> QED
  BY <1>5 DEF a, b

LEMMA MeasuresOfNone ==
    ASSUME NEW i, NEW o PROVE Measures(<<>>, i, o) = {}
BY DEF Measures

\* The iterations are the earlier ones and the current one.
LEMMA IterationsSplit ==
    ASSUME ProfTypes
    PROVE  /\ Earlier \in Seq(Seq(Duration))
           /\ num_iter = 0 => iters = <<>> /\ Earlier = <<>>
           /\ num_iter > 0 => /\ Current \in Seq(Duration) /\ iters = Append(Earlier, Current)
                              /\ Len(Earlier) = num_iter - 1
                              /\ \A k \in 1 .. num_iter - 1 : Earlier[k] = iters[k]
<1>1. iters \in Seq(Seq(Duration)) /\ Len(iters) = num_iter /\ num_iter \in Nat
  BY DEF ProfTypes
<1>2. CASE num_iter = 0
  <2>1. iters = <<>>
    BY <1>1, <1>2
  <2>2. Earlier = <<>>
    BY <2>1 DEF Earlier
  <2>3. <<>> \in Seq(Seq(Duration))
    OBVIOUS
  <2> QED
    BY <1>2, <2>1, <2>2, <2>3
<1>3. CASE num_iter > 0
  <2> DEFINE n == num_iter
  <2>1. Earlier \in Seq(Seq(Duration)) /\ Len(Earlier) = n - 1
        /\ \A k \in 1 .. n - 1 : Earlier[k] = iters[k]
    BY <1>1, <1>3 DEF Earlier
  <2>2. Current \in Seq(Duration) /\ Current = iters[n]
    BY <1>1, <1>3 DEF Current
  <2>3. iters = Append(Earlier, Current)
    <3> DEFINE b == Append(Earlier, Current)
    <3>1. b \in Seq(Seq(Duration)) /\ Len(b) = n
      BY <1>1, <2>1, <2>2
    <3>2. ASSUME NEW k \in 1 .. n PROVE b[k] = iters[k]
      <4>1. k = n \/ k \in 1 .. n - 1
        BY <1>1
      <4> QED
        BY <1>1, <1>3, <2>1, <2>2, <4>1
    <3> HIDE DEF b
    <3>3. b = iters
      BY <1>1, <3>1, <3>2
    <3> QED
      BY <3>3 DEF b
  <2> QED
    BY <1>1, <1>3, <2>1, <2>2, <2>3
<1> QED
  BY <1>1, <1>2, <1>3

\* More of the iterations may be counted in part, and fewer need be in full when
\* no sum is asked for.
LEMMA PartOfMore ==
    ASSUME NEW s, NEW i, NEW all, NEW some, NEW more, NEW o, NEW w, NEW f,
           StatsOf(s, i, all, some, o, w, f), Measures(some, i, o) \subseteq Measures(more, i, o)
    PROVE  StatsOf(s, i, all, more, o, w, f)
BY DEF StatsOf

LEMMA FullOfFewer ==
    ASSUME NEW s, NEW i, NEW all, NEW fewer, NEW some, NEW o, NEW w, NEW f,
           StatsOf(s, i, all, some, o, w, f), Measures(fewer, i, o) \subseteq Measures(all, i, o)
    PROVE  StatsOf(s, i, fewer, some, o, w, FALSE)
BY DEF StatsOf

LEMMA CountedTypes ==
    ASSUME ProfTypes, NEW i \in Slots
    PROVE  /\ update_diffs[i].min \in Int /\ update_diffs[i].max \in Int
           /\ update_diffs[i].sum \in Int
<1> DEFINE u == update_diffs[i]
           s == stats[i]
           d == get_diff_ts(i)
<1>1. s.min \in Int /\ s.max \in Int /\ s.sum \in Int /\ toc_overhead \in Nat /\ next_ts \in Nat
  BY SlotsAre DEF ProfTypes
<1>2. CASE i \in 1 .. next_ts - 1
  <2>1. i \in Slots \ {0}
    BY <1>1, <1>2
  <2>2. d \in Int
    <3>1. d = TimeAt(i) - TimeAt(i - 1) - toc_overhead /\ TimeAt(i) \in Nat /\ TimeAt(i - 1) \in Nat
      BY <2>1, DiffIs
    <3> QED
      BY <1>1, <3>1
  <2>3. u.min = Min({d, s.min}) /\ u.max = Max({d, s.max}) /\ u.sum = s.sum + d
    BY <1>2 DEF update_diffs, Counted
  <2> HIDE DEF d, s, u
  <2>4. Min({d, s.min}) \in {d, s.min} /\ Max({d, s.max}) \in {d, s.max}
    BY <1>1, <2>2, LeastOfTwo
  <2>5. u.min \in Int /\ u.max \in Int /\ u.sum \in Int
    BY <1>1, <2>2, <2>3, <2>4
  <2> QED
    BY <2>5 DEF u
<1>3. CASE i \notin 1 .. next_ts - 1
  <2>1. u = s
    BY <1>3 DEF update_diffs, Counted
  <2> QED
    BY <1>1, <2>1
<1> QED
  BY <1>2, <1>3

\* A measure that is the median leaves it.
LEMMA MedianStays ==
    ASSUME NEW d \in Int, NEW me, me.median = d, me.step # STEP_NEED_INIT
    PROVE  median_estimator_update(me, d).median = d
<1>1. ~(d - me.median > 0) /\ ~(d - me.median < 0)
  OBVIOUS
<1> QED
  BY <1>1 DEF median_estimator_update

\* Brought up to date, the statistics are those of all iterations.
LEMMA CountedRight ==
    ASSUME ProfTypes, Points, StatsRight, NEW i \in Slots \ {0}
    PROVE  StatsOf(update_diffs[i], i, iters, iters, toc_overhead, wasReset, results = <<>>)
<1> DEFINE u == update_diffs[i]
           s == stats[i]
           o == toc_overhead
           w == wasReset
           f == results = <<>>
           d == get_diff_ts(i)
           before == Measures(Earlier, i, o)
           now == Measures(iters, i, o)
<1>1. /\ s.min \in Int /\ s.max \in Int /\ s.sum \in Int /\ o \in Nat /\ o \in Int /\ next_ts \in Nat
      /\ num_iter \in Nat /\ i \in Nat \ {0}
  BY SlotsAre DEF ProfTypes
<1>2. StatsOf(s, i, Earlier, iters, o, w, f)
  BY DEF StatsRight
<1>3. CASE num_iter = 0
  <2>1. iters = Earlier
    BY <1>3, IterationsSplit
  <2>2. i \notin 1 .. next_ts - 1
    BY <1>3 DEF Points
  <2>3. u = s
    BY <2>2 DEF update_diffs, Counted
  <2> QED
    BY <1>2, <2>1, <2>3
<1>4. CASE num_iter > 0
  <2>1. /\ Earlier \in Seq(Seq(Duration)) /\ Current \in Seq(Duration)
        /\ iters = Append(Earlier, Current) /\ Len(Earlier) = num_iter - 1
        /\ \A k \in 1 .. num_iter - 1 : Earlier[k] = iters[k]
    BY <1>4, IterationsSplit
  <2>2. Len(Current) = next_ts - 1 /\ Len(iters) = num_iter /\ iters[num_iter] = Current
    BY <1>4 DEF Points, ProfTypes, Current
  <2>3. now = before \cup (IF i <= Len(Current) THEN {Current[i] - o} ELSE {})
    BY <2>1, MeasuresOfOneMore
  <2>4. CASE i \in 1 .. next_ts - 1
    <3>1. u.min = Min({d, s.min}) /\ u.max = Max({d, s.max}) /\ u.sum = s.sum + d
      BY <2>4 DEF update_diffs, Counted
    <3>2. /\ d = TimeAt(i) - TimeAt(i - 1) - o /\ TimeAt(i) \in Nat /\ TimeAt(i - 1) \in Nat
      BY DiffIs
    <3>3. Current[i] = TimeAt(i) - TimeAt(i - 1)
      BY <1>4, <2>4 DEF Points
    <3>4. d = Current[i] - o /\ d \in Int /\ i <= Len(Current) /\ Current[i] \in Int
      BY <1>1, <2>2, <2>4, <3>2, <3>3
    <3>5. now = before \cup {d}
      BY <2>3, <3>4
    <3>6. ASSUME NEW v \in before PROVE v \in Int
      BY <1>1, <2>1, MeasuresAre
    <3> HIDE DEF u, s, d, before, now, f, w
    <3>7. /\ u.min \in {d, s.min} /\ u.min <= d /\ u.min <= s.min
          /\ u.max \in {d, s.max} /\ u.max >= d /\ u.max >= s.max
      <4>1. Min({d, s.min}) \in {d, s.min} /\ Min({d, s.min}) <= d /\ Min({d, s.min}) <= s.min
        BY <1>1, <3>4, LeastOfTwo
      <4>2. Max({d, s.max}) \in {d, s.max} /\ Max({d, s.max}) >= d /\ Max({d, s.max}) >= s.max
        BY <1>1, <3>4, LeastOfTwo
      <4> QED
        BY <3>1, <4>1, <4>2
    <3>8. u.min \in Int /\ u.max \in Int
      BY <1>1, <3>4, <3>7
    <3>9. ASSUME w PROVE /\ u.min = STEP_NEED_INIT \/ u.min \in now
                         /\ \A v \in now : u.min <= v
      <4>1. s.min = STEP_NEED_INIT \/ s.min \in now
        BY <1>2, <3>9 DEF StatsOf, now
      <4>2. \A v \in before : s.min <= v
        BY <1>2, <3>9 DEF StatsOf, before
      <4> QED
        BY <1>1, <3>4, <3>5, <3>6, <3>7, <3>8, <4>1, <4>2
    <3>m. ASSUME w, NEW v, now \subseteq {v} PROVE u.median.median = v
      <4>1. d = v /\ (s.median.step = STEP_NEED_INIT \/ s.median.median = v)
        BY <1>2, <3>5, <3>m DEF StatsOf, now
      <4>2. u.median = median_estimator_update(s.median, d)
        BY <2>4 DEF update_diffs, Counted, u, s, d
      <4>3. CASE s.median.step = STEP_NEED_INIT
        BY <4>1, <4>2, <4>3 DEF median_estimator_update
      <4>4. CASE s.median.step # STEP_NEED_INIT
        <5>1. s.median.median = d
          BY <4>1, <4>4
        <5> QED
          BY <3>4, <4>1, <4>2, <4>4, <5>1, MedianStays
      <4> QED
        BY <4>3, <4>4
    <3>10. /\ u.max = 0 \/ u.max \in now
           /\ u.max >= 0 /\ \A v \in now : v <= u.max
      <4>1. s.max = 0 \/ s.max \in now
        BY <1>2 DEF StatsOf, now
      <4>2. s.max >= 0 /\ \A v \in before : v <= s.max
        BY <1>2 DEF StatsOf, before
      <4> QED
        BY <1>1, <3>4, <3>5, <3>6, <3>7, <3>8, <4>1, <4>2
    <3>11. ASSUME f, \A k \in 1 .. Len(iters) : i <= Len(iters[k]) PROVE u.sum = Summed(iters, i, o)
      <4>1. \A k \in 1 .. Len(Earlier) : i <= Len(Earlier[k])
        BY <1>1, <1>4, <2>1, <2>2, <3>11
      <4>2. s.sum = Summed(Earlier, i, o)
        BY <1>2, <3>11, <4>1 DEF StatsOf
      <4>3. Summed(Append(Earlier, Current), i, o) = Summed(Earlier, i, o) + Current[i] - o
        BY <1>1, <2>1, <3>4, <4>1, SumOfOneMore
      <4>4. Summed(iters, i, o) = s.sum + Current[i] - o
        BY <2>1, <4>2, <4>3
      <4> HIDE DEF o
      <4> QED
        BY <1>1, <3>1, <3>4, <4>4
    <3>12. StatsOf(u, i, iters, iters, o, w, f)
      BY <3>9, <3>m, <3>10, <3>11 DEF StatsOf, now
    <3> QED
      BY <3>12 DEF u, f, w
  <2>5. CASE i \notin 1 .. next_ts - 1
    <3>1. u = s
      BY <2>5 DEF update_diffs, Counted
    <3>2. ~(i <= Len(Current))
      BY <1>1, <2>2, <2>5
    <3>3. now = before
      BY <2>3, <3>2
    <3>4. ~(\A k \in 1 .. Len(iters) : i <= Len(iters[k]))
      <4>1. num_iter \in 1 .. Len(iters)
        BY <1>1, <1>4, <2>2
      <4> QED
        BY <2>2, <3>2, <4>1
    <3>5. StatsOf(u, i, iters, iters, o, w, f)
      <4> HIDE DEF u, s, f, w
      <4> QED
        BY <1>2, <3>1, <3>3, <3>4 DEF StatsOf
    <3> QED
      BY <3>5
  <2> QED
    BY <2>4, <2>5
<1> QED
  BY <1>1, <1>3, <1>4

-----------------------------------------------------------------------------
(***************************************************************************)
(* The calls preserve it                                                   *)
(***************************************************************************)
LEMMA ProfStarts == ProfInit => ProfInv
<1> SUFFICES ASSUME ProfInit PROVE ProfInv
  OBVIOUS
<1> USE DEF ProfInit
<1>1. <<>> \in Seq(Seq(Duration)) /\ Len(<<>>) = 0
  OBVIOUS
<1>2. ProfTypes
  <2>1. results \in Seq({})
    OBVIOUS
  <2>2. stats = [i \in Slots |-> ZeroStats] /\ ZeroStats.min = 0 /\ ZeroStats.max = 0 /\ ZeroStats.sum = 0
    BY DEF ZeroStats
  <2>3. timestamps \in [Slots -> [tv_sec : Nat, tv_nsec : Nat]]
    OBVIOUS
  <2> QED
    BY <1>1, <2>1, <2>2, <2>3, SlotsAre DEF ProfTypes
<1>3. Points
  BY DEF Points
<1>4. StatsRight
  <2> SUFFICES ASSUME NEW i \in Slots \ {0}
               PROVE  StatsOf(stats[i], i, Earlier, iters, toc_overhead, wasReset, results = <<>>)
    BY DEF StatsRight
  <2>1. iters = <<>> /\ Earlier = <<>>
    BY <1>2, IterationsSplit
  <2>2. Summed(<<>>, i, toc_overhead) = 0 /\ Measures(<<>>, i, toc_overhead) = {}
    BY SlotsAre, SumOfNone, MeasuresOfNone
  <2>3. stats[i].max = 0 /\ stats[i].sum = 0
    BY DEF ZeroStats
  <2> QED
    BY <2>1, <2>2, <2>3 DEF StatsOf
<1>5. RowsRight
  BY DEF RowsRight
<1>6. LabelsRight
  BY SlotsAre DEF LabelsRight, NoLabels
<1> QED
  BY <1>2, <1>3, <1>4, <1>5, <1>6 DEF ProfInv

LEMMA RowsStay ==
    ASSUME RowsRight, UNCHANGED <<results, toc_overhead, wasReset>>
    PROVE  RowsRight'
BY DEF RowsRight

LEMMA LabelsStay ==
    ASSUME LabelsRight, UNCHANGED <<labels, labelled>>
    PROVE  LabelsRight'
BY DEF LabelsRight

\* The point put in a slot, at the time it was measured.
LEMMA PointPut ==
    ASSUME ProfTypes, NEW slot \in Slots, slot < NUM_TS_MAX - 1, NEW t \in Nat, local_toc(slot, t)
    PROVE  /\ timestamps' \in [Slots -> [tv_sec : Nat, tv_nsec : Nat]]
           /\ TimeAt(slot)' = t /\ \A i \in Slots \ {slot} : TimeAt(i)' = TimeAt(i)
           /\ num_ts' \in Slots /\ next_ts' = slot + 1 /\ next_ts' \in Slots
           /\ num_ts' \in {num_ts, slot + 1} /\ num_ts' >= num_ts /\ num_ts' >= slot + 1
<1> DEFINE e == [tv_sec |-> t \div SEC_IN_NSEC, tv_nsec |-> t % SEC_IN_NSEC]
<1>1. /\ timestamps' = [timestamps EXCEPT ![slot] = e]
      /\ num_ts' = Max({num_ts, slot + 1}) /\ next_ts' = slot + 1
  BY SlotsAre DEF local_toc
<1>2. /\ t \div SEC_IN_NSEC \in Nat /\ t % SEC_IN_NSEC \in Nat
      /\ (t \div SEC_IN_NSEC) * SEC_IN_NSEC + (t % SEC_IN_NSEC) = t
  BY TimeIs
<1>3. e \in [tv_sec : Nat, tv_nsec : Nat] /\ e.tv_sec * SEC_IN_NSEC + e.tv_nsec = t
  BY <1>2
<1> HIDE DEF e
<1>4. timestamps \in [Slots -> [tv_sec : Nat, tv_nsec : Nat]] /\ num_ts \in Slots
  BY DEF ProfTypes
<1>5. /\ timestamps' \in [Slots -> [tv_sec : Nat, tv_nsec : Nat]]
      /\ timestamps'[slot] = e /\ \A i \in Slots \ {slot} : timestamps'[i] = timestamps[i]
  BY <1>1, <1>3, <1>4
<1>6. TimeAt(slot)' = t /\ \A i \in Slots \ {slot} : TimeAt(i)' = TimeAt(i)
  BY <1>3, <1>5 DEF TimeAt
<1>7. num_ts \in Int /\ slot + 1 \in Int /\ slot + 1 \in Slots
  BY <1>4, SlotsAre
<1>8. Max({num_ts, slot + 1}) \in {num_ts, slot + 1} /\ Max({num_ts, slot + 1}) >= num_ts
      /\ Max({num_ts, slot + 1}) >= slot + 1
  BY <1>7, LeastOfTwo
<1> QED
  BY <1>1, <1>4, <1>5, <1>6, <1>7, <1>8

LEMMA TicKeeps == ASSUME ProfInv, mm_tic PROVE ProfInv'
<1> USE DEF ProfInv
<1>1. PICK t \in 0 .. MaxClock : Time(t) /\ local_toc(0, t)
  BY DEF mm_tic
<1>2. /\ stats' = update_diffs /\ num_iter' = num_iter + 1 /\ iters' = Append(iters, <<>>)
      /\ UNCHANGED <<toc_overhead, labels, wasReset, labelled, results>>
  BY DEF mm_tic
<1>3. t \in Nat /\ profClock' = t /\ profClock' \in 0 .. MaxClock
  BY <1>1, SlotsAre DEF Time
<1>4. /\ timestamps' \in [Slots -> [tv_sec : Nat, tv_nsec : Nat]]
      /\ TimeAt(0)' = t /\ num_ts' \in Slots /\ next_ts' = 1 /\ next_ts' \in Slots
      /\ num_ts' \in {num_ts, 1}
  <2>1. 0 \in Slots /\ 0 < NUM_TS_MAX - 1
    BY SlotsAre
  <2> QED
    BY <1>1, <1>3, <2>1, PointPut
<1>5. /\ iters \in Seq(Seq(Duration)) /\ Len(iters) = num_iter /\ num_iter \in Nat
      /\ <<>> \in Seq(Duration) /\ Len(<<>>) = 0
  BY DEF ProfTypes
<1>6. /\ iters' \in Seq(Seq(Duration)) /\ Len(iters') = num_iter' /\ num_iter' \in Nat
      /\ num_iter' > 0 /\ iters'[num_iter'] = <<>> /\ Len(iters') = Len(iters) + 1
      /\ \A k \in 1 .. Len(iters) : iters'[k] = iters[k]
  BY <1>2, <1>5
<1>7. Earlier' = iters
  <2>1. Len(iters') - 1 = Len(iters)
    BY <1>5, <1>6
  <2>2. Earlier' = SubSeq(Append(iters, <<>>), 1, Len(iters))
    BY <1>2, <2>1 DEF Earlier
  <2>3. ASSUME NEW e \in Seq(Duration) PROVE SubSeq(Append(iters, e), 1, Len(iters)) = iters
    BY <1>5, WithoutLast
  <2> QED
    BY <1>5, <2>2, <2>3
<1>8. ProfTypes'
  <2>1. \A i \in Slots : stats'[i].min \in Int /\ stats'[i].max \in Int /\ stats'[i].sum \in Int
    BY <1>2, CountedTypes
  <2> QED
    BY <1>2, <1>3, <1>4, <1>6, <2>1 DEF ProfTypes
<1>9. Points'
  <2>1. Current' = <<>>
    BY <1>6 DEF Current
  <2>2. \A i \in 1 .. num_ts' - 1 : \E k \in 1 .. Len(iters') : i <= Len(iters'[k])
    <3>1. PICK N \in Nat : N = num_ts'
      BY <1>4, SlotsAre
    <3> SUFFICES ASSUME NEW i, i \in 1 .. N - 1
                 PROVE  \E k \in 1 .. Len(iters') : i <= Len(iters'[k])
      BY <3>1
    <3>b. N \in {num_ts, 1}
      BY <1>4, <3>1
    <3>c. N # 1
      OBVIOUS
    <3>2. N = num_ts
      BY <3>b, <3>c
    <3>a. i \in 1 .. num_ts - 1
      BY <3>2
    <3>3. PICK k \in 1 .. Len(iters) : i <= Len(iters[k])
      BY <3>a DEF Points
    <3>4. k \in 1 .. Len(iters') /\ i <= Len(iters'[k])
      BY <1>5, <1>6, <3>3
    <3> QED
      BY <3>4
  <2>3. Len(Current') = next_ts' - 1 /\ next_ts' - 1 = 0 /\ next_ts' # 0 /\ num_iter' # 0
    BY <1>4, <1>5, <1>6, <2>1
  <2>4. TimeAt(next_ts - 1)' = profClock'
    BY <1>3, <1>4, <2>3 DEF TimeAt
  <2> QED
    BY <2>2, <2>3, <2>4 DEF Points
<1>10. StatsRight'
  <2> SUFFICES ASSUME NEW i \in Slots \ {0}
               PROVE  StatsOf(stats'[i], i, Earlier', iters', toc_overhead', wasReset', results' = <<>>)
    BY DEF StatsRight
  <2> DEFINE u == update_diffs[i]
             f == results = <<>>
  <2>1. StatsOf(u, i, iters, iters, toc_overhead, wasReset, f)
    BY CountedRight
  <2>2. ASSUME NEW e \in Seq(Duration)
        PROVE  Measures(iters, i, toc_overhead) \subseteq Measures(Append(iters, e), i, toc_overhead)
    BY <1>5, MeasuresOfOneMore
  <2>3. Measures(iters, i, toc_overhead) \subseteq Measures(iters', i, toc_overhead)
    BY <1>2, <1>5, <2>2
  <2> HIDE DEF u, f
  <2>4. StatsOf(u, i, iters, iters', toc_overhead, wasReset, f)
    BY <2>1, <2>3, PartOfMore
  <2>5. stats'[i] = u /\ toc_overhead' = toc_overhead /\ wasReset' = wasReset /\ (results' = <<>>) = f
    BY <1>2 DEF u, f
  <2> QED
    BY <1>7, <2>4, <2>5
<1>11. RowsRight' /\ LabelsRight'
  BY <1>2, RowsStay, LabelsStay
<1> QED
  BY <1>8, <1>9, <1>10, <1>11

\* The current iteration with one duration more.
LEMMA TocKeepsPoints ==
    ASSUME ProfInv, Toc
    PROVE  /\ ProfTypes' /\ Points' /\ StatsRight' /\ RowsRight'
           /\ next_ts \in Slots \ {0}
<1> USE DEF ProfInv
<1> DEFINE n == num_iter
<1>1. PICK t \in 0 .. MaxClock :
        /\ Time(t) /\ local_toc(next_ts, t)
        /\ iters' = IF next_ts = NUM_TS_MAX - 1 THEN iters
                    ELSE [iters EXCEPT ![Len(iters)] = Append(@, t - profClock)]
  BY DEF Toc
<1>2. num_iter > 0 /\ UNCHANGED <<num_iter, toc_overhead, stats, wasReset, results>>
  BY DEF Toc
<1>3. /\ t \in Nat /\ profClock' = t /\ profClock' \in 0 .. MaxClock
      /\ t - profClock \in Duration
  <2>1. PICK d \in Delays : t = profClock + d
    BY <1>1 DEF Time
  <2>2. d \in Nat
    BY <2>1, ProfileAssumption
  <2>3. profClock \in Nat /\ t \in Nat /\ MaxClock \in Nat /\ t <= MaxClock
    BY <1>1, SlotsAre DEF ProfTypes
  <2> QED
    BY <1>1, <2>1, <2>2, <2>3 DEF Time, Duration
<1>4. /\ Earlier \in Seq(Seq(Duration)) /\ Current \in Seq(Duration)
      /\ iters = Append(Earlier, Current) /\ Len(Earlier) = n - 1
      /\ \A k \in 1 .. n - 1 : Earlier[k] = iters[k]
  BY <1>2, IterationsSplit
<1>5. /\ next_ts \in Slots /\ next_ts # 0 /\ next_ts \in Nat /\ n \in Nat /\ num_ts \in Nat
      /\ iters \in Seq(Seq(Duration)) /\ Len(iters) = n /\ Len(Current) = next_ts - 1
      /\ Current = iters[n]
  BY <1>2, SlotsAre DEF ProfTypes, Points, Current
<1>6. RowsRight'
  BY <1>2, RowsStay
<1>7. CASE next_ts = NUM_TS_MAX - 1
  <2>1. UNCHANGED <<next_ts, timestamps, num_ts, iters, num_iter, toc_overhead, stats, wasReset, results>>
    BY <1>1, <1>2, <1>7 DEF local_toc
  <2>2. ProfTypes'
    BY <1>3, <2>1 DEF ProfTypes
  <2>3. Points'
    <3>1. ~(next_ts < NUM_TS_MAX - 1)
      BY <1>5, <1>7
    <3> QED
      BY <2>1, <3>1 DEF Points, Current, TimeAt
  <2>4. StatsRight'
    BY <2>1 DEF StatsRight, Earlier
  <2> QED
    BY <1>5, <1>6, <2>2, <2>3, <2>4
<1>8. CASE next_ts # NUM_TS_MAX - 1
  <2> DEFINE it == Append(Current, t - profClock)
  <2>0. PICK m \in Slots : m = next_ts
    BY <1>5
  <2>1. next_ts < NUM_TS_MAX - 1
    BY <1>5, <1>8, SlotsAre
  <2>2. /\ timestamps' \in [Slots -> [tv_sec : Nat, tv_nsec : Nat]]
        /\ TimeAt(m)' = t /\ \A i \in Slots \ {m} : TimeAt(i)' = TimeAt(i)
        /\ num_ts' \in Slots /\ next_ts' = m + 1 /\ next_ts' \in Slots
        /\ num_ts' \in {num_ts, m + 1} /\ num_ts' >= num_ts /\ num_ts' >= m + 1
    BY <1>1, <1>3, <1>5, <2>0, <2>1, PointPut
  <2>3. iters' = [iters EXCEPT ![n] = it]
    BY <1>1, <1>5, <1>8
  <2>4. /\ it \in Seq(Duration) /\ Len(it) = m /\ it[m] = t - profClock
        /\ \A i \in 1 .. m - 1 : it[i] = Current[i]
    BY <1>3, <1>4, <1>5, <2>0
  <2> HIDE DEF it
  <2>5. /\ iters' \in Seq(Seq(Duration)) /\ Len(iters') = n /\ iters'[n] = it
        /\ \A k \in 1 .. n - 1 : iters'[k] = iters[k]
    BY <1>2, <1>5, <2>3, <2>4
  <2>6. ProfTypes'
    BY <1>2, <1>3, <2>2, <2>5 DEF ProfTypes
  <2>7. Current' = it
    BY <1>2, <2>5 DEF Current
  <2>8. Earlier' = Earlier
    <3> DEFINE b == SubSeq(iters', 1, n - 1)
    <3>1. Earlier' = b
      BY <2>5 DEF Earlier
    <3>2. b \in Seq(Seq(Duration)) /\ Len(b) = Len(Earlier)
      BY <1>2, <1>4, <1>5, <2>5
    <3>3. ASSUME NEW k \in 1 .. Len(Earlier) PROVE b[k] = Earlier[k]
      BY <1>2, <1>4, <1>5, <2>5
    <3> HIDE DEF b
    <3>4. b = Earlier
      BY <1>4, <3>2, <3>3
    <3> QED
      BY <3>1, <3>4
  <2>9. Points'
    <3>1. Len(Current') = next_ts' - 1 /\ next_ts' # 0 /\ num_iter' # 0 /\ next_ts' - 1 = m
      BY <1>2, <1>5, <2>0, <2>2, <2>4, <2>7
    <3>2. ASSUME NEW i, i \in 1 .. m PROVE Current'[i] = TimeAt(i)' - TimeAt(i - 1)'
      <4>1. i \in Slots /\ i - 1 \in Slots /\ i - 1 # m /\ i \in 1 .. m /\ i \in Nat
        <5>1. m \in Nat /\ m <= NUM_TS_MAX - 1 /\ NUM_TS_MAX \in Nat
          BY <2>0, SlotsAre
        <5>2. i \in Nat /\ i - 1 \in Nat /\ i <= NUM_TS_MAX - 1 /\ i - 1 <= NUM_TS_MAX - 1 /\ i - 1 # m
          BY <3>2, <5>1
        <5> QED
          BY <3>2, <5>2, SlotsAre
      <4>2. CASE i = m
        <5>1. TimeAt(m - 1) = profClock
          BY <1>2, <2>0, <2>1 DEF Points
        <5>2. TimeAt(i - 1)' = profClock
          BY <2>2, <4>1, <4>2, <5>1
        <5>3. TimeAt(i)' = t
          BY <2>2, <4>2
        <5> QED
          BY <2>4, <2>7, <4>2, <5>2, <5>3
      <4>3. CASE i # m
        <5>1. i \in 1 .. m - 1
          BY <1>5, <2>0, <4>1, <4>3
        <5>2. Current[i] = TimeAt(i) - TimeAt(i - 1)
          BY <1>2, <2>0, <5>1 DEF Points
        <5>3. TimeAt(i - 1)' = TimeAt(i - 1) /\ TimeAt(i)' = TimeAt(i)
          BY <2>2, <4>1, <4>3
        <5> QED
          BY <2>4, <2>7, <5>1, <5>2, <5>3
      <4> QED
        BY <4>2, <4>3
    <3>3. TimeAt(next_ts - 1)' = profClock'
      BY <1>3, <2>2, <3>1 DEF TimeAt
    <3>N. PICK N \in Nat : N = num_ts'
      BY <2>2, SlotsAre
    <3>4. ASSUME NEW i, i \in 1 .. N - 1
          PROVE  \E k \in 1 .. Len(iters') : i <= Len(iters'[k])
      <4>1. i \in Nat /\ i >= 1 /\ i <= N - 1
        BY <3>4
      <4>2. CASE i <= m
        <5>1. n \in 1 .. Len(iters') /\ i <= Len(iters'[n])
          BY <1>2, <1>5, <2>0, <2>4, <2>5, <4>2
        <5> QED
          BY <5>1
      <4>3. CASE i > m
        <5>a. N \in {num_ts, m + 1}
          BY <2>2, <3>N
        <5>b. N # m + 1
          BY <1>5, <2>0, <4>1, <4>3
        <5>1. N = num_ts
          BY <5>a, <5>b
        <5>2. i \in 1 .. num_ts - 1
          BY <4>1, <5>1
        <5>3. PICK k \in 1 .. Len(iters) : i <= Len(iters[k])
          BY <5>2 DEF Points
        <5>4. k # n
          BY <1>5, <2>0, <4>1, <4>3, <5>3
        <5>5. k \in 1 .. n - 1
          BY <1>5, <5>4
        <5>6. k \in 1 .. Len(iters') /\ i <= Len(iters'[k])
          BY <1>5, <2>5, <5>3, <5>5
        <5> QED
          BY <5>6
      <4> QED
        BY <1>5, <2>0, <4>1, <4>2, <4>3
    <3>5. \A i \in 1 .. next_ts' - 1 : Current'[i] = TimeAt(i)' - TimeAt(i - 1)'
      BY <3>1, <3>2
    <3>6. \A i \in 1 .. num_ts' - 1 : \E k \in 1 .. Len(iters') : i <= Len(iters'[k])
      BY <3>N, <3>4
    <3> QED
      BY <3>1, <3>3, <3>5, <3>6 DEF Points
  <2>10. StatsRight'
    <3> SUFFICES ASSUME NEW i \in Slots \ {0}
                 PROVE  StatsOf(stats'[i], i, Earlier', iters', toc_overhead', wasReset', results' = <<>>)
      BY DEF StatsRight
    <3> DEFINE o == toc_overhead
               f == results = <<>>
    <3>1. StatsOf(stats[i], i, Earlier, iters, o, wasReset, f)
      BY DEF StatsRight
    <3>2. Measures(iters, i, o) =
            Measures(Earlier, i, o) \cup (IF i <= Len(Current) THEN {Current[i] - o} ELSE {})
      BY <1>4, MeasuresOfOneMore
    <3>3. iters' = Append(Earlier, it)
      <4>1. Earlier' \in Seq(Seq(Duration)) /\ (num_iter' > 0 => iters' = Append(Earlier', Current'))
        <5>1. (ProfTypes => (num_iter > 0 => iters = Append(Earlier, Current)))'
          BY IterationsSplit, PTL
        <5> QED
          BY <1>4, <2>6, <2>8, <5>1
      <4> QED
        BY <1>2, <2>7, <2>8, <4>1
    <3>4. Measures(iters', i, o) =
            Measures(Earlier, i, o) \cup (IF i <= Len(it) THEN {it[i] - o} ELSE {})
      BY <1>4, <2>4, <3>3, MeasuresOfOneMore
    <3>5. Measures(iters, i, o) \subseteq Measures(iters', i, o)
      <4>1. i \in Nat /\ i >= 1
        BY SlotsAre
      <4>2. i <= Len(Current) => i <= Len(it) /\ it[i] = Current[i]
        BY <1>5, <2>0, <2>4, <4>1
      <4> QED
        BY <3>2, <3>4, <4>2
    <3> HIDE DEF f, o
    <3>6. StatsOf(stats[i], i, Earlier, iters', o, wasReset, f)
      BY <3>1, <3>5, PartOfMore
    <3>7. stats' = stats /\ toc_overhead' = o /\ wasReset' = wasReset /\ (results' = <<>>) = f
      BY <1>2 DEF f, o
    <3> QED
      BY <2>8, <3>6, <3>7
  <2> QED
    BY <1>5, <1>6, <2>6, <2>9, <2>10
<1> QED
  BY <1>7, <1>8

LEMMA TocLabels ==
    ASSUME ProfInv, NEW l \in Labels, mm_toc_label(l) PROVE LabelsRight'
<1>1. next_ts \in Slots \ {0}
  BY TocKeepsPoints DEF mm_toc_label
<1>2. LabelsRight
  BY DEF ProfInv
<1>3. labels[next_ts] = labelled[next_ts]
  BY <1>1, <1>2 DEF LabelsRight
<1>4. CASE labels[next_ts] = "null"
  <2>1. /\ labels' = [labels EXCEPT ![next_ts] = l]
        /\ labelled' = [labelled EXCEPT ![next_ts] = l]
    BY <1>3, <1>4 DEF mm_toc_label
  <2>2. /\ labels \in [Slots -> Labels \cup {"null", ""}]
        /\ labelled \in [Slots -> Labels \cup {"null"}]
        /\ labelled[0] = "null" /\ \A i \in Slots \ {0} : labels[i] = labelled[i]
    BY <1>2 DEF LabelsRight
  <2>3. /\ labels' \in [Slots -> Labels \cup {"null", ""}]
        /\ labelled' \in [Slots -> Labels \cup {"null"}]
    BY <2>1, <2>2
  <2>4. labelled'[0] = "null"
    BY <1>1, <2>1, <2>2, SlotsAre
  <2>5. \A i \in Slots \ {0} : labels'[i] = labelled'[i]
    BY <1>1, <2>1, <2>2
  <2> QED
    BY <2>3, <2>4, <2>5 DEF LabelsRight
<1>5. CASE labels[next_ts] # "null"
  <2>1. UNCHANGED <<labels, labelled>>
    BY <1>3, <1>5 DEF mm_toc_label
  <2> QED
    BY <1>2, <2>1, LabelsStay
<1> QED
  BY <1>4, <1>5

\* A row is right once the statistics are of all iterations and some have the point.
LEMMA RowIsRight ==
    ASSUME NEW its \in Seq(Seq(Duration)), NEW i \in Nat \ {0}, NEW o \in Nat, NEW s, NEW row,
           NEW w, NEW f, StatsOf(s, i, its, its, o, w, f), s.min \in Int, s.max \in Int,
           NEW k \in 1 .. Len(its), i <= Len(its[k]),
           row.min = s.min, row.max = s.max, row.mean = Quot(s.sum, Len(its)),
           row.median = s.median.median,
           i <= Len(its[Len(its)]) => row.curr = its[Len(its)][i] - o
    PROVE  RowOf(row, its, i, o, w, f)
<1> DEFINE M == Measures(its, i, o)
<1>1. \A v \in M : v \in Int /\ v < STEP_NEED_INIT
  BY MeasuresAre
<1>2. its[k][i] - o \in M
  BY DEF Measures
<1> HIDE DEF M
<1>3. ASSUME w PROVE row.min = Min(M)
  <2>1. s.min = STEP_NEED_INIT \/ s.min \in M
    BY <1>3 DEF StatsOf, M
  <2>2. \A v \in M : s.min <= v
    BY <1>3 DEF StatsOf, M
  <2>3. s.min < STEP_NEED_INIT
    <3>1. PICK v \in M : v \in Int /\ v < STEP_NEED_INIT
      BY <1>1, <1>2
    <3>2. STEP_NEED_INIT \in Nat
      BY SlotsAre
    <3> QED
      BY <2>2, <3>1, <3>2
  <2>4. s.min \in M
    BY <2>1, <2>3, SlotsAre
  <2>5. s.min = Min(M)
    BY <1>1, <2>2, <2>4, ExtremumIs
  <2> QED
    BY <2>5
<1>4. row.max = Max(M \cup {0})
  <2>1. s.max = 0 \/ s.max \in M
    BY DEF StatsOf, M
  <2>2. s.max >= 0 /\ \A v \in M : v <= s.max
    BY DEF StatsOf, M
  <2>3. M \cup {0} \subseteq Int /\ s.max \in M \cup {0} /\ \A v \in M \cup {0} : v <= s.max
    BY <1>1, <2>1, <2>2
  <2>4. s.max = Max(M \cup {0})
    BY <2>3, ExtremumIs
  <2> QED
    BY <2>4
<1>5. ASSUME f, \A j \in DOMAIN its : i <= Len(its[j])
      PROVE  row.mean = Quot(Summed(its, i, o), Len(its))
  <2>1. \A j \in 1 .. Len(its) : i <= Len(its[j])
    BY <1>5
  <2>2. s.sum = Summed(its, i, o)
    BY <1>5, <2>1 DEF StatsOf
  <2> QED
    BY <2>2
<1>6. ASSUME w, NEW v \in M, M = {v} PROVE row.median = v
  BY <1>6 DEF StatsOf, M
<1> QED
  BY <1>3, <1>4, <1>5, <1>6 DEF RowOf, M

LEMMA PrintKeeps == ASSUME ProfInv, mm_profile_print PROVE ProfInv'
<1> USE DEF ProfInv
<1> DEFINE rec == [table |-> compute_requested_timings(update_diffs), iters |-> iters]
           n == Len(results)
<1>1. /\ stats' = update_diffs /\ results' = Append(results, rec)
      /\ UNCHANGED <<num_ts, next_ts, num_iter, toc_overhead, timestamps, labels,
                     profClock, iters, wasReset, labelled>>
  BY DEF mm_profile_print
<1>2. PICK S : results \in Seq(S)
  BY DEF ProfTypes
<1>3. rec.iters = iters /\ rec.table = compute_requested_timings(update_diffs)
  OBVIOUS
<1> HIDE DEF rec
<1>4. /\ results' \in Seq(S \cup {rec}) /\ n \in Nat /\ Len(results') = n + 1 /\ results' # <<>>
      /\ results'[n + 1] = rec /\ DOMAIN results' = 1 .. n + 1 /\ DOMAIN results = 1 .. n
      /\ \A k \in 1 .. n : results'[k] = results[k]
  <2>1. results \in Seq(S \cup {rec}) /\ rec \in S \cup {rec}
    BY <1>2
  <2> QED
    BY <1>1, <2>1
<1>5. ProfTypes'
  <2>1. \A i \in Slots : stats'[i].min \in Int /\ stats'[i].max \in Int /\ stats'[i].sum \in Int
    BY <1>1, CountedTypes
  <2>2. \E X : results' \in Seq(X)
    BY <1>4
  <2> QED
    BY <1>1, <2>1, <2>2 DEF ProfTypes
<1>6. Points'
  BY <1>1 DEF Points, Current, TimeAt
<1>7. StatsRight'
  <2> SUFFICES ASSUME NEW i \in Slots \ {0}
               PROVE  StatsOf(stats'[i], i, Earlier', iters', toc_overhead', wasReset', results' = <<>>)
    BY DEF StatsRight
  <2> DEFINE u == update_diffs[i]
             f == results = <<>>
             o == toc_overhead
  <2>1. StatsOf(u, i, iters, iters, o, wasReset, f)
    BY CountedRight
  <2>2. Measures(Earlier, i, o) \subseteq Measures(iters, i, o)
    <3>1. CASE num_iter = 0
      BY <3>1, IterationsSplit
    <3>2. CASE num_iter > 0
      <4>1. /\ Earlier \in Seq(Seq(Duration)) /\ Current \in Seq(Duration)
            /\ iters = Append(Earlier, Current)
        BY <3>2, IterationsSplit
      <4> QED
        BY <4>1, MeasuresOfOneMore
    <3> QED
      BY <3>1, <3>2 DEF ProfTypes
  <2> HIDE DEF u, f, o
  <2>3. StatsOf(u, i, Earlier, iters, o, wasReset, FALSE)
    BY <2>1, <2>2, FullOfFewer
  <2>4. stats'[i] = u /\ Earlier' = Earlier /\ iters' = iters /\ toc_overhead' = o
        /\ wasReset' = wasReset /\ (results' = <<>>) = FALSE
    BY <1>1, <1>4 DEF u, o, Earlier
  <2> QED
    BY <2>3, <2>4
<1>8. RowsRight'
  <2> SUFFICES ASSUME NEW k \in 1 .. n + 1, NEW i \in DOMAIN results'[k].table
               PROVE  RowOf(results'[k].table[i], results'[k].iters, i, toc_overhead, wasReset, k = 1)
    BY <1>1, <1>4 DEF RowsRight
  <2>1. CASE k \in 1 .. n
    <3>1. results'[k] = results[k] /\ k \in DOMAIN results
      BY <1>4, <2>1
    <3> QED
      BY <3>1 DEF RowsRight
  <2>2. CASE k = n + 1
    <3> DEFINE u == update_diffs[i]
               row == rec.table[i]
               f == results = <<>>
               o == toc_overhead
    <3>1. results'[k] = rec
      BY <1>4, <2>2
    <3>2. i \in 1 .. num_ts - 1
      BY <1>3, <3>1 DEF compute_requested_timings
    <3>3. /\ row.min = u.min /\ row.max = u.max /\ row.mean = Quot(u.sum, num_iter)
          /\ row.median = u.median.median /\ row.curr = get_diff_ts(i)
      BY <1>3, <3>2 DEF compute_requested_timings
    <3>4. num_ts \in Slots /\ num_ts \in Nat /\ o \in Nat
      BY SlotsAre DEF ProfTypes
    <3>5. i \in Slots \ {0} /\ i \in Nat \ {0}
      <4>1. i \in Nat /\ i # 0 /\ i <= NUM_TS_MAX - 1
        BY <3>2, <3>4, SlotsAre
      <4> QED
        BY <4>1, SlotsAre
    <3>6. StatsOf(u, i, iters, iters, o, wasReset, f)
      BY <3>5, CountedRight
    <3>7. u.min \in Int /\ u.max \in Int
      BY <3>5, CountedTypes
    <3>8. PICK j \in 1 .. Len(iters) : i <= Len(iters[j])
      BY <3>2 DEF Points
    <3>9. iters \in Seq(Seq(Duration)) /\ Len(iters) = num_iter
      BY DEF ProfTypes
    <3>c. ASSUME i <= Len(iters[Len(iters)]) PROVE row.curr = iters[Len(iters)][i] - o
      <4>1. num_iter > 0
        BY <3>8, <3>9
      <4>2. Len(Current) = next_ts - 1 /\ Current = iters[Len(iters)]
        BY <4>1 DEF Points, Current
      <4>3. i \in 1 .. next_ts - 1
        BY <3>2, <3>c, <4>2
      <4>4. Current[i] = TimeAt(i) - TimeAt(i - 1)
        BY <4>1, <4>3 DEF Points
      <4>5. get_diff_ts(i) = TimeAt(i) - TimeAt(i - 1) - o
        BY <3>5, DiffIs
      <4> QED
        BY <3>3, <4>2, <4>4, <4>5
    <3> HIDE DEF u, row, f, o
    <3>10. RowOf(row, iters, i, o, wasReset, f)
      BY <3>3, <3>4, <3>5, <3>6, <3>7, <3>8, <3>9, <3>c, RowIsRight
    <3>11. (k = 1) = f
      <4>1. results = <<>> <=> n = 0
        BY <1>2
      <4> QED
        BY <1>4, <2>2, <4>1 DEF f
    <3> QED
      BY <1>3, <3>1, <3>10, <3>11 DEF row, o
  <2> QED
    BY <1>4, <2>1, <2>2
<1>9. LabelsRight'
  BY <1>1, LabelsStay
<1> QED
  BY <1>5, <1>6, <1>7, <1>8, <1>9

LEMMA ResetKeeps ==
    ASSUME ProfInv, ~KeepsUnlabelled, NEW keep \in BOOLEAN, mm_profile_reset(keep) PROVE ProfInv'
<1> USE DEF ProfInv
<1>1. /\ next_ts' = 0 /\ num_ts' = 0 /\ num_iter' = 0
      /\ stats' = [i \in Slots |-> NoStats] /\ wasReset' = TRUE /\ toc_overhead' \in Overheads
      /\ iters' = <<>> /\ results' = <<>> /\ UNCHANGED <<timestamps, profClock>>
  BY DEF mm_profile_reset, reset_diffs
<1>2. toc_overhead' \in Nat
  BY <1>1, ProfileAssumption
<1>3. <<>> \in Seq(Seq(Duration)) /\ Len(<<>>) = 0
  OBVIOUS
<1>4. /\ NoStats.min = STEP_NEED_INIT /\ NoStats.max = 0 /\ NoStats.sum = 0 /\ STEP_NEED_INIT \in Int
      /\ NoStats.median.step = STEP_NEED_INIT
  BY SlotsAre DEF NoStats, median_estimator_init
<1>5. ProfTypes'
  <2>1. results' \in Seq({})
    BY <1>1
  <2>2. \A i \in Slots : stats'[i].min \in Int /\ stats'[i].max \in Int /\ stats'[i].sum \in Int
    BY <1>1, <1>4
  <2> QED
    BY <1>1, <1>2, <1>3, <2>1, <2>2, SlotsAre DEF ProfTypes
<1>6. Points'
  BY <1>1 DEF Points
<1>7. StatsRight'
  <2> SUFFICES ASSUME NEW i \in Slots \ {0}
               PROVE  StatsOf(stats'[i], i, Earlier', iters', toc_overhead', wasReset', results' = <<>>)
    BY DEF StatsRight
  <2>0. PICK o \in Nat : o = toc_overhead'
    BY <1>2
  <2>1. iters' = <<>> /\ Earlier' = <<>>
    BY <1>1 DEF Earlier
  <2>2. Summed(<<>>, i, o) = 0 /\ Measures(<<>>, i, o) = {}
    BY SlotsAre, SumOfNone, MeasuresOfNone
  <2>3. /\ stats'[i].min = STEP_NEED_INIT /\ stats'[i].max = 0 /\ stats'[i].sum = 0
        /\ stats'[i].median.step = STEP_NEED_INIT
    BY <1>1, <1>4
  <2>4. StatsOf(stats'[i], i, <<>>, <<>>, o, TRUE, TRUE)
    BY <2>2, <2>3 DEF StatsOf
  <2> QED
    BY <1>1, <2>0, <2>1, <2>4
<1>8. RowsRight'
  BY <1>1 DEF RowsRight
<1>9. LabelsRight'
  <2>1. CASE keep
    <3>1. labels \in [Slots -> Labels \cup {"null", ""}] /\ \A i \in {1, 2} : labels[i] # "null"
      BY <2>1 DEF mm_profile_reset, LabelsRight
    <3>2. labels' = labels /\ labelled' = labelled
      BY <2>1, <3>1 DEF mm_profile_reset, Estimated
    <3> QED
      BY <3>2, LabelsStay
  <2>2. CASE ~keep
    <3>1. labels' = [NoLabels EXCEPT ![0] = ""] /\ labelled' = NoLabels
      BY <2>2 DEF mm_profile_reset
    <3> QED
      BY <3>1, SlotsAre DEF LabelsRight, NoLabels
  <2> QED
    BY <2>1, <2>2
<1> QED
  BY <1>5, <1>6, <1>7, <1>8, <1>9

LEMMA TimesTold == ProfInv => ProfileTellsTimes
<1> SUFFICES ASSUME ProfInv PROVE ProfileTellsTimes
  OBVIOUS
<1>1. ASSUME NEW k \in DOMAIN results, NEW i \in DOMAIN results[k].table
      PROVE  /\ i <= Len(results[k].iters[Len(results[k].iters)]) =>
                    results[k].table[i].curr =
                        results[k].iters[Len(results[k].iters)][i] - toc_overhead
             /\ wasReset =>
                    /\ results[k].table[i].min = Min(MeasuredAt(results[k].iters, i))
                    /\ \A v \in MeasuredAt(results[k].iters, i) :
                            MeasuredAt(results[k].iters, i) = {v} =>
                                results[k].table[i].median = v
             /\ results[k].table[i].max = Max(MeasuredAt(results[k].iters, i) \cup {0})
             /\ (k = 1 /\ \A j \in DOMAIN results[k].iters : i <= Len(results[k].iters[j])) =>
                    results[k].table[i].mean =
                        Quot(SumAt(results[k].iters, i), Len(results[k].iters))
  <2>1. RowOf(results[k].table[i], results[k].iters, i, toc_overhead, wasReset, k = 1)
    BY DEF ProfInv, RowsRight
  <2> QED
    BY <2>1, WithOverhead DEF RowOf
<1>2. \A i \in Slots : labelled[i] # "null" => labels[i] = labelled[i]
  BY DEF ProfInv, LabelsRight
<1> QED
  BY <1>1, <1>2 DEF ProfileTellsTimes

(***************************************************************************)
(* For any number of points, clock, overheads and labels, the statistics   *)
(* that are printed are of the times measured since the reset, the current *)
(* value is of the current iteration for the points that it has reached,   *)
(* and the labels are the first ones given (mm_tic(), mm_toc(),            *)
(* mm_toc_label(), mm_profile_print(), mm_profile_reset()), in programs    *)
(* that do not keep labels over a reset before there are any.              *)
(***************************************************************************)
THEOREM TimesPrinted ==
    ASSUME ~KeepsUnlabelled PROVE ProfSpec => []ProfileTellsTimes
<1>1. ProfInv /\ [ProfNext]_profVars => ProfInv'
  <2> SUFFICES ASSUME ProfInv, [ProfNext]_profVars PROVE ProfInv'
    OBVIOUS
  <2>1. CASE mm_tic
    BY <2>1, TicKeeps
  <2>2. CASE mm_toc
    <3>1. Toc /\ UNCHANGED <<labels, labelled>>
      BY <2>2 DEF mm_toc
    <3> QED
      BY <3>1, TocKeepsPoints, LabelsStay DEF ProfInv
  <2>3. CASE mm_profile_print
    BY <2>3, PrintKeeps
  <2>4. ASSUME NEW l \in Labels, mm_toc_label(l) PROVE ProfInv'
    <3>1. Toc
      BY <2>4 DEF mm_toc_label
    <3> QED
      BY <2>4, <3>1, TocKeepsPoints, TocLabels DEF ProfInv
  <2>5. ASSUME NEW keep \in BOOLEAN, mm_profile_reset(keep) PROVE ProfInv'
    BY <2>5, ResetKeeps
  <2>6. CASE UNCHANGED profVars
    BY <2>6 DEF profVars, ProfInv, ProfTypes, Points, Current, TimeAt, StatsRight, Earlier,
             RowsRight, LabelsRight
  <2> QED
    BY <2>1, <2>2, <2>3, <2>4, <2>5, <2>6 DEF ProfNext
<1> QED
  BY <1>1, ProfStarts, TimesTold, PTL DEF ProfSpec
=============================================================================
