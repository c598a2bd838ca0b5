------------------------------ MODULE Mappings ------------------------------
(***************************************************************************)
(* mm_mapfile(), mm_unmap() and mm_anon_shm() on POSIX                     *)
(* (src/shm-posix.c). munmap() wants a length that mm_unmap() is not       *)
(* given, so the library keeps a list of what it has mapped.               *)
(*                                                                         *)
(* The address space and the names of shared memory are external: the      *)
(* kernel puts a mapping at any free place and reuses a place as soon as   *)
(* it is free. A step is one system call or one critical section of the    *)
(* list's mutex; the mutex of mm_anon_shm() is held over two.              *)
(***************************************************************************)
EXTENDS Integers, Sequences, FiniteSets, SequencesExt

CONSTANTS
    MapThread,      \* threads that map, unmap and make segments
    Pages,          \* bound: size of the address space
    MapLengths,     \* lengths asked for
    MIN_NUM_ENTRIES,
    MapCalls,       \* bound: calls of one thread
    MunmapFails     \* may munmap() of a whole mapping fail

ASSUME MappingsAssumption ==
    /\ Pages \in Nat /\ MapLengths \subseteq 1 .. Pages
    /\ MIN_NUM_ENTRIES \in Nat \ {0} /\ MunmapFails \in BOOLEAN
    /\ "nobody" \notin MapThread

VARIABLES
    mapAt,          \* where the call of a thread stands
    mapReg,         \* the mapping it works on: ptr and len
    mapDone,        \* calls it has begun
    mapped,         \* mappings of the process
    mapList,        \* file_mapping_list: entries and num_max_entries
    mapMine,        \* history: mappings given to the program and not given back
    shmName,        \* is there a segment under the name of this process
    shmMtx,         \* who holds the mutex of mm_anon_shm(), or "nobody"
    shmLeft         \* history: the name was left by a process that died

mapVars == <<mapAt, mapReg, mapDone, mapped, mapList, mapMine, shmName,
             shmMtx, shmLeft>>

Region(ptr, len) == [ptr |-> ptr, len |-> len]
NoRegion == Region(0, 0)
PagesOf(r) == r.ptr .. r.ptr + r.len - 1
FreePages == 1 .. Pages \ UNION {PagesOf(r) : r \in mapped}

MapInit ==
    /\ mapAt = [t \in MapThread |-> "out"]
    /\ mapReg = [t \in MapThread |-> NoRegion]
    /\ mapDone = [t \in MapThread |-> 0]
    /\ mapped = {}
    /\ mapList = [entries |-> <<>>, num_max |-> 0]
    /\ mapMine = {}
    /\ shmLeft \in BOOLEAN
    /\ shmName = shmLeft
    /\ shmMtx = "nobody"

MapGoto(t, place) == mapAt' = [mapAt EXCEPT ![t] = place]
MapCall(t) ==
    /\ mapAt[t] = "out" /\ mapDone[t] < MapCalls
    /\ mapDone' = [mapDone EXCEPT ![t] = @ + 1]

-----------------------------------------------------------------------------
mapping_list_add_entry(list, r) ==
    [entries |-> Append(list.entries, r),
     num_max |-> IF list.num_max > Len(list.entries) THEN list.num_max
                 ELSE IF list.num_max < MIN_NUM_ENTRIES THEN MIN_NUM_ENTRIES
                 ELSE 2 * list.num_max]

Indices(list, ptr) == {i \in DOMAIN list.entries : list.entries[i].ptr = ptr}
FirstIndex(list, ptr) ==
    CHOOSE i \in Indices(list, ptr) : \A j \in Indices(list, ptr) : i <= j

\* Mutant: the last entry goes instead of the one that was found.
mapping_list_remove_entry_Last(list, ptr) ==
    [list EXCEPT !.entries = Front(@)]

mapping_list_remove_entry(list, ptr) ==
    [list EXCEPT !.entries = RemoveAt(@, FirstIndex(list, ptr))]

\* mmap() of mm_mapfile() succeeds, or the call returns NULL.
Mmap(t) ==
    /\ MapCall(t)
    /\ \E len \in MapLengths, ptr \in 1 .. Pages :
        /\ PagesOf(Region(ptr, len)) \subseteq FreePages
        /\ mapped' = mapped \cup {Region(ptr, len)}
        /\ mapReg' = [mapReg EXCEPT ![t] = Region(ptr, len)]
    /\ MapGoto(t, "add")
    /\ UNCHANGED <<mapList, mapMine, shmName, shmMtx, shmLeft>>

mapblock_add(t) ==
    /\ mapAt[t] = "add"
    /\ MapGoto(t, "out")
    /\ mapList' = mapping_list_add_entry(mapList, mapReg[t])
    /\ mapMine' = mapMine \cup {mapReg[t]}
    /\ mapReg' = [mapReg EXCEPT ![t] = NoRegion]
    /\ UNCHANGED <<mapDone, mapped, shmName, shmMtx, shmLeft>>

\* realloc() fails: the array stays, and the mapping is undone.
AddFails(t) ==
    /\ mapAt[t] = "add" /\ mapList.num_max <= Len(mapList.entries)
    /\ MapGoto(t, "munmap")
    /\ UNCHANGED <<mapReg, mapDone, mapped, mapList, mapMine, shmName, shmMtx,
                   shmLeft>>

\* mm_unmap() of a mapping the program has and gives back, and of an address
\* that is none, which fails with EFAULT.
mapblock_remove(t) ==
    /\ MapCall(t)
    /\ \E r \in mapMine \cup {NoRegion} :
        IF Indices(mapList, r.ptr) = {}
        THEN UNCHANGED <<mapAt, mapReg, mapList, mapMine>>
        ELSE /\ mapReg' = [mapReg EXCEPT ![t] =
                            mapList.entries[FirstIndex(mapList, r.ptr)]]
             /\ mapList' = mapping_list_remove_entry(mapList, r.ptr)
             /\ mapMine' = mapMine \ {r}
             /\ MapGoto(t, "munmap")
    /\ UNCHANGED <<mapped, shmName, shmMtx, shmLeft>>

\* What the kernel unmaps are the pages it is told, whatever was mapped there.
Munmap(t) ==
    /\ mapAt[t] = "munmap"
    /\ mapped' \in {{r \in mapped : PagesOf(r) \cap PagesOf(mapReg[t]) = {}}}
                   \cup (IF MunmapFails THEN {mapped} ELSE {})
    /\ mapReg' = [mapReg EXCEPT ![t] = NoRegion]
    /\ MapGoto(t, "out")
    /\ UNCHANGED <<mapDone, mapList, mapMine, shmName, shmMtx, shmLeft>>

-----------------------------------------------------------------------------
\* mm_anon_shm(): the name is made of the process id.
AnonShmOpen(t) ==
    /\ MapCall(t) /\ shmMtx = "nobody"
    /\ shmMtx' = t
    /\ IF shmName THEN MapGoto(t, "failed") /\ UNCHANGED shmName
       ELSE shmName' = TRUE /\ MapGoto(t, "unlink")
    /\ UNCHANGED <<mapReg, mapped, mapList, mapMine, shmLeft>>

AnonShmUnlink(t) ==
    /\ mapAt[t] \in {"unlink", "failed"}
    /\ shmName' = IF mapAt[t] = "unlink" THEN FALSE ELSE shmName
    /\ shmMtx' = "nobody"
    /\ MapGoto(t, "out")
    /\ UNCHANGED <<mapReg, mapDone, mapped, mapList, mapMine, shmLeft>>

MapNext ==
    \E t \in MapThread :
        \/ Mmap(t) \/ mapblock_add(t) \/ AddFails(t) \/ mapblock_remove(t)
        \/ Munmap(t) \/ AnonShmOpen(t) \/ AnonShmUnlink(t)

MapSpec == MapInit /\ [][MapNext]_mapVars
-----------------------------------------------------------------------------
(***************************************************************************)
(* The list and the address space tell the same story while threads map    *)
(* and unmap at the same time and places are used again: a mapping that    *)
(* the program has is whole and has one entry with its length; no other    *)
(* is left but those of calls under way (mm_mapfile(), mm_unmap()). And    *)
(* mm_anon_shm() fails for its name only if a process that died left it.   *)
(***************************************************************************)
MappingsExact ==
    /\ mapMine \subseteq mapped
    /\ Range(mapList.entries) = mapMine
    /\ IsInjective(mapList.entries)
    /\ Len(mapList.entries) <= mapList.num_max
    /\ mapped = mapMine \cup ({mapReg[t] : t \in MapThread} \ {NoRegion})
    /\ \A t \in MapThread : mapAt[t] = "failed" => shmLeft
=============================================================================
