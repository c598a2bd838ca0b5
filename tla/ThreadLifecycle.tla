-------------------------- MODULE ThreadLifecycle --------------------------
(***************************************************************************)
(* Creation, termination and reclaim of threads on Windows:                *)
(* mm_thr_create(), mm_thr_join(), mm_thr_detach(), mm_thr_self() and the  *)
(* exit hook thread_local_data_on_exit() of src/thread-win32.c.            *)
(*                                                                         *)
(* A struct mm_thread is freed by whoever is last to need it: the joiner,  *)
(* the thread itself if it was detached before it stopped, or the caller   *)
(* of detach if it had stopped before. The two bits of its state word,     *)
(* changed by atomic additions, decide. Each created thread has one client *)
(* that creates it and then either joins or detaches it, once, as the      *)
(* documentation demands. Detaching by the thread itself is the same step, *)
(* provided mm_thr_create() has returned. A thread that mmlib did not      *)
(* create gets its structure from mm_thr_self().                           *)
(***************************************************************************)
EXTENDS Integers, FiniteSets

CONSTANTS
    Worker,         \* threads created by mm_thr_create()
    External        \* threads created by other means

ASSUME LifecycleAssumption == Worker \cap External = {}

VARIABLES
    tpc,            \* what the thread does next
    cpc,            \* what the client of the thread does next
    mem,            \* the struct mm_thread: none, live or freed
    state,          \* thread->state
    hnd,            \* thread->hnd is set
    handle,         \* the thread object's handle: none, open or closed
    retval,         \* thread->retval is set
    joined,         \* what join gave to its caller
    misuse          \* history: a freed struct was used, or freed again

lifeVars == <<tpc, cpc, mem, state, hnd, handle, retval, joined, misuse>>

Life == Worker \cup External

STATE_STOPPED  == 1
STATE_DETACHED == 2
IsStopped(s)  == s % 2 = 1
IsDetached(s) == (s \div 2) % 2 = 1

TPC == {"unborn", "start", "routine", "store", "exit", "exit_free", "gone",
        "ended"}
CPC == {"none", "begin", "store_hnd", "created", "failed", "join_wait",
        "join_read", "join_free", "joined", "detach_free", "detached"}

LifeInit ==
    /\ tpc = [t \in Life |-> IF t \in Worker THEN "unborn" ELSE "routine"]
    /\ cpc = [t \in Life |-> "none"]
    /\ mem = [t \in Life |-> "none"]
    /\ state = [t \in Life |-> 0]
    /\ hnd = [t \in Life |-> FALSE]
    /\ handle = [t \in Life |-> "none"]
    /\ retval = [t \in Life |-> FALSE]
    /\ joined = [t \in Life |-> "nothing"]
    /\ misuse = FALSE

Goes(t, label) == tpc' = [tpc EXCEPT ![t] = label]
Client(t, label) == cpc' = [cpc EXCEPT ![t] = label]

\* Every access to the structure is checked.
Use(t) == misuse' = (misuse \/ mem[t] # "live")

\* destroy_mm_thread_data(): the handle is closed if the structure has one.
destroy_mm_thread_data(t) ==
    /\ Use(t)
    /\ mem' = [mem EXCEPT ![t] = "freed"]
    /\ handle' = [handle EXCEPT ![t] = IF hnd[t] THEN "closed" ELSE @]

-----------------------------------------------------------------------------
(***************************************************************************)
(* mm_thr_create(). The new thread runs as soon as _beginthreadex() has    *)
(* made it, before its handle is stored.                                   *)
(***************************************************************************)
Create(t) ==
    /\ t \in Worker
    /\ cpc[t] = "none"
    /\ \/ /\ mem' = [mem EXCEPT ![t] = "live"]
          /\ Client(t, "begin")
       \/ /\ Client(t, "failed")                        \* out of memory
          /\ UNCHANGED mem
    /\ UNCHANGED <<tpc, state, hnd, handle, retval, joined, misuse>>

BeginThread(t) ==
    /\ cpc[t] = "begin"
    /\ handle' = [handle EXCEPT ![t] = "open"]
    /\ Goes(t, "start")
    /\ Client(t, "store_hnd")
    /\ UNCHANGED <<mem, state, hnd, retval, joined, misuse>>

BeginThreadFails(t) ==
    /\ cpc[t] = "begin"
    /\ destroy_mm_thread_data(t)
    /\ Client(t, "failed")
    /\ UNCHANGED <<tpc, state, hnd, retval, joined>>

StoreHandle(t) ==
    /\ cpc[t] = "store_hnd"
    /\ Use(t)
    /\ hnd' = [hnd EXCEPT ![t] = TRUE]
    /\ Client(t, "created")
    /\ UNCHANGED <<tpc, mem, state, handle, retval, joined>>

-----------------------------------------------------------------------------
(***************************************************************************)
(* The thread: thread_proc_wrapper() and the exit hook. The handle is      *)
(* signalled once the hook has returned.                                   *)
(***************************************************************************)
StartRoutine(t) ==
    /\ tpc[t] = "start"
    /\ Use(t)
    /\ Goes(t, "routine")
    /\ UNCHANGED <<cpc, mem, state, hnd, handle, retval, joined>>

\* mm_thr_self() in a thread that has no structure yet: the structure is born
\* detached and without handle. The allocation may fail.
Self(t) ==
    /\ t \in External
    /\ tpc[t] = "routine"
    /\ mem[t] = "none"
    /\ mem' = [mem EXCEPT ![t] = "live"]
    /\ state' = [state EXCEPT ![t] = STATE_DETACHED]
    /\ UNCHANGED <<tpc, cpc, hnd, handle, retval, joined, misuse>>

\* The routine of a created thread returns and the wrapper stores its result.
ReturnRoutine(t) ==
    /\ tpc[t] = "routine"
    /\ Goes(t, IF t \in Worker THEN "store" ELSE "exit")
    /\ UNCHANGED <<cpc, mem, state, hnd, handle, retval, joined, misuse>>

StoreRetval(t) ==
    /\ tpc[t] = "store"
    /\ Use(t)
    /\ retval' = [retval EXCEPT ![t] = TRUE]
    /\ Goes(t, "exit")
    /\ UNCHANGED <<cpc, mem, state, hnd, handle, joined>>

\* thread_local_data_on_exit(), for a thread with and without a structure.
ExitHook(t) ==
    /\ tpc[t] = "exit"
    /\ \/ /\ mem[t] = "none"
          /\ Goes(t, "gone")
          /\ UNCHANGED <<state, misuse>>
       \/ /\ mem[t] # "none"
          /\ Use(t)
          /\ state' = [state EXCEPT ![t] = @ + STATE_STOPPED]
          /\ Goes(t, IF IsDetached(state[t]) THEN "exit_free" ELSE "gone")
    /\ UNCHANGED <<cpc, mem, hnd, handle, retval, joined>>

ExitFree(t) ==
    /\ tpc[t] = "exit_free"
    /\ destroy_mm_thread_data(t)
    /\ Goes(t, "gone")
    /\ UNCHANGED <<cpc, state, hnd, retval, joined>>

Ended(t) ==
    /\ tpc[t] = "gone"
    /\ Goes(t, "ended")
    /\ UNCHANGED <<cpc, mem, state, hnd, handle, retval, joined, misuse>>

-----------------------------------------------------------------------------
(***************************************************************************)
(* The client: mm_thr_join() or mm_thr_detach().                           *)
(***************************************************************************)
CallJoin(t) ==
    /\ cpc[t] = "created"
    /\ Use(t)
    /\ ~IsDetached(state[t])
    /\ Client(t, "join_wait")
    /\ UNCHANGED <<tpc, mem, state, hnd, handle, retval, joined>>

\* Mutant: join does not wait for the thread.
JoinWait_NoWait(t) ==
    /\ cpc[t] = "join_wait"
    /\ Client(t, "join_read")
    /\ UNCHANGED <<tpc, mem, state, hnd, handle, retval, joined, misuse>>

JoinWait(t) ==
    /\ cpc[t] = "join_wait"
    /\ tpc[t] = "ended"
    /\ Client(t, "join_read")
    /\ UNCHANGED <<tpc, mem, state, hnd, handle, retval, joined, misuse>>

JoinRead(t) ==
    /\ cpc[t] = "join_read"
    /\ Use(t)
    /\ joined' = [joined EXCEPT ![t] = IF retval[t] THEN "result" ELSE "garbage"]
    /\ Client(t, "join_free")
    /\ UNCHANGED <<tpc, mem, state, hnd, handle, retval>>

JoinFree(t) ==
    /\ cpc[t] = "join_free"
    /\ destroy_mm_thread_data(t)
    /\ Client(t, "joined")
    /\ UNCHANGED <<tpc, state, hnd, retval, joined>>

\* Mutant: detach frees the structure of a thread that still runs.
Detach_FreesAlways(t) ==
    /\ cpc[t] = "created"
    /\ Use(t)
    /\ state' = [state EXCEPT ![t] = @ + STATE_DETACHED]
    /\ Client(t, "detach_free")
    /\ UNCHANGED <<tpc, mem, hnd, handle, retval, joined>>

\* Mutant: detach leaves the structure of a thread that has already stopped.
Detach_NeverFrees(t) ==
    /\ cpc[t] = "created"
    /\ Use(t)
    /\ state' = [state EXCEPT ![t] = @ + STATE_DETACHED]
    /\ Client(t, "detached")
    /\ UNCHANGED <<tpc, mem, hnd, handle, retval, joined>>

Detach(t) ==
    /\ cpc[t] = "created"
    /\ Use(t)
    /\ state' = [state EXCEPT ![t] = @ + STATE_DETACHED]
    /\ Client(t, IF IsStopped(state[t]) /\ ~IsDetached(state[t])
                 THEN "detach_free" ELSE "detached")
    /\ UNCHANGED <<tpc, mem, hnd, handle, retval, joined>>

DetachFree(t) ==
    /\ cpc[t] = "detach_free"
    /\ destroy_mm_thread_data(t)
    /\ Client(t, "detached")
    /\ UNCHANGED <<tpc, state, hnd, retval, joined>>

ClientStep(t) ==
    \/ Create(t) \/ BeginThread(t) \/ BeginThreadFails(t) \/ StoreHandle(t)
    \/ CallJoin(t) \/ JoinWait(t) \/ JoinRead(t) \/ JoinFree(t)
    \/ Detach(t) \/ DetachFree(t)

ExitStep(t) ==
    StoreRetval(t) \/ ExitHook(t) \/ ExitFree(t) \/ Ended(t)
-----------------------------------------------------------------------------
(***************************************************************************)
(* Properties                                                              *)
(***************************************************************************)

\* Every variable has its type; the state word never holds more than its two
\* bits, so no addition carries.
LifeTypeOK ==
    /\ tpc \in [Life -> TPC]
    /\ cpc \in [Life -> CPC]
    /\ mem \in [Life -> {"none", "live", "freed"}]
    /\ state \in [Life -> 0 .. 3]
    /\ hnd \in [Life -> BOOLEAN]
    /\ handle \in [Life -> {"none", "open", "closed"}]
    /\ retval \in [Life -> BOOLEAN]
    /\ joined \in [Life -> {"nothing", "result", "garbage"}]

\* The structure of a thread is never used after it was freed, nor freed twice,
\* whichever of the thread and its client is the last one to need it.
NoUseAfterFree == ~misuse

\* Once a thread has ended and its client has joined or detached it, its
\* structure is freed and its handle closed: nothing leaks and nobody is left
\* who could free it.
ResourcesReclaimed ==
    \A t \in Life :
        (tpc[t] = "ended" /\ cpc[t] \in {"none", "joined", "detached"}) =>
            mem[t] # "live" /\ handle[t] # "open"

\* mm_thr_join() gives the value the routine of the thread has returned.
JoinGivesResult ==
    \A t \in Worker : cpc[t] \in {"join_free", "joined"} => joined[t] = "result"

(***************************************************************************)
(* The inductive invariant: what the places of a thread and of its client  *)
(* say about the state word, the structure and the handle.                 *)
(***************************************************************************)
Started(t) == cpc[t] \notin {"none", "begin", "failed"}
Stopped(t) == tpc[t] \in {"exit_free", "gone", "ended"}
WasDetached(t) == cpc[t] \in {"detach_free", "detached"}
Bit(set, mask) == IF set THEN mask ELSE 0

\* The state word tells who is past its addition to it, and who finds the bit
\* of the other is the one who frees: the thread only once it is detached, its
\* client only once the thread has stopped or, for join, has ended.
StateTells(t) ==
    /\ tpc[t] = "unborn" <=> ~Started(t)
    /\ state[t] = Bit(Stopped(t), STATE_STOPPED) + Bit(WasDetached(t), STATE_DETACHED)
    /\ tpc[t] = "exit_free" => cpc[t] = "detached"
    /\ cpc[t] = "detach_free" => tpc[t] \in {"gone", "ended"}
    /\ cpc[t] \in {"join_read", "join_free", "joined"} => tpc[t] = "ended"

\* The structure lives from its creation to the one release.
Released(t) ==
    cpc[t] = "joined" \/ (cpc[t] = "detached" /\ tpc[t] \in {"gone", "ended"})
StructLives(t) ==
    /\ cpc[t] = "none" => mem[t] = "none"
    /\ cpc[t] = "begin" => mem[t] = "live"
    /\ cpc[t] = "failed" => mem[t] # "live"
    /\ Started(t) => mem[t] = IF Released(t) THEN "freed" ELSE "live"

\* The handle is closed with the structure, which knows it by then.
HandleFollows(t) ==
    /\ hnd[t] <=> (Started(t) /\ cpc[t] # "store_hnd")
    /\ handle[t] = IF ~Started(t) THEN "none"
                   ELSE IF Released(t) THEN "closed" ELSE "open"

ResultFollows(t) ==
    /\ Stopped(t) \/ tpc[t] = "exit" => retval[t]
    /\ cpc[t] \in {"join_free", "joined"} => joined[t] = "result"

\* A thread of other origin has no client and no handle, and is born detached.
ExternalInv(t) ==
    /\ cpc[t] = "none" /\ ~hnd[t] /\ handle[t] = "none"
    /\ tpc[t] \in {"routine", "exit", "exit_free", "gone", "ended"}
    /\ tpc[t] \in {"routine", "exit"} =>
          \/ mem[t] = "none" /\ state[t] = 0
          \/ mem[t] = "live" /\ state[t] = STATE_DETACHED
    /\ tpc[t] = "exit_free" => mem[t] = "live"
    /\ tpc[t] \in {"gone", "ended"} => mem[t] # "live"

WorkerInv(t) ==
    StateTells(t) /\ StructLives(t) /\ HandleFollows(t) /\ ResultFollows(t)

\* The state word, the structure, the handle and the result of every thread are
\* at each moment what the progress of the thread and of its client implies.
LifeInv ==
    /\ ~misuse
    /\ \A t \in Worker : WorkerInv(t)
    /\ \A t \in External : ExternalInv(t)
=============================================================================
