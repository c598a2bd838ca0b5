--------------------------- MODULE AbstractMutex ---------------------------
(***************************************************************************)
(* What mm_thr_mutex_lock(), mm_thr_mutex_trylock() and                    *)
(* mm_thr_mutex_unlock() promise when no thread dies (documentation and    *)
(* declarations in src/thread-posix.c and src/mmthread.h, shared by the    *)
(* two platforms): lock returns with the mutex, trylock returns with or    *)
(* without it, and at most one thread has it.                              *)
(***************************************************************************)
CONSTANT Thread

VARIABLE status     \* where each thread stands with respect to the mutex

Status == {"out", "locking", "trying", "in"}

AInit == status = [t \in Thread |-> "out"]

Move(t, from, to) ==
    /\ status[t] = from
    /\ status' = [status EXCEPT ![t] = to]

CallLock(t)    == Move(t, "out", "locking")
CallTrylock(t) == Move(t, "out", "trying")

\* The mutex is taken, in one indivisible step, when nobody has it.
Enter(t) ==
    /\ \A s \in Thread : status[s] # "in"
    /\ Move(t, "locking", "in") \/ Move(t, "trying", "in")

\* Only trylock gives up.
Busy(t)   == Move(t, "trying", "out")
Unlock(t) == Move(t, "in", "out")

ANext == \E t \in Thread :
    CallLock(t) \/ CallTrylock(t) \/ Enter(t) \/ Busy(t) \/ Unlock(t)

ASpec == AInit /\ [][ANext]_status
=============================================================================
