---------------------------- MODULE RefereeLock ----------------------------
(***************************************************************************)
(* One lock as the lock referee server knows it (struct lock and the lock_ *)
(* functions of src/lock-referee-server.c).                                *)
(*                                                                         *)
(* nwaiter counts the WAIT requests received minus the wake-ups requested: *)
(* it is negative when threads have been woken in advance. waiters_queue   *)
(* is the FIFO of sleeping clients, each with the value it waits for.      *)
(* The linked queue of the code is the sequence it represents.             *)
(***************************************************************************)
EXTENDS Integers, Sequences, FiniteSets

\* lock_init(): the lock as get_lock() creates it. A lock absent from the
\* server's array behaves exactly like one in this state.
lock_init == [nwaiter |-> 0, max_wakeup_val |-> 0, waiters_queue |-> <<>>]

Waiter(tc, wakeup_val) == [tc |-> tc, wakeup_val |-> wakeup_val]

\* The clients asleep in the queue.
Sleepers(lk) == {lk.waiters_queue[i].tc : i \in DOMAIN lk.waiters_queue}

\* Mutant of WokenInAdvance: the last banked wake-up cannot be claimed.
WokenInAdvance_OffByOne(lk, wakeup_val) ==
    /\ lk.nwaiter + 1 < 0
    /\ lk.max_wakeup_val >= wakeup_val

(***************************************************************************)
(* lock_add_waiter(): woken in advance, or appended to the queue.          *)
(***************************************************************************)
WokenInAdvance(lk, wakeup_val) ==
    /\ lk.nwaiter + 1 <= 0
    /\ lk.max_wakeup_val >= wakeup_val

lock_add_waiter(lk, tc, wakeup_val) ==
    [nwaiter        |-> lk.nwaiter + 1,
     max_wakeup_val |-> lk.max_wakeup_val,
     waiters_queue  |-> IF WokenInAdvance(lk, wakeup_val)
                        THEN lk.waiters_queue
                        ELSE Append(lk.waiters_queue, Waiter(tc, wakeup_val))]

(***************************************************************************)
(* lock_wake_waiters(): the first num clients of the queue whose value     *)
(* does not exceed val are woken; the others keep their order.             *)
(***************************************************************************)
Eligible(q, val) == {i \in DOMAIN q : q[i].wakeup_val <= val}

\* The place of index i among the indices of a set.
Rank(I, i) == Cardinality({j \in I : j <= i})

\* Mutant of ToWake: one client too few.
ToWake_OffByOne(q, num, val) ==
    {i \in Eligible(q, val) : Rank(Eligible(q, val), i) < num}

ToWake(q, num, val) ==
    {i \in Eligible(q, val) : Rank(Eligible(q, val), i) <= num}

WokenBy(lk, num, val) ==
    {lk.waiters_queue[i].tc : i \in ToWake(lk.waiters_queue, num, val)}

\* The queue once the nodes at the indices of a set are unlinked. (What
\* SelectSeq() gives, in a form the provers can reason about.)
Unlink(q, gone) ==
    LET stay == DOMAIN q \ gone
    IN  [k \in 1 .. Cardinality(stay) |-> q[CHOOSE i \in stay : Rank(stay, i) = k]]

lock_wake_waiters(lk, num, val) ==
    [nwaiter        |-> lk.nwaiter - num,
     max_wakeup_val |-> IF lk.max_wakeup_val < val
                        THEN val ELSE lk.max_wakeup_val,
     waiters_queue  |-> Unlink(lk.waiters_queue,
                               ToWake(lk.waiters_queue, num, val))]

\* lock_drop_waiter(): a client leaves the queue without being woken.
lock_drop_waiter(lk, tc) ==
    [lk EXCEPT !.nwaiter = @ - 1,
               !.waiters_queue = Unlink(@, {i \in DOMAIN @ : @[i].tc = tc})]

(***************************************************************************)
(* lock_is_unused(), for a lock with no cleanup job: the garbage collector *)
(* drops the lock, which resets it to lock_init.                           *)
(***************************************************************************)
lock_is_unused(lk) == lk.nwaiter = 0 /\ lk.waiters_queue = <<>>
=============================================================================
