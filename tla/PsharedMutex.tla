---------------------------- MODULE PsharedMutex ----------------------------
(***************************************************************************)
(* The process shared mutex of mmlib on Windows: pshared_mtx_lock(),       *)
(* pshared_mtx_trylock(), pshared_mtx_unlock() and                         *)
(* pshared_mtx_consistent() of src/thread-win32.c, the wait and wake       *)
(* transactions of src/pshared-lock.c, and the lock of the mutex in the    *)
(* lock referee server (src/lock-referee-server.c).                        *)
(*                                                                         *)
(* Every step of a thread is one access to memory that another thread or   *)
(* the server can see: an atomic operation on the lock word, a store into  *)
(* the robust data the thread shares with the server, or half of a pipe    *)
(* transaction. The server is single threaded: one step is one completion  *)
(* callback, or one garbage collection at the end of a turn of its loop.   *)
(* Thread deaths are added by RobustMutex.                                 *)
(***************************************************************************)
EXTENDS LockVal, RefereeLock

CONSTANTS
    Thread,         \* ids of the threads using the mutex
    Locker,         \* the threads that call lock; all of them call trylock
    MaxOps          \* bound on the number of lock and trylock calls

ASSUME ThreadAssumption ==
    /\ IsFiniteSet(Thread)
    /\ Thread \subseteq 1 .. (OwnerRadix - 2)
    /\ Locker \subseteq Thread
    /\ MaxOps \in Nat

VARIABLES
    lock,           \* mutex->lock
    pc,             \* what a thread does next
    oldval,         \* local oldval of lock, trylock and unlock
    notified,       \* local is_waiting_notified of pshared_mtx_lock()
    unrecoverable,  \* local unrecoverable of pshared_mtx_unlock()
    retval,         \* result of the lock or trylock call in progress,
                    \* or of the one that took the mutex
    ops,            \* number of lock and trylock calls so far
    attempt,        \* robust_data->attempt_key # 0
    is_waiter,      \* robust_data->is_waiter
    num_locked,     \* robust_data->num_locked
    lk,             \* the server's struct lock
    req,            \* request in the pipe of a thread, not read yet
    resp            \* responses in the pipe of a thread, not read yet

threadVars == <<pc, oldval, notified, unrecoverable, retval, ops>>
robustVars == <<attempt, is_waiter, num_locked>>
refereeVars == <<lk, req, resp>>
vars == <<lock, threadVars, robustVars, refereeVars>>

-----------------------------------------------------------------------------
PC == {"idle",                       \* not in a call, mutex not held
       "try", "reg", "reg_flag", "reg_rel", "wait", "waiting", "reload",
       "try1", "try2",               \* the two attempts of trylock
       "fin_locked", "fin_waiter", "fin_attempt",  \* finish_mtx_lock()
       "held",                       \* lock returned 0 or EOWNERDEAD
       "unl_start", "unl_sub", "wake", "waking", "unl_fin",
       "unl_end"}

Retval == {"none", "0", "EBUSY", "EOWNERDEAD", "ENOTRECOVERABLE"}

NoReq == [opcode |-> "none", num_wakeup |-> 0]
WaitReq == [opcode |-> "WAIT", num_wakeup |-> 0]
WakeReq(n) == [opcode |-> "WAKE", num_wakeup |-> n]

\* Threads whose registration is counted in the nwaiter field of the lock.
Registered == {t \in Thread : pc[t] \in {"reg_flag", "reg_rel"} \/ notified[t]}

\* Threads that own the mutex: lock has taken it and unlock has not freed it.
OwnPC == {"fin_locked", "fin_waiter", "fin_attempt", "held", "unl_start",
          "unl_sub"}
Owners == {t \in Thread : pc[t] \in OwnPC /\ retval[t] \in {"0", "EOWNERDEAD"}}

Goto(t, label) == pc' = [pc EXCEPT ![t] = label]
Return(t, v) == retval' = [retval EXCEPT ![t] = v]
Observe(t, v) == oldval' = [oldval EXCEPT ![t] = v]

-----------------------------------------------------------------------------
Init ==
    /\ lock = ZeroLock
    /\ pc = [t \in Thread |-> "idle"]
    /\ oldval = [t \in Thread |-> ZeroLock]
    /\ notified = [t \in Thread |-> FALSE]
    /\ unrecoverable = [t \in Thread |-> FALSE]
    /\ retval = [t \in Thread |-> "none"]
    /\ ops = 0
    /\ attempt = [t \in Thread |-> FALSE]
    /\ is_waiter = [t \in Thread |-> FALSE]
    /\ num_locked = [t \in Thread |-> 0]
    /\ lk = lock_init
    /\ req = [t \in Thread |-> NoReq]
    /\ resp = [t \in Thread |-> <<>>]

-----------------------------------------------------------------------------
(***************************************************************************)
(* finish_mtx_lock(). A successful lock stores num_locked, is_waiter and   *)
(* attempt_key one after the other; a failed one leaves num_locked alone.  *)
(* The result is decided from the lock value last observed. A local that   *)
(* is out of use has its initial value.                                    *)
(***************************************************************************)
Finish(t, locked, code) ==
    /\ Goto(t, IF locked THEN "fin_locked" ELSE "fin_waiter")
    /\ Return(t, code)
    /\ notified' = [notified EXCEPT ![t] = FALSE]
    /\ Observe(t, ZeroLock)

LockedCode(v) == IF is_mtx_ownerdead(v) THEN "EOWNERDEAD" ELSE "0"

FinishLocked(t) ==
    /\ pc[t] = "fin_locked"
    /\ num_locked' = [num_locked EXCEPT ![t] = @ + 1]
    /\ Goto(t, "fin_waiter")
    /\ UNCHANGED <<lock, oldval, notified, unrecoverable, retval, ops,
                   attempt, is_waiter, refereeVars>>

FinishWaiter(t) ==
    /\ pc[t] = "fin_waiter"
    /\ is_waiter' = [is_waiter EXCEPT ![t] = FALSE]
    /\ Goto(t, "fin_attempt")
    /\ UNCHANGED <<lock, oldval, notified, unrecoverable, retval, ops,
                   attempt, num_locked, refereeVars>>

FinishAttempt(t) ==
    /\ pc[t] = "fin_attempt"
    /\ attempt' = [attempt EXCEPT ![t] = FALSE]
    /\ \/ /\ retval[t] \in {"0", "EOWNERDEAD"}
          /\ Goto(t, "held")
          /\ UNCHANGED retval
       \/ /\ retval[t] \notin {"0", "EOWNERDEAD"}
          /\ Goto(t, "idle")
          /\ Return(t, "none")
    /\ UNCHANGED <<lock, oldval, notified, unrecoverable, ops, is_waiter,
                   num_locked, refereeVars>>

-----------------------------------------------------------------------------
(***************************************************************************)
(* pshared_mtx_lock(): start_mtx_operation(), then attempts to swap the    *)
(* expected value for the one with the caller as owner.                    *)
(***************************************************************************)
StartLock(t) ==
    /\ t \in Locker
    /\ pc[t] = "idle"
    /\ ops < MaxOps
    /\ ops' = ops + 1
    /\ attempt' = [attempt EXCEPT ![t] = TRUE]
    /\ Observe(t, ZeroLock)
    /\ Goto(t, "try")
    /\ UNCHANGED <<lock, notified, unrecoverable, retval, is_waiter,
                   num_locked, refereeVars>>

\* incval: the caller becomes the owner and is no longer a waiter.
LockIncrement(t) == mtx_lockval(t, 0, IF notified[t] THEN -1 ELSE 0)

TryLockSwap(t) ==
    /\ pc[t] = "try"
    /\ lock = oldval[t]
    /\ lock' = LockAdd(oldval[t], LockIncrement(t))
    /\ Finish(t, TRUE, LockedCode(oldval[t]))
    /\ UNCHANGED <<unrecoverable, ops, robustVars, refereeVars>>

TryLockFail(t) ==
    /\ pc[t] = "try"
    /\ lock # oldval[t]
    /\ \/ /\ is_mtx_unrecoverable(lock)
          /\ Finish(t, FALSE, "ENOTRECOVERABLE")
       \/ /\ ~is_mtx_unrecoverable(lock)
          /\ Observe(t, IF notified[t] THEN ZeroLock ELSE lock)
          /\ Goto(t, IF notified[t] THEN "wait" ELSE "reg")
          /\ UNCHANGED <<notified, retval>>
    /\ UNCHANGED <<lock, unrecoverable, ops, robustVars, refereeVars>>

(***************************************************************************)
(* register_waiter_in_mtx(). When the waiter count is full, or when the    *)
(* mutex has become unusable, the registration gives up and the caller     *)
(* loops with the value it has just observed, owner part included.         *)
(***************************************************************************)
RegisterFull(t) ==
    /\ pc[t] = "reg"
    /\ is_mtx_waiterlist_full(oldval[t])
    /\ Observe(t, lock)
    /\ Goto(t, "try")
    /\ UNCHANGED <<lock, notified, unrecoverable, retval, ops, robustVars,
                   refereeVars>>

RegisterSwap(t) ==
    /\ pc[t] = "reg"
    /\ ~is_mtx_waiterlist_full(oldval[t])
    /\ lock = oldval[t]
    /\ lock' = LockAdd(ClearWTid(oldval[t]), mtx_lockval(0, t, 1))
    /\ Goto(t, "reg_flag")
    /\ UNCHANGED <<oldval, notified, unrecoverable, retval, ops, robustVars,
                   refereeVars>>

RegisterFail(t) ==
    /\ pc[t] = "reg"
    /\ ~is_mtx_waiterlist_full(oldval[t])
    /\ lock # oldval[t]
    /\ Observe(t, lock)
    /\ Goto(t, IF is_mtx_unrecoverable(lock) THEN "try" ELSE "reg")
    /\ UNCHANGED <<lock, notified, unrecoverable, retval, ops, robustVars,
                   refereeVars>>

RegisterFlag(t) ==
    /\ pc[t] = "reg_flag"
    /\ is_waiter' = [is_waiter EXCEPT ![t] = TRUE]
    /\ Goto(t, "reg_rel")
    /\ UNCHANGED <<lock, oldval, notified, unrecoverable, retval, ops,
                   attempt, num_locked, refereeVars>>

\* Mutant of RegisterRelease: the owner part is expected to stay.
RegisterRelease_KeepsOwner(t) ==
    /\ pc[t] = "reg_rel"
    /\ lock' = LockAdd(lock, Negate(mtx_lockval(0, t, 0)))
    /\ Observe(t, ClearWTid(lock))
    /\ notified' = [notified EXCEPT ![t] = TRUE]
    /\ Goto(t, "try")
    /\ UNCHANGED <<unrecoverable, retval, ops, robustVars, refereeVars>>

\* Release of the waiter tid field; the value kept as expected has neither
\* waiter tid nor owner.
RegisterRelease(t) ==
    /\ pc[t] = "reg_rel"
    /\ lock' = LockAdd(lock, Negate(mtx_lockval(0, t, 0)))
    /\ Observe(t, ClearOwner(ClearWTid(lock)))
    /\ notified' = [notified EXCEPT ![t] = TRUE]
    /\ Goto(t, "try")
    /\ UNCHANGED <<unrecoverable, retval, ops, robustVars, refereeVars>>

(***************************************************************************)
(* pshared_wait_on_lock(): the WAIT transaction, then the lock word is     *)
(* read again and expected free. A pipe transaction can only begin when    *)
(* the pipe holds no unread response, and a message that the server has    *)
(* not read yet comes before it.                                           *)
(***************************************************************************)
SendWait(t) ==
    /\ pc[t] = "wait"
    /\ resp[t] = <<>> /\ req[t] = NoReq
    /\ req' = [req EXCEPT ![t] = WaitReq]
    /\ Goto(t, "waiting")
    /\ UNCHANGED <<lock, oldval, notified, unrecoverable, retval, ops,
                   robustVars, lk, resp>>

WaitReturns(t) ==
    /\ pc[t] = "waiting"
    /\ resp[t] # <<>>
    /\ Head(resp[t]) = "WAIT"
    /\ resp' = [resp EXCEPT ![t] = Tail(@)]
    /\ Goto(t, "reload")
    /\ UNCHANGED <<lock, oldval, notified, unrecoverable, retval, ops,
                   robustVars, lk, req>>

Reload(t) ==
    /\ pc[t] = "reload"
    /\ Observe(t, ClearOwner(lock))
    /\ Goto(t, "try")
    /\ UNCHANGED <<lock, notified, unrecoverable, retval, ops, robustVars,
                   refereeVars>>

-----------------------------------------------------------------------------
(***************************************************************************)
(* pshared_mtx_trylock(): one attempt on a clean lock word, then one on    *)
(* the word observed with its owner part cleared.                          *)
(***************************************************************************)
StartTrylock(t) ==
    /\ pc[t] = "idle"
    /\ ops < MaxOps
    /\ ops' = ops + 1
    /\ attempt' = [attempt EXCEPT ![t] = TRUE]
    /\ Observe(t, ZeroLock)
    /\ Goto(t, "try1")
    /\ UNCHANGED <<lock, notified, unrecoverable, retval, is_waiter,
                   num_locked, refereeVars>>

\* Mutant of TrylockSwap: the arguments of mtx_lockval() are swapped.
TrylockSwap_Swapped(t) ==
    /\ pc[t] \in {"try1", "try2"}
    /\ lock = oldval[t]
    /\ lock' = LockAdd(oldval[t], mtx_lockval(0, t, 0))
    /\ Finish(t, TRUE, LockedCode(oldval[t]))
    /\ UNCHANGED <<unrecoverable, ops, robustVars, refereeVars>>

TrylockSwap(t) ==
    /\ pc[t] \in {"try1", "try2"}
    /\ lock = oldval[t]
    /\ lock' = LockAdd(oldval[t], mtx_lockval(t, 0, 0))
    /\ Finish(t, TRUE, LockedCode(oldval[t]))
    /\ UNCHANGED <<unrecoverable, ops, robustVars, refereeVars>>

TrylockFail(t) ==
    /\ pc[t] \in {"try1", "try2"}
    /\ lock # oldval[t]
    /\ \/ /\ is_mtx_unrecoverable(lock)
          /\ Finish(t, FALSE, "ENOTRECOVERABLE")
       \/ /\ ~is_mtx_unrecoverable(lock)
          /\ pc[t] = "try1"
          /\ Observe(t, ClearOwner(lock))
          /\ Goto(t, "try2")
          /\ UNCHANGED <<notified, retval>>
       \/ /\ ~is_mtx_unrecoverable(lock)
          /\ pc[t] = "try2"
          /\ Finish(t, FALSE, "EBUSY")
    /\ UNCHANGED <<lock, unrecoverable, ops, robustVars, refereeVars>>

-----------------------------------------------------------------------------
(***************************************************************************)
(* pshared_mtx_unlock(): the owner's tid is subtracted from the lock word, *)
(* and replaced by all ones if the state was not made consistent; then one *)
(* waiter, or all of them, are woken. finish_mtx_unlock() stores           *)
(* num_locked and attempt_key.                                             *)
(***************************************************************************)
UnlockCheck(t) ==
    /\ pc[t] = "held"
    /\ unrecoverable' = [unrecoverable EXCEPT ![t] = is_mtx_ownerdead(lock)]
    /\ Goto(t, "unl_start")
    /\ UNCHANGED <<lock, oldval, notified, retval, ops, robustVars,
                   refereeVars>>

UnlockStart(t) ==
    /\ pc[t] = "unl_start"
    /\ attempt' = [attempt EXCEPT ![t] = TRUE]
    /\ Goto(t, "unl_sub")
    /\ UNCHANGED <<lock, oldval, notified, unrecoverable, retval, ops,
                   is_waiter, num_locked, refereeVars>>

UnlockDelta(t) ==
    Delta(0, 0, 0, (IF unrecoverable[t] THEN OwnerMask ELSE 0) - t)

UnlockSub(t) ==
    /\ pc[t] = "unl_sub"
    /\ lock' = LockAdd(lock, UnlockDelta(t))
    /\ Return(t, "none")
    /\ \/ /\ is_mtx_waited(lock)
          /\ Observe(t, lock)
          /\ Goto(t, "wake")
          /\ UNCHANGED unrecoverable
       \/ /\ ~is_mtx_waited(lock)
          /\ unrecoverable' = [unrecoverable EXCEPT ![t] = FALSE]
          /\ Goto(t, "unl_fin")
          /\ UNCHANGED oldval
    /\ UNCHANGED <<notified, ops, robustVars,
                   refereeVars>>

SendWake(t) ==
    /\ pc[t] = "wake"
    /\ resp[t] = <<>> /\ req[t] = NoReq
    /\ req' = [req EXCEPT ![t] =
                  WakeReq(IF unrecoverable[t] THEN mtx_num_waiter(oldval[t])
                                              ELSE 1)]
    /\ Goto(t, "waking")
    /\ Observe(t, ZeroLock)
    /\ unrecoverable' = [unrecoverable EXCEPT ![t] = FALSE]
    /\ UNCHANGED <<lock, notified, retval, ops, robustVars, lk, resp>>

WakeReturns(t) ==
    /\ pc[t] = "waking"
    /\ resp[t] # <<>>
    /\ resp' = [resp EXCEPT ![t] = Tail(@)]
    /\ Goto(t, "unl_fin")
    /\ UNCHANGED <<lock, oldval, notified, unrecoverable, retval, ops,
                   robustVars, lk, req>>

UnlockFinish(t) ==
    /\ pc[t] = "unl_fin"
    /\ num_locked' = [num_locked EXCEPT ![t] = @ - 1]
    /\ Goto(t, "unl_end")
    /\ UNCHANGED <<lock, oldval, notified, unrecoverable, retval, ops,
                   attempt, is_waiter, refereeVars>>

UnlockEnd(t) ==
    /\ pc[t] = "unl_end"
    /\ attempt' = [attempt EXCEPT ![t] = FALSE]
    /\ Goto(t, "idle")
    /\ UNCHANGED <<lock, oldval, notified, unrecoverable, retval, ops,
                   is_waiter, num_locked, refereeVars>>

(***************************************************************************)
(* pshared_mtx_consistent(), called by the owner. Only the owner changes   *)
(* the recover bit while it lives, so the test and the subtraction are one *)
(* step. On a consistent mutex the call returns EINVAL and does nothing.   *)
(***************************************************************************)
Consistent(t) ==
    /\ pc[t] = "held"
    /\ is_mtx_ownerdead(lock)
    /\ lock' = LockAdd(lock, Delta(0, -1, 0, 0))
    /\ UNCHANGED <<threadVars, robustVars, refereeVars>>

-----------------------------------------------------------------------------
(***************************************************************************)
(* The lock referee server. read_completed() hands a request to its        *)
(* handler; thread_client_wakeup() answers the WAIT of a sleeping client.  *)
(***************************************************************************)
Answer(r, S, code) == [t \in Thread |-> IF t \in S THEN Append(r[t], code)
                                                   ELSE r[t]]

HandleWait(t) ==
    /\ req[t].opcode = "WAIT"
    /\ req' = [req EXCEPT ![t] = NoReq]
    /\ lk' = lock_add_waiter(lk, t, 1)
    /\ resp' = Answer(resp, IF WokenInAdvance(lk, 1) THEN {t} ELSE {}, "WAIT")
    /\ UNCHANGED <<lock, threadVars, robustVars>>

HandleWake(t) ==
    /\ req[t].opcode = "WAKE"
    /\ req' = [req EXCEPT ![t] = NoReq]
    /\ lk' = lock_wake_waiters(lk, req[t].num_wakeup, 1)
    /\ resp' = Answer(Answer(resp, WokenBy(lk, req[t].num_wakeup, 1), "WAIT"),
                      {t}, "WAKE")
    /\ UNCHANGED <<lock, threadVars, robustVars>>

\* lockref_server_garbage_collection(): an unused lock is dropped. The server
\* loop collects after each batch of completions, and a batch has any length;
\* a collection that finds nothing to drop changes nothing.
GarbageCollect ==
    /\ lock_is_unused(lk)
    /\ lk # lock_init
    /\ lk' = lock_init
    /\ UNCHANGED <<lock, threadVars, robustVars, req, resp>>

-----------------------------------------------------------------------------
Lock(t) ==
    \/ StartLock(t) \/ TryLockSwap(t) \/ TryLockFail(t)
    \/ RegisterFull(t) \/ RegisterSwap(t) \/ RegisterFail(t)
    \/ RegisterFlag(t) \/ RegisterRelease(t)
    \/ SendWait(t) \/ WaitReturns(t) \/ Reload(t)

Trylock(t) == StartTrylock(t) \/ TrylockSwap(t) \/ TrylockFail(t)

FinishLock(t) == FinishLocked(t) \/ FinishWaiter(t) \/ FinishAttempt(t)

Unlock(t) ==
    \/ UnlockCheck(t) \/ UnlockStart(t) \/ UnlockSub(t)
    \/ SendWake(t) \/ WakeReturns(t) \/ UnlockFinish(t) \/ UnlockEnd(t)

ThreadStep(t) == Lock(t) \/ Trylock(t) \/ FinishLock(t) \/ Unlock(t)
                 \/ Consistent(t)

Serve(t) == HandleWait(t) \/ HandleWake(t)

AllDone == ops = MaxOps /\ \A t \in Thread : pc[t] = "idle"

\* All the calls MaxOps allows have returned: not a deadlock.
Finished ==
    /\ AllDone
    /\ UNCHANGED vars

Next == (\E t \in Thread : ThreadStep(t) \/ Serve(t)) \/ GarbageCollect
        \/ Finished

Spec == Init /\ [][Next]_vars
-----------------------------------------------------------------------------
(***************************************************************************)
(* Properties                                                              *)
(***************************************************************************)

\* Every variable has its type; lock words never leave the 64-bit range. The
\* content of the queue is the subject of RefereeAccounting.
TypeOK ==
    /\ lock \in LockValue
    /\ pc \in [Thread -> PC]
    /\ oldval \in [Thread -> LockValue]
    /\ notified \in [Thread -> BOOLEAN]
    /\ unrecoverable \in [Thread -> BOOLEAN]
    /\ retval \in [Thread -> Retval]
    /\ ops \in 0 .. MaxOps
    /\ attempt \in [Thread -> BOOLEAN]
    /\ is_waiter \in [Thread -> BOOLEAN]
    /\ num_locked \in [Thread -> Int]
    /\ lk.nwaiter \in Int
    /\ lk.max_wakeup_val \in Int
    /\ req \in [Thread -> [opcode : {"none", "WAIT", "WAKE"}, num_wakeup : Nat]]
    /\ resp \in [Thread -> Seq({"WAIT", "WAKE", "CLEANUP"})]

\* Two threads never own the mutex at once: between the swap of
\* pshared_mtx_lock() or pshared_mtx_trylock() that succeeds and the
\* subtraction of pshared_mtx_unlock(), no other thread is in that interval.
MutualExclusion == \A s, t \in Owners : s = t

\* The lock word names its owner: the tid in the owner field is the one of the
\* thread that took the mutex, and a free mutex has a null owner field. What
\* unlock subtracts is therefore what lock has added.
OwnerIsHolder ==
    /\ \A t \in Owners : lock.owner = t
    /\ Owners = {} => lock.owner = 0

\* The waiter count of the lock word is the number of threads between
\* register_waiter_in_mtx() and the swap that takes the mutex: no registration
\* is lost or counted twice, so unlock wakes exactly when somebody waits.
WaiterCount == lock.nwaiter = Cardinality(Registered)

\* The threads asleep: no answer on its way and no other request in the pipe.
Asleep == {t \in Thread : pc[t] = "waiting" /\ req[t] = NoReq /\ resp[t] = <<>>}

\* The referee banks wake-ups only while nobody sleeps: when nwaiter is
\* positive it is the length of the queue, otherwise the queue is empty, and a
\* banked wake-up can be claimed by the next WAIT (lock_add_waiter() and
\* lock_wake_waiters() agree on what nwaiter means). The queue holds exactly
\* the threads asleep, each once: a wake-up is never given to a thread that
\* does not wait for one.
RefereeAccounting ==
    /\ Sleepers(lk) = Asleep
    /\ Cardinality(Asleep) = Len(lk.waiters_queue)
    /\ lk.nwaiter > 0  => Len(lk.waiters_queue) = lk.nwaiter
    /\ lk.nwaiter <= 0 => lk.waiters_queue = <<>>
    /\ lk.nwaiter < 0  => lk.max_wakeup_val >= 1

\* No lost wake-up: while the mutex is free and a thread sleeps, some other
\* thread is still inside a call that will take the mutex or wake the sleeper.
\* (The DOC comment of thread-win32.c: updating the lock value only through
\* atomic operations avoids "any problem of lost wake-up".)
NoLostWakeup ==
    (lock.owner = 0 /\ Asleep # {}) =>
        \E t \in Thread \ Asleep : pc[t] # "idle"
=============================================================================
