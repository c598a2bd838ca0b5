---------------------------- MODULE PsharedCond ----------------------------
(***************************************************************************)
(* The process shared condition variable of mmlib on Windows:              *)
(* pshared_cond_wait(), pshared_cond_signal() and pshared_cond_broadcast() *)
(* of src/thread-win32.c, with the lock of the condition in the referee    *)
(* server. The mutex of the condition is AbstractMutex, which              *)
(* PsharedMutexProofs proves the process shared mutex to implement.        *)
(*                                                                         *)
(* The threads use the condition the way its documentation asks for: the   *)
(* waiters consume tokens and wait under the mutex while there is none,    *)
(* the notifiers add a token under the mutex and signal or broadcast,      *)
(* before or after they unlock. A step of a thread is one access to        *)
(* waiter_seq or wakeup_seq, one mutex step, or half of a transaction.     *)
(***************************************************************************)
EXTENDS RefereeLock

CONSTANTS
    Waiters,        \* threads that consume tokens
    Notifiers,      \* threads that produce them
    MaxTokens       \* bound on the number of tokens produced

ASSUME CondAssumption ==
    /\ Waiters \cap Notifiers = {}
    /\ IsFiniteSet(Waiters) /\ IsFiniteSet(Notifiers)
    /\ MaxTokens \in Nat

VARIABLES
    status,         \* of each thread with respect to the mutex
    pc,             \* what a thread does next
    waiter_seq,     \* cond->waiter_seq
    wakeup_seq,     \* cond->wakeup_seq
    waiter_val,     \* local waiter_val of signal and broadcast
    wakeup_val,     \* local wakeup_val of wait, signal and broadcast
    num_waiter,     \* local num_waiter of signal and broadcast
    produced,       \* number of tokens produced
    consumed,       \* number of tokens consumed
    lk,             \* the server's struct lock for the condition
    req,            \* request in the pipe of a thread
    resp            \* responses not read yet by a thread: BOOLEAN, one at most

localVars == <<waiter_val, wakeup_val, num_waiter>>
tokenVars == <<produced, consumed>>
seqVars == <<waiter_seq, wakeup_seq>>
refereeVars == <<lk, req, resp>>
vars == <<status, pc, seqVars, localVars, tokenVars, refereeVars>>

Thread == Waiters \cup Notifiers
Mutex == INSTANCE AbstractMutex

PC == {"out", "enter", "check", "release", "wait", "waiting", "relock",
       "add", "load_waiter", "load_wakeup", "fetch", "wake", "waking", "end"}

NoReq == [opcode |-> "none", val |-> 0, num_wakeup |-> 0]
WaitReq(v) == [opcode |-> "WAIT", val |-> v, num_wakeup |-> 0]
WakeReq(v, n) == [opcode |-> "WAKE", val |-> v, num_wakeup |-> n]

Tokens == produced - consumed
Goto(t, label) == pc' = [pc EXCEPT ![t] = label]

Init ==
    /\ Mutex!AInit
    /\ pc = [t \in Thread |-> "out"]
    /\ waiter_seq = 0
    /\ wakeup_seq = 0
    /\ waiter_val = [t \in Thread |-> 0]
    /\ wakeup_val = [t \in Thread |-> 0]
    /\ num_waiter = [t \in Thread |-> 0]
    /\ produced = 0
    /\ consumed = 0
    /\ lk = lock_init
    /\ req = [t \in Thread |-> NoReq]
    /\ resp = [t \in Thread |-> FALSE]

-----------------------------------------------------------------------------
(***************************************************************************)
(* The mutex, before and inside pshared_cond_wait().                       *)
(***************************************************************************)
\* The notifiers about to add a token.
Producing == Cardinality({t \in Notifiers : pc[t] \in {"enter", "add"}})

CallLock(t) ==
    /\ \/ pc[t] = "relock"
       \/ pc[t] = "out" /\ t \in Waiters /\ consumed < MaxTokens
       \/ pc[t] = "out" /\ t \in Notifiers /\ produced + Producing < MaxTokens
    /\ Mutex!CallLock(t)
    /\ Goto(t, "enter")
    /\ UNCHANGED <<seqVars, localVars, tokenVars, refereeVars>>

Enter(t) ==
    /\ pc[t] = "enter"
    /\ Mutex!Enter(t)
    /\ Goto(t, IF t \in Waiters THEN "check" ELSE "add")
    /\ UNCHANGED <<seqVars, localVars, tokenVars, refereeVars>>

\* The thread leaves the critical section, if it is still in it.
Leave(t) ==
    /\ pc[t] = "end"
    /\ IF status[t] = "in" THEN Mutex!Unlock(t) ELSE UNCHANGED status
    /\ Goto(t, "out")
    /\ UNCHANGED <<seqVars, localVars, tokenVars, refereeVars>>

-----------------------------------------------------------------------------
(***************************************************************************)
(* A waiter.                                                               *)
(***************************************************************************)
Consume(t) ==
    /\ pc[t] = "check"
    /\ Tokens > 0
    /\ consumed' = consumed + 1
    /\ Goto(t, "end")
    /\ UNCHANGED <<status, seqVars, localVars, produced, refereeVars>>

\* Mutant: the waiter reads its number and does not count itself.
WaitSeq_NotCounted(t) ==
    /\ pc[t] = "check"
    /\ Tokens = 0
    /\ wakeup_val' = [wakeup_val EXCEPT ![t] = waiter_seq]
    /\ Goto(t, "release")
    /\ UNCHANGED <<status, seqVars, waiter_val, num_waiter, tokenVars,
                   refereeVars>>

\* pshared_cond_wait(): the sequence number is taken under the mutex.
WaitSeq(t) ==
    /\ pc[t] = "check"
    /\ Tokens = 0
    /\ wakeup_val' = [wakeup_val EXCEPT ![t] = waiter_seq]
    /\ waiter_seq' = waiter_seq + 1
    /\ Goto(t, "release")
    /\ UNCHANGED <<status, wakeup_seq, waiter_val, num_waiter, tokenVars,
                   refereeVars>>

WaitUnlock(t) ==
    /\ pc[t] = "release"
    /\ Mutex!Unlock(t)
    /\ Goto(t, "wait")
    /\ UNCHANGED <<seqVars, localVars, tokenVars, refereeVars>>

SendWait(t) ==
    /\ pc[t] = "wait"
    /\ req' = [req EXCEPT ![t] = WaitReq(wakeup_val[t])]
    /\ wakeup_val' = [wakeup_val EXCEPT ![t] = 0]
    /\ Goto(t, "waiting")
    /\ UNCHANGED <<status, seqVars, waiter_val, num_waiter, tokenVars, lk,
                   resp>>

WaitReturns(t) ==
    /\ pc[t] = "waiting"
    /\ resp[t]
    /\ resp' = [resp EXCEPT ![t] = FALSE]
    /\ Goto(t, "relock")
    /\ UNCHANGED <<status, seqVars, localVars, tokenVars, lk, req>>

-----------------------------------------------------------------------------
(***************************************************************************)
(* A notifier. It signals with the mutex held or after it has released it. *)
(***************************************************************************)
Produce(t) ==
    /\ pc[t] = "add"
    /\ produced' = produced + 1
    /\ (UNCHANGED status) \/ Mutex!Unlock(t)
    /\ Goto(t, "load_waiter")
    /\ UNCHANGED <<seqVars, localVars, consumed, refereeVars>>

LoadWaiterSeq(t) ==
    /\ pc[t] = "load_waiter"
    /\ waiter_val' = [waiter_val EXCEPT ![t] = waiter_seq]
    /\ Goto(t, "load_wakeup")
    /\ UNCHANGED <<status, seqVars, wakeup_val, num_waiter, tokenVars,
                   refereeVars>>

\* Mutant: a single waiter is taken for none.
LoadWakeupSeq_OffByOne(t) ==
    /\ pc[t] = "load_wakeup"
    /\ LET n == waiter_val[t] - wakeup_seq
       IN  /\ num_waiter' = [num_waiter EXCEPT ![t] = IF n <= 1 THEN 0 ELSE n]
           /\ Goto(t, IF n <= 1 THEN "end" ELSE "fetch")
    /\ waiter_val' = [waiter_val EXCEPT ![t] = 0]
    /\ UNCHANGED <<status, seqVars, wakeup_val, tokenVars, refereeVars>>

\* Nobody to wake, as far as the two numbers tell.
LoadWakeupSeq(t) ==
    /\ pc[t] = "load_wakeup"
    /\ LET n == waiter_val[t] - wakeup_seq
       IN  /\ num_waiter' = [num_waiter EXCEPT ![t] = IF n <= 0 THEN 0 ELSE n]
           /\ Goto(t, IF n <= 0 THEN "end" ELSE "fetch")
    /\ waiter_val' = [waiter_val EXCEPT ![t] = 0]
    /\ UNCHANGED <<status, seqVars, wakeup_val, tokenVars, refereeVars>>

\* pshared_cond_signal() wakes one waiter, pshared_cond_broadcast() all those
\* it has counted; the value is the one of the last waiter to wake.
FetchWakeupSeq(t, n) ==
    /\ pc[t] = "fetch"
    /\ wakeup_seq' = wakeup_seq + n
    /\ wakeup_val' = [wakeup_val EXCEPT ![t] = wakeup_seq + n - 1]
    /\ num_waiter' = [num_waiter EXCEPT ![t] = n]
    /\ Goto(t, "wake")
    /\ UNCHANGED <<status, waiter_seq, waiter_val, tokenVars, refereeVars>>

Signal(t) == FetchWakeupSeq(t, 1)
Broadcast(t) == FetchWakeupSeq(t, num_waiter[t])

SendWake(t) ==
    /\ pc[t] = "wake"
    /\ req' = [req EXCEPT ![t] = WakeReq(wakeup_val[t], num_waiter[t])]
    /\ wakeup_val' = [wakeup_val EXCEPT ![t] = 0]
    /\ num_waiter' = [num_waiter EXCEPT ![t] = 0]
    /\ Goto(t, "waking")
    /\ UNCHANGED <<status, seqVars, waiter_val, tokenVars, lk, resp>>

WakeReturns(t) ==
    /\ pc[t] = "waking"
    /\ resp[t]
    /\ resp' = [resp EXCEPT ![t] = FALSE]
    /\ Goto(t, "end")
    /\ UNCHANGED <<status, seqVars, localVars, tokenVars, lk, req>>

-----------------------------------------------------------------------------
(***************************************************************************)
(* The server: the handlers of WAIT and WAKE, and its garbage collection.  *)
(***************************************************************************)
Answer(S) == resp' = [t \in Thread |-> resp[t] \/ t \in S]

HandleWait(t) ==
    /\ req[t].opcode = "WAIT"
    /\ req' = [req EXCEPT ![t] = NoReq]
    /\ lk' = lock_add_waiter(lk, t, req[t].val)
    /\ Answer(IF WokenInAdvance(lk, req[t].val) THEN {t} ELSE {})
    /\ UNCHANGED <<status, pc, seqVars, localVars, tokenVars>>

HandleWake(t) ==
    /\ req[t].opcode = "WAKE"
    /\ req' = [req EXCEPT ![t] = NoReq]
    /\ lk' = lock_wake_waiters(lk, req[t].num_wakeup, req[t].val)
    /\ Answer({t} \cup WokenBy(lk, req[t].num_wakeup, req[t].val))
    /\ UNCHANGED <<status, pc, seqVars, localVars, tokenVars>>

GarbageCollect ==
    /\ lock_is_unused(lk)
    /\ lk # lock_init
    /\ lk' = lock_init
    /\ UNCHANGED <<status, pc, seqVars, localVars, tokenVars, req, resp>>

-----------------------------------------------------------------------------
WaiterStep(t) ==
    \/ Consume(t) \/ WaitSeq(t) \/ WaitUnlock(t)
    \/ SendWait(t) \/ WaitReturns(t)

NotifierStep(t) ==
    \/ Produce(t) \/ LoadWaiterSeq(t) \/ LoadWakeupSeq(t)
    \/ Signal(t) \/ Broadcast(t) \/ SendWake(t) \/ WakeReturns(t)

\* The steps a thread takes by itself, and the one it waits for the mutex in.
OwnStep(t) == CallLock(t) \/ Leave(t) \/ WaiterStep(t) \/ NotifierStep(t)
ThreadStep(t) == OwnStep(t) \/ Enter(t)

Serve(t) == HandleWait(t) \/ HandleWake(t)

Finished ==
    /\ consumed = MaxTokens
    /\ \A t \in Notifiers : pc[t] = "out"
    /\ UNCHANGED vars

Next == (\E t \in Thread : ThreadStep(t) \/ Serve(t)) \/ GarbageCollect
        \/ Finished

\* Every thread goes on until the tokens have been produced and consumed, and
\* the server handles what it receives. That the mutex is given to a thread that
\* waits for it is not assumed here.
Fairness == \A t \in Thread : WF_vars(OwnStep(t)) /\ WF_vars(Serve(t))

Spec == Init /\ [][Next]_vars
FairSpec == Spec /\ Fairness
-----------------------------------------------------------------------------
(***************************************************************************)
(* Properties                                                              *)
(***************************************************************************)

\* Every variable has its type.
TypeOK ==
    /\ status \in [Thread -> Mutex!Status]
    /\ pc \in [Thread -> PC]
    /\ waiter_seq \in Nat /\ wakeup_seq \in Nat
    /\ waiter_val \in [Thread -> Nat]
    /\ wakeup_val \in [Thread -> Nat]
    /\ num_waiter \in [Thread -> Nat]
    /\ produced \in 0 .. MaxTokens /\ consumed \in 0 .. produced
    /\ lk.nwaiter \in Int /\ lk.max_wakeup_val \in Nat
    /\ resp \in [Thread -> BOOLEAN]

\* A notifier that has counted the waiters and whose WAKE the server has not
\* handled yet.
WakePending(t) == pc[t] \in {"fetch", "wake"} \/ req[t].opcode = "WAKE"

\* No signal is lost: when there is a token and every waiter sleeps in the
\* queue of the server, a signal or a broadcast is on its way.
\* (lock_wake_waiters(): when waiters that were signalled too early "request to
\* wait for lock, they will be immediately waken up".)
NoLostSignal ==
    (Tokens > 0 /\ Sleepers(lk) = Waiters) =>
        \E t \in Notifiers : \/ pc[t] \in {"load_waiter", "load_wakeup"}
                             \/ WakePending(t)

\* The test "num_waiter <= 0" of signal and broadcast never skips a thread that
\* sleeps: a sleeper whose wake-up is not on its way makes waiter_seq larger
\* than wakeup_seq. And the counter of the server and its queue agree: a
\* positive nwaiter is the number of sleepers, and wake-ups are banked only
\* while nobody sleeps. So no signal is lost, and every variable keeps its type.
SleeperIsCounted ==
    /\ TypeOK
    /\ NoLostSignal
    /\ (Sleepers(lk) # {} /\ \A t \in Notifiers : ~WakePending(t)) =>
            waiter_seq > wakeup_seq
    /\ Len(lk.waiters_queue) = IF lk.nwaiter > 0 THEN lk.nwaiter ELSE 0

\* The mutex does not stay free for ever while threads wait for it. The process
\* shared mutex can break this promise: it loses a wake-up in mutex_lost_wakeup.
MutexServes ==
    []<>(\/ \E t \in Thread : status[t] = "in"
         \/ \A t \in Thread : status[t] # "locking")

\* As far as the mutex keeps its promise, every token is consumed: a waiter of
\* pshared_cond_wait() does not sleep for ever on a condition that was
\* signalled.
EveryTokenConsumed == MutexServes => (Tokens > 0 ~> Tokens = 0)
=============================================================================
