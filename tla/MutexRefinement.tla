-------------------------- MODULE MutexRefinement --------------------------
(***************************************************************************)
(* The process shared mutex implements AbstractMutex. The mapping reads    *)
(* the state of a thread off its program counter: the mutex is taken by    *)
(* the swap that succeeds and given back by the subtraction of unlock.     *)
(***************************************************************************)
EXTENDS PsharedMutex

LockingPC == {"try", "reg", "reg_flag", "reg_rel", "wait", "waiting", "reload"}

\* A call that has decided its result is past its linearization point.
StatusOf(t) ==
    IF t \in Owners THEN "in"
    ELSE IF pc[t] \in LockingPC THEN "locking"
    ELSE IF pc[t] \in {"try1", "try2"} THEN "trying"
    ELSE "out"

Abstract == INSTANCE AbstractMutex WITH status <- [t \in Thread |-> StatusOf(t)]

(***************************************************************************)
(* The inductive invariant behind mutual exclusion. FewThreads keeps the   *)
(* waiter count from saturating: a thread that registers is not counted    *)
(* yet, so it never finds the count full, and the additions to the lock    *)
(* word never carry.                                                       *)
(***************************************************************************)
FewThreads == Cardinality(Thread) < WaiterRadix

\* The word a call expects when it tries to take the mutex has no owner, a
\* caller about to register has seen room for itself, and a call that has
\* taken the mutex remembers it until unlock gives it back.
CallsAreSound ==
    \A t \in Thread :
        /\ notified[t] => pc[t] \in {"try", "wait", "waiting", "reload"}
        /\ pc[t] \in {"try", "try1", "try2"} => oldval[t].owner = 0
        /\ pc[t] = "reg" => oldval[t].nwaiter < Cardinality(Thread)
        /\ pc[t] \in {"fin_locked", "held", "unl_start", "unl_sub"}
              => retval[t] = "0"
        /\ retval[t] # "EOWNERDEAD"
        /\ ~unrecoverable[t]

\* Together these are preserved by every step: no carry reaches the recover
\* bit, the waiter count is exact, the owner field names the owner.
MutexInv ==
    /\ lock.recover = 0
    /\ WaiterCount
    /\ OwnerIsHolder
    /\ CallsAreSound

\* The mutex algorithm, with its waiter registration and its referee server,
\* behaves like a mutex taken in one indivisible step: pshared_mtx_lock()
\* returns only with the mutex, and only when nobody else has it.
ImplementsMutex == Abstract!ASpec
=============================================================================
