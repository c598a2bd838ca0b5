-------------------------------- MODULE Once --------------------------------
(***************************************************************************)
(* One-time initialisation on Windows: mm_thr_once() and once_run_init()   *)
(* of src/thread-win32.c.                                                  *)
(*                                                                         *)
(* All the controls of a process share one SRW lock, made recursive by the *)
(* id of its owner and a recursion level: a routine may itself call        *)
(* mm_thr_once(). The owner is read and written outside the lock, so every *)
(* access is a step of its own. A thread is a stack of calls, the innermost*)
(* one last.                                                               *)
(***************************************************************************)
EXTENDS Integers, Sequences, FiniteSets

CONSTANTS
    Thread,         \* the threads that call mm_thr_once()
    Control,        \* the once controls
    NestedIn,       \* the controls the routine of a control calls once on
    NoThread        \* the null thread id

ASSUME OnceAssumption ==
    /\ NoThread \notin Thread
    /\ NestedIn \in [Control -> SUBSET Control]

VARIABLES
    once,           \* has the control been changed from MM_THR_ONCE_INIT
    srwlock,        \* holder of once_global_lock
    lock_owner,     \* global_lock_owner
    level,          \* global_lock_recursion_level
    calls,          \* the stack of mm_thr_once() calls of a thread
    runs,           \* history: how many times the routine has been started
    completed,      \* history: controls whose routine has returned
    returned        \* history: controls a call of mm_thr_once() returned for

onceVars ==
    <<once, srwlock, lock_owner, level, calls, runs, completed, returned>>

\* Where a call stands. In "routine" it runs once_routine(), whose nested calls
\* it has still to make are in todo.
CallAt == {"check", "owner", "acquire", "claim", "enter", "test", "mark",
           "routine", "leave", "disown", "release"}

Call(c, at, todo) == [control |-> c, at |-> at, todo |-> todo]

OnceInit ==
    /\ once = [c \in Control |-> FALSE]
    /\ srwlock = NoThread
    /\ lock_owner = NoThread
    /\ level = 0
    /\ calls = [t \in Thread |-> <<>>]
    /\ runs = [c \in Control |-> 0]
    /\ completed = {}
    /\ returned = {}

InCall(t) == calls[t] # <<>>
Current(t) == calls[t][Len(calls[t])]
At(t, label) == InCall(t) /\ Current(t).at = label
Outer(t) == SubSeq(calls[t], 1, Len(calls[t]) - 1)

Push(t, c) == calls' = [calls EXCEPT ![t] = Append(@, Call(c, "check", {}))]
Return(t) ==
    /\ calls' = [calls EXCEPT ![t] = Outer(t)]
    /\ returned' = returned \cup {Current(t).control}
Step(t, label) ==
    /\ calls' = [calls EXCEPT ![t][Len(calls[t])].at = label]
    /\ UNCHANGED returned

-----------------------------------------------------------------------------
\* A thread enters mm_thr_once() from its own code.
CallOnce(t, c) ==
    /\ ~InCall(t)
    /\ Push(t, c)
    /\ UNCHANGED <<once, srwlock, lock_owner, level, runs, completed, returned>>

\* Mutant: a caller spins until the routine of a changed control has completed.
OnceCheck_Spins(t) ==
    /\ At(t, "check")
    /\ LET c == Current(t).control
       IN  IF c \in completed THEN Return(t)
           ELSE Step(t, IF once[c] THEN "check" ELSE "owner")
    /\ UNCHANGED <<once, srwlock, lock_owner, level, runs, completed>>

\* mm_thr_once(): nothing is done, not even a wait, if the control has changed.
OnceCheck(t) ==
    /\ At(t, "check")
    /\ IF once[Current(t).control] THEN Return(t) ELSE Step(t, "owner")
    /\ UNCHANGED <<once, srwlock, lock_owner, level, runs, completed>>

\* once_run_init(): a thread that finds itself to be the owner does not acquire.
OwnerTest(t) ==
    /\ At(t, "owner")
    /\ Step(t, IF lock_owner = t THEN "enter" ELSE "acquire")
    /\ UNCHANGED <<once, srwlock, lock_owner, level, runs, completed>>

Acquire(t) ==
    /\ At(t, "acquire")
    /\ srwlock = NoThread
    /\ srwlock' = t
    /\ Step(t, "claim")
    /\ UNCHANGED <<once, lock_owner, level, runs, completed>>

Claim(t) ==
    /\ At(t, "claim")
    /\ lock_owner' = t
    /\ Step(t, "enter")
    /\ UNCHANGED <<once, srwlock, level, runs, completed>>

EnterLevel(t) ==
    /\ At(t, "enter")
    /\ level' = level + 1
    /\ Step(t, "test")
    /\ UNCHANGED <<once, srwlock, lock_owner, runs, completed>>

\* Mutant: the control is not tested again once the lock is held.
TestOnce_NotAgain(t) ==
    /\ At(t, "test")
    /\ Step(t, "mark")
    /\ UNCHANGED <<once, srwlock, lock_owner, level, runs, completed>>

TestOnce(t) ==
    /\ At(t, "test")
    /\ Step(t, IF once[Current(t).control] THEN "leave" ELSE "mark")
    /\ UNCHANGED <<once, srwlock, lock_owner, level, runs, completed>>

\* The control is changed before the routine is called.
MarkOnce(t) ==
    /\ At(t, "mark")
    /\ LET c == Current(t).control
       IN  /\ once' = [once EXCEPT ![c] = TRUE]
           /\ runs' = [runs EXCEPT ![c] = @ + 1]
           /\ calls' = [calls EXCEPT
                 ![t][Len(calls[t])] = Call(c, "routine", NestedIn[c])]
    /\ UNCHANGED <<srwlock, lock_owner, level, completed, returned>>

\* The routine calls mm_thr_once() on the controls it needs, in any order.
RoutineCalls(t) ==
    /\ At(t, "routine")
    /\ \E c \in Current(t).todo :
          calls' = [calls EXCEPT ![t] =
              Outer(t) \o <<[Current(t) EXCEPT !.todo = @ \ {c}],
                            Call(c, "check", {})>>]
    /\ UNCHANGED <<once, srwlock, lock_owner, level, runs, completed, returned>>

RoutineReturns(t) ==
    /\ At(t, "routine")
    /\ Current(t).todo = {}
    /\ completed' = completed \cup {Current(t).control}
    /\ Step(t, "leave")
    /\ UNCHANGED <<once, srwlock, lock_owner, level, runs>>

LeaveLevel(t) ==
    /\ At(t, "leave")
    /\ level' = level - 1
    /\ IF level - 1 = 0 THEN Step(t, "disown") ELSE Return(t)
    /\ UNCHANGED <<once, srwlock, lock_owner, runs, completed>>

Disown(t) ==
    /\ At(t, "disown")
    /\ lock_owner' = NoThread
    /\ Step(t, "release")
    /\ UNCHANGED <<once, srwlock, level, runs, completed>>

Release(t) ==
    /\ At(t, "release")
    /\ srwlock' = NoThread
    /\ Return(t)
    /\ UNCHANGED <<once, lock_owner, level, runs, completed>>

OnceStep(t) ==
    \/ OnceCheck(t) \/ OwnerTest(t) \/ Acquire(t) \/ Claim(t) \/ EnterLevel(t)
    \/ TestOnce(t) \/ MarkOnce(t) \/ RoutineCalls(t) \/ RoutineReturns(t)
    \/ LeaveLevel(t) \/ Disown(t) \/ Release(t)
-----------------------------------------------------------------------------
(***************************************************************************)
(* Properties                                                              *)
(***************************************************************************)

\* Every variable has its type.
OnceTypeOK ==
    /\ once \in [Control -> BOOLEAN]
    /\ srwlock \in Thread \cup {NoThread}
    /\ lock_owner \in Thread \cup {NoThread}
    /\ level \in Nat
    /\ \A t \in Thread : \A i \in DOMAIN calls[t] :
          calls[t][i] \in [control : Control, at : CallAt, todo : SUBSET Control]
    /\ runs \in [Control -> Nat]
    /\ completed \subseteq Control
    /\ returned \subseteq Control

\* mm_thr_once(): "On return from mm_thr_once(), init_routine shall have
\* completed", for the caller that ran the routine and for every other one.
CompletedOnReturn == returned \subseteq completed

\* The calls of a thread that are inside the recursive lock.
Inside(t) == {i \in DOMAIN calls[t] :
                 calls[t][i].at \in {"test", "mark", "routine", "leave"}}

\* mm_thr_once(): "Subsequent calls of mm_thr_once() with the same once_control
\* shall not call @once_routine", whatever thread makes them and even from
\* inside the routine of another control. This rests on the recursive lock: the
\* unprotected reads of global_lock_owner never let a second thread in, and the
\* recursion level counts the calls that are inside, so that the lock is
\* released by the outermost one and by no other. Every variable keeps its type.
RunsAtMostOnce ==
    /\ OnceTypeOK
    /\ \A c \in Control : runs[c] <= 1
    /\ \A t \in Thread : Inside(t) # {} => srwlock = t /\ lock_owner = t
    /\ level = Cardinality(UNION {Inside(t) \X {t} : t \in Thread})
=============================================================================
