------------------------ MODULE PsharedMutexProofs ------------------------
(***************************************************************************)
(* Proofs about the process shared mutex, for any number of threads and    *)
(* any width of the fields of the lock word.                               *)
(***************************************************************************)
EXTENDS MutexRefinement, RefereeLockProofs, FiniteSetTheorems, SequenceTheorems, TLAPS

(***************************************************************************)
(* The lock word                                                           *)
(***************************************************************************)

\* A sum that stays within a field does not carry out of it.
LEMMA NoCarry ==
    ASSUME NEW R \in Nat \ {0}, NEW s \in 0 .. R - 1
    PROVE  s % R = s /\ s \div R = 0
  OBVIOUS

\* A field keeps its width whatever is added to the word.
LEMMA FieldRange ==
    ASSUME NEW R \in Nat \ {0}, NEW s \in Int
    PROVE  s % R \in 0 .. R - 1 /\ s \div R \in Int
  OBVIOUS

DeltaValue == [wtid : Int, recover : Int, nwaiter : Int, owner : Int]

\* atomic_fetch_add() on the lock word yields a lock word.
LEMMA LockAddType ==
    ASSUME NEW v \in LockValue, NEW d \in DeltaValue
    PROVE  LockAdd(v, d) \in LockValue
<1> DEFINE o == v.owner   + d.owner
           n == v.nwaiter + d.nwaiter + (o \div OwnerRadix)
           r == v.recover + d.recover + (n \div WaiterRadix)
           w == v.wtid    + d.wtid    + (r \div 2)
<1>0. /\ v.owner \in Int /\ v.nwaiter \in Int /\ v.recover \in Int
      /\ v.wtid \in Int /\ d.owner \in Int /\ d.nwaiter \in Int
      /\ d.recover \in Int /\ d.wtid \in Int
  BY DEF LockValue, DeltaValue
<1>r. /\ OwnerRadix \in Nat \ {0} /\ WaiterRadix \in Nat \ {0}
      /\ WTidRadix \in Nat \ {0} /\ 2 \in Nat \ {0}
  BY RadixAssumption
<1>1. o % OwnerRadix \in 0 .. OwnerRadix - 1 /\ o \div OwnerRadix \in Int
  <2>1. o \in Int
    BY <1>0
  <2> HIDE DEF o
  <2> QED
    BY <2>1, <1>r, FieldRange
<1>2. n % WaiterRadix \in 0 .. WaiterRadix - 1 /\ n \div WaiterRadix \in Int
  <2>1. n \in Int
    BY <1>0, <1>1
  <2> HIDE DEF n
  <2> QED
    BY <2>1, <1>r, FieldRange
<1>3. r % 2 \in 0 .. 1 /\ r \div 2 \in Int
  <2>1. r \in Int
    BY <1>0, <1>2
  <2> HIDE DEF r
  <2> QED
    BY <2>1
<1>4. w % WTidRadix \in 0 .. WTidRadix - 1
  <2>1. w \in Int
    BY <1>0, <1>3
  <2> HIDE DEF w
  <2> QED
    BY <2>1, <1>r, FieldRange
<1>5. LockAdd(v, d) = [wtid |-> w % WTidRadix, recover |-> r % 2,
                       nwaiter |-> n % WaiterRadix, owner |-> o % OwnerRadix]
  BY DEF LockAdd
<1> HIDE DEF o, n, r, w
<1> QED
  BY <1>1, <1>2, <1>3, <1>4, <1>5 DEF LockValue
\* When every field of the sum fits, the fields add up independently.
LEMMA LockAddFields ==
    ASSUME NEW v \in LockValue, NEW d \in DeltaValue,
           v.owner + d.owner \in 0 .. OwnerRadix - 1,
           v.nwaiter + d.nwaiter \in 0 .. WaiterRadix - 1,
           v.recover + d.recover \in 0 .. 1
    PROVE  /\ LockAdd(v, d).owner = v.owner + d.owner
           /\ LockAdd(v, d).nwaiter = v.nwaiter + d.nwaiter
           /\ LockAdd(v, d).recover = v.recover + d.recover
<1> DEFINE o == v.owner   + d.owner
           n == v.nwaiter + d.nwaiter
           r == v.recover + d.recover
<1>r. /\ OwnerRadix \in Nat \ {0} /\ WaiterRadix \in Nat \ {0}
  BY RadixAssumption
<1>1. o % OwnerRadix = o /\ o \div OwnerRadix = 0
  <2> HIDE DEF o
  <2> QED
    BY <1>r, NoCarry DEF o
<1>2. n % WaiterRadix = n /\ n \div WaiterRadix = 0
  <2> HIDE DEF n
  <2> QED
    BY <1>r, NoCarry DEF n
<1>3. n + 0 = n /\ r + 0 = r /\ r % 2 = r
  BY DEF LockValue, DeltaValue
<1>4. v.nwaiter + d.nwaiter + (o \div OwnerRadix) = n
  BY <1>1 DEF LockValue, DeltaValue
<1>5. v.recover + d.recover + (n \div WaiterRadix) = r
  BY <1>2 DEF LockValue, DeltaValue
<1> QED
  BY <1>1, <1>2, <1>3, <1>4, <1>5 DEF LockAdd

-----------------------------------------------------------------------------
(***************************************************************************)
(* Type correctness                                                        *)
(***************************************************************************)
LEMMA ThreadFacts ==
    /\ IsFiniteSet(Thread)
    /\ Thread \subseteq Nat \ {0}
    /\ \A t \in Thread : t \in 1 .. OwnerRadix - 2
    /\ 0 \in 0 .. OwnerRadix - 1 /\ 0 \in 0 .. WaiterRadix - 1
    /\ 0 \in 0 .. WTidRadix - 1
  BY ThreadAssumption, RadixAssumption

LEMMA ZeroLockType == ZeroLock \in LockValue
  BY ThreadFacts DEF ZeroLock, LockValue

\* The differences the code adds to a lock word are differences.
LEMMA DeltaTypes ==
    ASSUME NEW t \in Thread, NEW n \in Int
    PROVE  /\ mtx_lockval(t, 0, n) \in DeltaValue
           /\ mtx_lockval(0, t, n) \in DeltaValue
           /\ Negate(mtx_lockval(0, t, 0)) \in DeltaValue
           /\ Delta(0, -1, 0, 0) \in DeltaValue
           /\ \A m \in Int : Delta(0, 0, 0, m - t) \in DeltaValue
<1>1. t \in Int /\ WTidRadix \in Nat \ {0}
  BY ThreadFacts, RadixAssumption
<1>2. t % WTidRadix \in Int /\ 0 % WTidRadix \in Int
  BY <1>1, FieldRange
<1> QED
  BY <1>1, <1>2 DEF mtx_lockval, Delta, Negate, DeltaValue

LEMMA ClearTypes ==
    ASSUME NEW v \in LockValue
    PROVE  /\ ClearOwner(v) \in LockValue
           /\ ClearWTid(v) \in LockValue
           /\ ClearOwner(ClearWTid(v)) \in LockValue
  BY ThreadFacts DEF ClearOwner, ClearWTid, LockValue

LEMMA InitType == Init => TypeOK
  BY ZeroLockType, ThreadAssumption
     DEF Init, TypeOK, PC, Retval, NoReq, lock_init
LEMMA AnswerType ==
    ASSUME NEW r \in [Thread -> Seq({"WAIT", "WAKE", "CLEANUP"})],
           NEW S, NEW c \in {"WAIT", "WAKE"}
    PROVE  Answer(r, S, c) \in [Thread -> Seq({"WAIT", "WAKE", "CLEANUP"})]
  BY DEF Answer

LEMMA TypeStep == TypeOK /\ [Next]_vars => TypeOK'
<1> SUFFICES ASSUME TypeOK, [Next]_vars PROVE TypeOK'
  OBVIOUS
<1> USE DEF Goto, Return, Observe, PC, Retval
<1>f. ASSUME NEW t \in Thread, NEW l \in BOOLEAN, NEW c \in Retval,
             Finish(t, l, c)
      PROVE  /\ pc' \in [Thread -> PC] /\ retval' \in [Thread -> Retval]
             /\ notified' \in [Thread -> BOOLEAN]
             /\ oldval' \in [Thread -> LockValue]
  BY <1>f, ZeroLockType DEF Finish, TypeOK
<1>1. ASSUME NEW t \in Thread, Lock(t) PROVE TypeOK'
  <2>1. CASE StartLock(t)
    BY <2>1, ZeroLockType, ThreadAssumption DEF StartLock, TypeOK, refereeVars
  <2>2. CASE TryLockSwap(t)
    <3>1. LockIncrement(t) \in DeltaValue
      BY DeltaTypes DEF LockIncrement, TypeOK
    <3>2. lock' \in LockValue
      BY <2>2, <3>1, LockAddType DEF TryLockSwap, TypeOK
    <3>3. LockedCode(oldval[t]) \in Retval
      BY DEF LockedCode
    <3> QED
      BY <2>2, <3>2, <3>3, <1>f DEF TryLockSwap, TypeOK, robustVars, refereeVars
  <2>3. CASE TryLockFail(t)
    <3>1. CASE is_mtx_unrecoverable(lock)
      BY <2>3, <3>1, <1>f DEF TryLockFail, TypeOK, robustVars, refereeVars
    <3>2. CASE ~is_mtx_unrecoverable(lock)
      <4>1. /\ Observe(t, IF notified[t] THEN ZeroLock ELSE lock)
            /\ Goto(t, IF notified[t] THEN "wait" ELSE "reg")
            /\ UNCHANGED <<notified, retval>>
        BY <2>3, <3>2 DEF TryLockFail
      <4>2. oldval' \in [Thread -> LockValue] /\ pc' \in [Thread -> PC]
        BY <4>1, ZeroLockType DEF TypeOK
      <4> QED
        BY <2>3, <4>1, <4>2 DEF TryLockFail, TypeOK, robustVars, refereeVars
    <3> QED
      BY <3>1, <3>2
  <2>4. CASE RegisterFull(t)
    BY <2>4 DEF RegisterFull, TypeOK, robustVars, refereeVars
  <2>5. CASE RegisterSwap(t)
    <3>1. lock' \in LockValue
      BY <2>5, ClearTypes, DeltaTypes, LockAddType DEF RegisterSwap, TypeOK
    <3> QED
      BY <2>5, <3>1 DEF RegisterSwap, TypeOK, robustVars, refereeVars
  <2>6. CASE RegisterFail(t)
    BY <2>6 DEF RegisterFail, TypeOK, robustVars, refereeVars
  <2>7. CASE RegisterFlag(t)
    BY <2>7 DEF RegisterFlag, TypeOK, refereeVars
  <2>8. CASE RegisterRelease(t)
    <3>1. lock' \in LockValue
      BY <2>8, DeltaTypes, LockAddType DEF RegisterRelease, TypeOK
    <3>2. ClearOwner(ClearWTid(lock)) \in LockValue
      BY ClearTypes DEF TypeOK
    <3> QED
      BY <2>8, <3>1, <3>2 DEF RegisterRelease, TypeOK, robustVars, refereeVars
  <2>9. CASE SendWait(t)
    BY <2>9 DEF SendWait, TypeOK, robustVars, WaitReq
  <2>10. CASE WaitReturns(t)
    BY <2>10 DEF WaitReturns, TypeOK, robustVars
  <2>11. CASE Reload(t)
    <3>1. ClearOwner(lock) \in LockValue
      BY ClearTypes DEF TypeOK
    <3> QED
      BY <2>11, <3>1 DEF Reload, TypeOK, robustVars, refereeVars
  <2> QED
    BY <1>1, <2>1, <2>2, <2>3, <2>4, <2>5, <2>6, <2>7, <2>8, <2>9, <2>10,
       <2>11 DEF Lock
<1>2. ASSUME NEW t \in Thread, Trylock(t) PROVE TypeOK'
  <2>1. CASE StartTrylock(t)
    BY <2>1, ZeroLockType, ThreadAssumption
       DEF StartTrylock, TypeOK, refereeVars
  <2>2. CASE TrylockSwap(t)
    <3>1. lock' \in LockValue
      BY <2>2, DeltaTypes, LockAddType DEF TrylockSwap, TypeOK
    <3>2. LockedCode(oldval[t]) \in Retval
      BY DEF LockedCode
    <3> QED
      BY <2>2, <3>1, <3>2, <1>f DEF TrylockSwap, TypeOK, robustVars, refereeVars
  <2>3. CASE TrylockFail(t)
    <3>1. ClearOwner(lock) \in LockValue
      BY ClearTypes DEF TypeOK
    <3>2. CASE Finish(t, FALSE, "ENOTRECOVERABLE") \/ Finish(t, FALSE, "EBUSY")
      BY <2>3, <3>2, <1>f DEF TrylockFail, TypeOK, robustVars, refereeVars
    <3>3. CASE /\ Observe(t, ClearOwner(lock)) /\ Goto(t, "try2")
               /\ UNCHANGED <<notified, retval>>
      BY <2>3, <3>1, <3>3 DEF TrylockFail, TypeOK, robustVars, refereeVars
    <3> QED
      BY <2>3, <3>2, <3>3 DEF TrylockFail
  <2> QED
    BY <1>2, <2>1, <2>2, <2>3 DEF Trylock
<1>3. ASSUME NEW t \in Thread, FinishLock(t) PROVE TypeOK'
  <2>1. CASE FinishLocked(t)
    BY <2>1 DEF FinishLocked, TypeOK, refereeVars
  <2>2. CASE FinishWaiter(t)
    BY <2>2 DEF FinishWaiter, TypeOK, refereeVars
  <2>3. CASE FinishAttempt(t)
    <3>1. pc' \in [Thread -> PC] /\ retval' \in [Thread -> Retval]
      BY <2>3 DEF FinishAttempt, TypeOK
    <3> QED
      BY <2>3, <3>1 DEF FinishAttempt, TypeOK, refereeVars
  <2> QED
    BY <1>3, <2>1, <2>2, <2>3 DEF FinishLock
<1>4. ASSUME NEW t \in Thread, Unlock(t) PROVE TypeOK'
  <2>1. CASE UnlockCheck(t)
    BY <2>1 DEF UnlockCheck, TypeOK, is_mtx_ownerdead, robustVars, refereeVars
  <2>2. CASE UnlockStart(t)
    BY <2>2 DEF UnlockStart, TypeOK, refereeVars
  <2>3. CASE UnlockSub(t)
    <3>1. UnlockDelta(t) \in DeltaValue
      BY DeltaTypes, RadixAssumption DEF UnlockDelta, OwnerMask, TypeOK
    <3>2. lock' \in LockValue
      BY <2>3, <3>1, LockAddType DEF UnlockSub, TypeOK
    <3>3. /\ oldval' \in [Thread -> LockValue] /\ pc' \in [Thread -> PC]
          /\ unrecoverable' \in [Thread -> BOOLEAN]
      <4>1. CASE is_mtx_waited(lock)
        <5>1. /\ Observe(t, lock) /\ Goto(t, "wake")
              /\ unrecoverable' = unrecoverable
          BY <2>3, <4>1 DEF UnlockSub
        <5> QED
          BY <5>1 DEF TypeOK
      <4>2. CASE ~is_mtx_waited(lock)
        BY <2>3, <4>2 DEF UnlockSub, TypeOK
      <4> QED
        BY <4>1, <4>2
    <3> QED
      BY <2>3, <3>2, <3>3 DEF UnlockSub, TypeOK, robustVars, refereeVars
  <2>4. CASE SendWake(t)
    <3>1. mtx_num_waiter(oldval[t]) \in Nat
      BY RadixAssumption DEF TypeOK, mtx_num_waiter, LockValue
    <3> QED
      BY <2>4, <3>1, ZeroLockType DEF SendWake, TypeOK, robustVars, WakeReq
  <2>5. CASE WakeReturns(t)
    BY <2>5 DEF WakeReturns, TypeOK, robustVars
  <2>6. CASE UnlockFinish(t)
    BY <2>6 DEF UnlockFinish, TypeOK, refereeVars
  <2>7. CASE UnlockEnd(t)
    BY <2>7 DEF UnlockEnd, TypeOK, refereeVars
  <2> QED
    BY <1>4, <2>1, <2>2, <2>3, <2>4, <2>5, <2>6, <2>7 DEF Unlock
<1>5. ASSUME NEW t \in Thread, Consistent(t) PROVE TypeOK'
  <2>1. lock' \in LockValue
    BY <1>5, DeltaTypes, LockAddType DEF Consistent, TypeOK
  <2> QED
    BY <1>5, <2>1 DEF Consistent, TypeOK, threadVars, robustVars, refereeVars
<1>6. ASSUME NEW t \in Thread, Serve(t) PROVE TypeOK'
  <2>2. CASE HandleWait(t)
    <3>1. resp' \in [Thread -> Seq({"WAIT", "WAKE", "CLEANUP"})]
      BY <2>2, AnswerType DEF HandleWait, TypeOK
    <3>2. lk'.nwaiter \in Int /\ lk'.max_wakeup_val \in Int
      BY <2>2 DEF HandleWait, TypeOK, lock_add_waiter
    <3> QED
      BY <2>2, <3>1, <3>2 DEF HandleWait, TypeOK, NoReq, threadVars, robustVars
  <2>3. CASE HandleWake(t)
    <3>1. resp' \in [Thread -> Seq({"WAIT", "WAKE", "CLEANUP"})]
      BY <2>3, AnswerType DEF HandleWake, TypeOK
    <3>2. lk'.nwaiter \in Int /\ lk'.max_wakeup_val \in Int
      BY <2>3 DEF HandleWake, TypeOK, lock_wake_waiters
    <3> QED
      BY <2>3, <3>1, <3>2 DEF HandleWake, TypeOK, NoReq, threadVars, robustVars
  <2> QED
    BY <1>6, <2>2, <2>3 DEF Serve
<1>7. CASE GarbageCollect
  BY <1>7 DEF GarbageCollect, TypeOK, lock_init, threadVars, robustVars
<1>8. CASE Finished
  BY <1>8 DEF Finished, TypeOK, vars, threadVars, robustVars, refereeVars
<1>9. CASE UNCHANGED vars
  BY <1>9 DEF TypeOK, vars, threadVars, robustVars, refereeVars
<1> QED
  BY <1>1, <1>2, <1>3, <1>4, <1>5, <1>6, <1>7, <1>8, <1>9
     DEF Next, ThreadStep

\* The mutex keeps its types: in particular no addition to the lock word, with
\* or without carry, leaves the range of the word.
THEOREM TypeCorrect == Spec => []TypeOK
  BY InitType, TypeStep, PTL DEF Spec
-----------------------------------------------------------------------------
(***************************************************************************)
(* Mutual exclusion                                                        *)
(***************************************************************************)
LEMMA InitMutexInv == Init => MutexInv
<1> SUFFICES ASSUME Init PROVE MutexInv
  OBVIOUS
<1>1. Registered = {} /\ Owners = {}
  BY DEF Init, Registered, Owners, OwnPC
<1>2. WaiterCount
  BY <1>1, FS_EmptySet DEF Init, WaiterCount, ZeroLock
<1>3. OwnerIsHolder
  BY <1>1 DEF Init, OwnerIsHolder, ZeroLock
<1>4. CallsAreSound
  BY DEF Init, CallsAreSound
<1> QED
  BY <1>2, <1>3, <1>4 DEF Init, MutexInv, ZeroLock

\* The registered threads are finitely many, and one that is not registered
\* leaves room for itself.
LEMMA RegisteredCount ==
    /\ IsFiniteSet(Registered)
    /\ Cardinality(Registered) \in Nat /\ Cardinality(Thread) \in Nat
    /\ \A t \in Thread \ Registered :
          /\ Cardinality(Registered) < Cardinality(Thread)
          /\ Cardinality(Registered \cup {t}) = Cardinality(Registered) + 1
    /\ \A t \in Registered :
          Cardinality(Registered \ {t}) = Cardinality(Registered) - 1
<1>1. IsFiniteSet(Thread) /\ Registered \subseteq Thread
  BY ThreadAssumption DEF Registered
<1>2. IsFiniteSet(Registered)
  BY <1>1, FS_Subset
<1>3. Cardinality(Registered) \in Nat /\ Cardinality(Thread) \in Nat
  BY <1>1, <1>2, FS_CardinalityType
<1>4. ASSUME NEW t \in Thread \ Registered
      PROVE  /\ Cardinality(Registered) < Cardinality(Thread)
             /\ Cardinality(Registered \cup {t}) = Cardinality(Registered) + 1
  <2>1. Cardinality(Registered \cup {t}) = Cardinality(Registered) + 1
    BY <1>2, FS_AddElement
  <2>2. Cardinality(Registered \cup {t}) <= Cardinality(Thread)
    BY <1>1, FS_Subset
  <2> QED
    BY <2>1, <2>2, <1>3
<1>5. ASSUME NEW t \in Registered
      PROVE  Cardinality(Registered \ {t}) = Cardinality(Registered) - 1
  BY <1>2, FS_RemoveElement
<1> QED
  BY <1>2, <1>3, <1>4, <1>5

\* A step that leaves the lock word, the registered threads and the owners
\* alone has only the calls to answer for.
LEMMA QuietStep ==
    ASSUME MutexInv, lock' = lock, Registered' = Registered, Owners' = Owners,
           CallsAreSound'
    PROVE  MutexInv'
  BY DEF MutexInv, WaiterCount, OwnerIsHolder
\* One step of a thread that leaves the lock word alone.
LEMMA MutexInvQuietSteps ==
    ASSUME TypeOK, MutexInv, NEW t \in Thread,
           \/ StartLock(t) \/ RegisterFlag(t) \/ SendWait(t) \/ WaitReturns(t)
           \/ Reload(t) \/ StartTrylock(t) \/ FinishLock(t)
           \/ UnlockCheck(t) \/ UnlockStart(t) \/ SendWake(t) \/ WakeReturns(t)
           \/ UnlockFinish(t) \/ UnlockEnd(t)
    PROVE  MutexInv'
<1> USE DEF Goto, Return, Observe
<1>t. ~is_mtx_ownerdead(lock)
  BY DEF MutexInv, is_mtx_ownerdead
<1>1. CASE StartLock(t)
  <2>1. lock' = lock /\ Registered' = Registered /\ Owners' = Owners
    BY <1>1 DEF StartLock, TypeOK, Registered, Owners, OwnPC, MutexInv, CallsAreSound
  <2>2. CallsAreSound'
    BY <1>1 DEF StartLock, TypeOK, MutexInv, CallsAreSound, ZeroLock
  <2> QED
    BY <2>1, <2>2, QuietStep
<1>2. CASE RegisterFlag(t)
  <2>1. lock' = lock /\ Registered' = Registered /\ Owners' = Owners
    BY <1>2 DEF RegisterFlag, TypeOK, Registered, Owners, OwnPC, MutexInv, CallsAreSound
  <2>2. CallsAreSound'
    BY <1>2 DEF RegisterFlag, TypeOK, MutexInv, CallsAreSound
  <2> QED
    BY <2>1, <2>2, QuietStep
<1>3. CASE SendWait(t)
  <2>1. lock' = lock /\ Registered' = Registered /\ Owners' = Owners
    BY <1>3 DEF SendWait, TypeOK, Registered, Owners, OwnPC, MutexInv, CallsAreSound
  <2>2. CallsAreSound'
    BY <1>3 DEF SendWait, TypeOK, MutexInv, CallsAreSound
  <2> QED
    BY <2>1, <2>2, QuietStep
<1>4. CASE WaitReturns(t)
  <2>1. lock' = lock /\ Registered' = Registered /\ Owners' = Owners
    BY <1>4 DEF WaitReturns, TypeOK, Registered, Owners, OwnPC, MutexInv, CallsAreSound
  <2>2. CallsAreSound'
    BY <1>4 DEF WaitReturns, TypeOK, MutexInv, CallsAreSound
  <2> QED
    BY <2>1, <2>2, QuietStep
<1>5. CASE Reload(t)
  <2>1. lock' = lock /\ Registered' = Registered /\ Owners' = Owners
    BY <1>5 DEF Reload, TypeOK, Registered, Owners, OwnPC, MutexInv, CallsAreSound
  <2>2. CallsAreSound'
    BY <1>5 DEF Reload, TypeOK, MutexInv, CallsAreSound, ClearOwner, LockValue
  <2> QED
    BY <2>1, <2>2, QuietStep
<1>6. CASE StartTrylock(t)
  <2>1. lock' = lock /\ Registered' = Registered /\ Owners' = Owners
    BY <1>6 DEF StartTrylock, TypeOK, Registered, Owners, OwnPC, MutexInv, CallsAreSound
  <2>2. CallsAreSound'
    BY <1>6 DEF StartTrylock, TypeOK, MutexInv, CallsAreSound, ZeroLock
  <2> QED
    BY <2>1, <2>2, QuietStep
<1>7. CASE FinishLocked(t)
  <2>1. lock' = lock /\ Registered' = Registered /\ Owners' = Owners
    BY <1>7 DEF FinishLocked, TypeOK, Registered, Owners, OwnPC, MutexInv, CallsAreSound
  <2>2. CallsAreSound'
    BY <1>7 DEF FinishLocked, TypeOK, MutexInv, CallsAreSound
  <2> QED
    BY <2>1, <2>2, QuietStep
<1>8. CASE FinishWaiter(t)
  <2>1. lock' = lock /\ Registered' = Registered /\ Owners' = Owners
    BY <1>8 DEF FinishWaiter, TypeOK, Registered, Owners, OwnPC, MutexInv, CallsAreSound
  <2>2. CallsAreSound'
    BY <1>8 DEF FinishWaiter, TypeOK, MutexInv, CallsAreSound
  <2> QED
    BY <2>1, <2>2, QuietStep
<1>9. CASE FinishAttempt(t)
  <2>1. lock' = lock /\ Registered' = Registered /\ Owners' = Owners
    BY <1>9 DEF FinishAttempt, TypeOK, Registered, Owners, OwnPC, MutexInv, CallsAreSound
  <2>2. CallsAreSound'
    BY <1>9 DEF FinishAttempt, TypeOK, MutexInv, CallsAreSound
  <2> QED
    BY <2>1, <2>2, QuietStep
<1>10. CASE UnlockCheck(t)
  <2>1. lock' = lock /\ Registered' = Registered /\ Owners' = Owners
    BY <1>10 DEF UnlockCheck, TypeOK, Registered, Owners, OwnPC, MutexInv, CallsAreSound
  <2>2. CallsAreSound'
    BY <1>10, <1>t DEF UnlockCheck, TypeOK, MutexInv, CallsAreSound
  <2> QED
    BY <2>1, <2>2, QuietStep
<1>11. CASE UnlockStart(t)
  <2>1. lock' = lock /\ Registered' = Registered /\ Owners' = Owners
    BY <1>11 DEF UnlockStart, TypeOK, Registered, Owners, OwnPC, MutexInv, CallsAreSound
  <2>2. CallsAreSound'
    BY <1>11 DEF UnlockStart, TypeOK, MutexInv, CallsAreSound
  <2> QED
    BY <2>1, <2>2, QuietStep
<1>12. CASE SendWake(t)
  <2>1. lock' = lock /\ Registered' = Registered /\ Owners' = Owners
    BY <1>12 DEF SendWake, TypeOK, Registered, Owners, OwnPC, MutexInv, CallsAreSound
  <2>2. CallsAreSound'
    BY <1>12 DEF SendWake, TypeOK, MutexInv, CallsAreSound, ZeroLock
  <2> QED
    BY <2>1, <2>2, QuietStep
<1>13. CASE WakeReturns(t)
  <2>1. lock' = lock /\ Registered' = Registered /\ Owners' = Owners
    BY <1>13 DEF WakeReturns, TypeOK, Registered, Owners, OwnPC, MutexInv, CallsAreSound
  <2>2. CallsAreSound'
    BY <1>13 DEF WakeReturns, TypeOK, MutexInv, CallsAreSound
  <2> QED
    BY <2>1, <2>2, QuietStep
<1>14. CASE UnlockFinish(t)
  <2>1. lock' = lock /\ Registered' = Registered /\ Owners' = Owners
    BY <1>14 DEF UnlockFinish, TypeOK, Registered, Owners, OwnPC, MutexInv, CallsAreSound
  <2>2. CallsAreSound'
    BY <1>14 DEF UnlockFinish, TypeOK, MutexInv, CallsAreSound
  <2> QED
    BY <2>1, <2>2, QuietStep
<1>15. CASE UnlockEnd(t)
  <2>1. lock' = lock /\ Registered' = Registered /\ Owners' = Owners
    BY <1>15 DEF UnlockEnd, TypeOK, Registered, Owners, OwnPC, MutexInv, CallsAreSound
  <2>2. CallsAreSound'
    BY <1>15 DEF UnlockEnd, TypeOK, MutexInv, CallsAreSound
  <2> QED
    BY <2>1, <2>2, QuietStep
<1> QED
  BY <1>1, <1>2, <1>3, <1>4, <1>5, <1>6, <1>7, <1>8, <1>9, <1>10, <1>11, <1>12, <1>13, <1>14, <1>15
     DEF FinishLock

\* Steps that leave the lock word alone because what they found in it was not
\* what they expected.
LEMMA MutexInvFailSteps ==
    ASSUME TypeOK, MutexInv, FewThreads, NEW t \in Thread,
           \/ TryLockFail(t) \/ RegisterFull(t) \/ RegisterFail(t)
           \/ TrylockFail(t)
    PROVE  MutexInv'
<1> USE DEF Goto, Return, Observe
<1>u. ~is_mtx_unrecoverable(lock)
  BY DEF MutexInv, is_mtx_unrecoverable
<1>1. CASE TryLockFail(t)
  <2>0. /\ lock' = lock /\ pc[t] = "try"
        /\ Observe(t, IF notified[t] THEN ZeroLock ELSE lock)
        /\ Goto(t, IF notified[t] THEN "wait" ELSE "reg")
        /\ UNCHANGED <<notified, retval, unrecoverable>>
    BY <1>1, <1>u DEF TryLockFail
  <2>1. Registered' = Registered /\ Owners' = Owners
    BY <2>0 DEF TypeOK, Registered, Owners, OwnPC
  <2>2. ~notified[t] => lock.nwaiter < Cardinality(Thread)
    BY <2>0, RegisteredCount DEF MutexInv, WaiterCount, Registered
  <2>3. CallsAreSound'
    BY <2>0, <2>2 DEF TypeOK, MutexInv, CallsAreSound
  <2> QED
    BY <2>0, <2>1, <2>3, QuietStep
<1>2. CASE RegisterFull(t)
  <2>1. oldval[t].nwaiter < Cardinality(Thread) /\ oldval[t].nwaiter \in Nat
    BY <1>2, RadixAssumption
       DEF RegisterFull, TypeOK, LockValue, MutexInv, CallsAreSound
  <2>2. oldval[t].nwaiter = WaiterRadix - 1
    BY <1>2 DEF RegisterFull, is_mtx_waiterlist_full
  <2> QED
    BY <2>1, <2>2, RegisteredCount, RadixAssumption DEF FewThreads
<1>3. CASE RegisterFail(t)
  <2>0. /\ lock' = lock /\ pc[t] = "reg" /\ Observe(t, lock) /\ Goto(t, "reg")
        /\ UNCHANGED <<notified, retval, unrecoverable>>
    BY <1>3, <1>u DEF RegisterFail
  <2>1. Registered' = Registered /\ Owners' = Owners
    BY <2>0 DEF TypeOK, Registered, Owners, OwnPC
  <2>2. lock.nwaiter < Cardinality(Thread)
    BY <2>0, RegisteredCount
       DEF MutexInv, WaiterCount, CallsAreSound, Registered
  <2>3. CallsAreSound'
    BY <2>0, <2>2 DEF TypeOK, MutexInv, CallsAreSound
  <2> QED
    BY <2>0, <2>1, <2>3, QuietStep
<1>4. CASE TrylockFail(t)
  <2>0. /\ lock' = lock /\ pc[t] \in {"try1", "try2"}
        /\ unrecoverable' = unrecoverable
    BY <1>4 DEF TrylockFail
  <2>1. CASE pc[t] = "try1"
    <3>0. /\ Observe(t, ClearOwner(lock)) /\ Goto(t, "try2")
          /\ notified' = notified /\ retval' = retval
      BY <1>4, <1>u, <2>1 DEF TrylockFail
    <3>1. Registered' = Registered /\ Owners' = Owners
      BY <2>0, <3>0 DEF TypeOK, Registered, Owners, OwnPC
    <3>2. CallsAreSound'
      BY <2>0, <3>0 DEF TypeOK, MutexInv, CallsAreSound, ClearOwner, LockValue
    <3> QED
      BY <2>0, <3>1, <3>2, QuietStep
  <2>2. CASE pc[t] = "try2"
    <3>0. Finish(t, FALSE, "EBUSY")
      BY <1>4, <1>u, <2>2 DEF TrylockFail
    <3>1. Registered' = Registered /\ Owners' = Owners
      BY <2>0, <3>0
         DEF Finish, TypeOK, Registered, Owners, OwnPC, MutexInv, CallsAreSound
    <3>2. CallsAreSound'
      BY <2>0, <3>0 DEF Finish, TypeOK, MutexInv, CallsAreSound
    <3> QED
      BY <2>0, <3>1, <3>2, QuietStep
  <2> QED
    BY <2>0, <2>1, <2>2
<1> QED
  BY <1>1, <1>2, <1>3, <1>4

\* The swap that takes the mutex: the word was expected free, so nobody owned
\* it, and the caller leaves the waiter count if it was in it.
LEMMA MutexInvTake ==
    ASSUME TypeOK, MutexInv, NEW t \in Thread,
           TryLockSwap(t) \/ TrylockSwap(t)
    PROVE  MutexInv'
<1> DEFINE n == IF notified[t] THEN -1 ELSE 0
<1>0. /\ pc[t] \in {"try", "try1", "try2"}
      /\ lock = oldval[t] /\ lock.owner = 0 /\ lock \in LockValue
      /\ n \in Int /\ (n = 0 \/ n = -1)
  <2>1. pc[t] \in {"try", "try1", "try2"} /\ lock = oldval[t]
    BY DEF TryLockSwap, TrylockSwap
  <2>2. oldval[t].owner = 0
    BY <2>1 DEF MutexInv, CallsAreSound
  <2>3. n \in Int /\ (n = 0 \/ n = -1)
    OBVIOUS
  <2> QED
    BY <2>1, <2>2, <2>3 DEF TypeOK
<1>1. lock' = LockAdd(lock, mtx_lockval(t, 0, n))
  <2>1. CASE TryLockSwap(t)
    BY <1>0, <2>1 DEF TryLockSwap, LockIncrement
  <2>2. CASE TrylockSwap(t)
    <3>1. ~notified[t]
      BY <2>2 DEF TrylockSwap, MutexInv, CallsAreSound
    <3> QED
      BY <1>0, <2>2, <3>1 DEF TrylockSwap
  <2> QED
    BY <2>1, <2>2
<1>2. /\ Finish(t, TRUE, "0")
      /\ unrecoverable' = unrecoverable
  <2>1. LockedCode(oldval[t]) = "0"
    BY <1>0 DEF LockedCode, is_mtx_ownerdead, MutexInv
  <2> QED
    BY <2>1 DEF TryLockSwap, TrylockSwap
<1>3. /\ t \in Registered <=> notified[t]
      /\ notified[t] => Registered' = Registered \ {t}
      /\ ~notified[t] => Registered' = Registered
  BY <1>0, <1>2 DEF Registered, Finish, Goto, TypeOK
<1>4. /\ lock.nwaiter + n = Cardinality(Registered')
      /\ lock.nwaiter + n \in 0 .. WaiterRadix - 1
  <2>1. CASE notified[t]
    <3>1. Cardinality(Registered \ {t}) = Cardinality(Registered) - 1
      BY <2>1, <1>3, RegisteredCount
    <3>2. lock.nwaiter = Cardinality(Registered)
      BY DEF MutexInv, WaiterCount
    <3>3. t \in Registered /\ IsFiniteSet(Registered)
      BY <2>1, <1>3, RegisteredCount
    <3>4. Cardinality(Registered \ {t}) \in Nat
      BY <3>3, FS_RemoveElement, FS_CardinalityType
    <3>5. n = -1 /\ Registered' = Registered \ {t}
      BY <2>1, <1>3
    <3>6. lock.nwaiter \in 0 .. WaiterRadix - 1
      BY <1>0 DEF LockValue
    <3> HIDE DEF n
    <3> QED
      BY <3>1, <3>2, <3>4, <3>5, <3>6, RadixAssumption
  <2>2. CASE ~notified[t]
    BY <2>2, <1>0, <1>3, RadixAssumption DEF MutexInv, WaiterCount, LockValue
  <2> QED
    BY <2>1, <2>2
<1>5. mtx_lockval(t, 0, n) \in DeltaValue
  BY <1>0, DeltaTypes
<1>6. /\ mtx_lockval(t, 0, n).owner = t /\ mtx_lockval(t, 0, n).nwaiter = n
      /\ mtx_lockval(t, 0, n).recover = 0
  BY DEF mtx_lockval, Delta
<1>7. /\ lock.owner + t = t /\ t \in 0 .. OwnerRadix - 1
      /\ lock.recover + 0 = 0
  BY <1>0, ThreadFacts, RadixAssumption DEF MutexInv
<1> HIDE DEF n
<1>8. /\ lock'.owner = t /\ lock'.nwaiter = lock.nwaiter + n
      /\ lock'.recover = 0
  BY <1>0, <1>1, <1>4, <1>5, <1>6, <1>7, LockAddFields
<1>9. WaiterCount'
  BY <1>4, <1>8 DEF WaiterCount
<1>10. Owners' = {t}
  <2>1. Owners = {}
    BY <1>0, ThreadFacts DEF MutexInv, OwnerIsHolder, Owners
  <2>2. \A s \in Thread \ {t} : pc'[s] = pc[s] /\ retval'[s] = retval[s]
    BY <1>2 DEF Finish, Goto, Return, TypeOK
  <2>3. pc'[t] = "fin_locked" /\ retval'[t] = "0"
    BY <1>2 DEF Finish, Goto, Return, TypeOK
  <2> QED
    BY <2>1, <2>2, <2>3 DEF Owners, OwnPC
<1>11. OwnerIsHolder'
  BY <1>8, <1>10 DEF OwnerIsHolder
<1>12. CallsAreSound'
  BY <1>0, <1>2
     DEF Finish, Goto, Return, Observe, TypeOK, MutexInv, CallsAreSound
<1> QED
  BY <1>8, <1>9, <1>11, <1>12 DEF MutexInv

\* A registration counts the caller, and only it: there was room left. The
\* release of the waiter tid field touches no other field.
LEMMA MutexInvRegister ==
    ASSUME TypeOK, MutexInv, FewThreads, NEW t \in Thread,
           RegisterSwap(t) \/ RegisterRelease(t)
    PROVE  MutexInv'
<1> USE DEF Goto, Observe
<1>1. CASE RegisterSwap(t)
  <2> DEFINE v == ClearWTid(lock)
             d == mtx_lockval(0, t, 1)
  <2>0. /\ pc[t] = "reg" /\ Goto(t, "reg_flag") /\ lock' = LockAdd(v, d)
        /\ UNCHANGED <<oldval, notified, unrecoverable, retval>>
    BY <1>1 DEF RegisterSwap
  <2>1. /\ t \notin Registered /\ Registered' = Registered \cup {t}
        /\ Owners' = Owners
    BY <2>0 DEF Registered, Owners, OwnPC, TypeOK, MutexInv, CallsAreSound
  <2>2. /\ Cardinality(Registered) < Cardinality(Thread)
        /\ Cardinality(Registered') = lock.nwaiter + 1
        /\ lock.nwaiter = Cardinality(Registered)
        /\ Cardinality(Registered) \in Nat /\ Cardinality(Thread) \in Nat
    BY <2>1, RegisteredCount DEF MutexInv, WaiterCount
  <2>3. lock.nwaiter + 1 \in 0 .. WaiterRadix - 1
    BY <2>2, RadixAssumption DEF FewThreads
  <2>4. /\ v.owner = lock.owner /\ v.nwaiter = lock.nwaiter /\ v.recover = 0
        /\ lock.owner \in 0 .. OwnerRadix - 1
    BY DEF ClearWTid, TypeOK, LockValue, MutexInv
  <2>5. d.owner = 0 /\ d.nwaiter = 1 /\ d.recover = 0
    BY DEF mtx_lockval, Delta
  <2>6. v \in LockValue /\ d \in DeltaValue
    BY ClearTypes, DeltaTypes DEF TypeOK
  <2>7. /\ v.owner + d.owner = lock.owner
        /\ v.nwaiter + d.nwaiter = lock.nwaiter + 1
        /\ v.recover + d.recover = 0
    BY <2>4, <2>5, RadixAssumption
  <2> HIDE DEF v, d
  <2>8. /\ lock'.owner = lock.owner /\ lock'.nwaiter = lock.nwaiter + 1
        /\ lock'.recover = 0
    BY <2>0, <2>3, <2>4, <2>6, <2>7, LockAddFields
  <2>9. WaiterCount' /\ OwnerIsHolder'
    BY <2>1, <2>2, <2>8 DEF WaiterCount, OwnerIsHolder, MutexInv
  <2>10. CallsAreSound'
    BY <2>0 DEF TypeOK, MutexInv, CallsAreSound
  <2> QED
    BY <2>8, <2>9, <2>10 DEF MutexInv
<1>2. CASE RegisterRelease(t)
  <2> DEFINE d == Negate(mtx_lockval(0, t, 0))
  <2>0. /\ pc[t] = "reg_rel" /\ Goto(t, "try") /\ lock' = LockAdd(lock, d)
        /\ Observe(t, ClearOwner(ClearWTid(lock)))
        /\ notified' = [notified EXCEPT ![t] = TRUE]
        /\ UNCHANGED <<unrecoverable, retval>>
    BY <1>2 DEF RegisterRelease
  <2>1. Registered' = Registered /\ Owners' = Owners
    BY <2>0 DEF Registered, Owners, OwnPC, TypeOK
  <2>2. d \in DeltaValue /\ d.owner = 0 /\ d.nwaiter = 0 /\ d.recover = 0
    <3>1. d \in DeltaValue
      BY DeltaTypes
    <3>2. d.owner = -0 /\ d.nwaiter = -0 /\ d.recover = -0
      BY DEF Negate, mtx_lockval, Delta
    <3> QED
      BY <3>1, <3>2
  <2>3. /\ lock \in LockValue /\ lock.owner \in 0 .. OwnerRadix - 1
        /\ lock.nwaiter \in 0 .. WaiterRadix - 1 /\ lock.recover = 0
    BY DEF TypeOK, LockValue, MutexInv
  <2>4. /\ lock.owner + d.owner = lock.owner
        /\ lock.nwaiter + d.nwaiter = lock.nwaiter
        /\ lock.recover + d.recover = 0
    BY <2>2, <2>3
  <2> HIDE DEF d
  <2>5. /\ lock'.owner = lock.owner /\ lock'.nwaiter = lock.nwaiter
        /\ lock'.recover = 0
    BY <2>0, <2>2, <2>3, <2>4, LockAddFields
  <2>6. WaiterCount' /\ OwnerIsHolder'
    BY <2>1, <2>5 DEF WaiterCount, OwnerIsHolder, MutexInv
  <2>7. ClearOwner(ClearWTid(lock)).owner = 0
    BY DEF ClearOwner, ClearWTid, TypeOK, LockValue
  <2>8. CallsAreSound'
    BY <2>0, <2>7 DEF TypeOK, MutexInv, CallsAreSound
  <2> QED
    BY <2>5, <2>6, <2>8 DEF MutexInv
<1> QED
  BY <1>1, <1>2

\* What unlock subtracts is what lock has added.
LEMMA MutexInvGive ==
    ASSUME TypeOK, MutexInv, NEW t \in Thread, UnlockSub(t)
    PROVE  MutexInv'
<1> DEFINE d == UnlockDelta(t)
<1>0. /\ pc[t] = "unl_sub" /\ lock' = LockAdd(lock, d) /\ Return(t, "none")
      /\ Goto(t, "wake") \/ Goto(t, "unl_fin")
      /\ notified' = notified
  BY DEF UnlockSub
<1>1. ~unrecoverable[t] /\ retval[t] = "0"
  BY <1>0 DEF MutexInv, CallsAreSound
<1>2. t \in Owners
  BY <1>0, <1>1 DEF Owners, OwnPC
<1>3. lock.owner = t /\ Owners = {t}
  BY <1>2 DEF MutexInv, OwnerIsHolder
<1>4. /\ d.owner = 0 - t /\ d.nwaiter = 0 /\ d.recover = 0
      /\ d \in DeltaValue
  <2>1. d = Delta(0, 0, 0, 0 - t)
    BY <1>1 DEF UnlockDelta
  <2> QED
    BY <2>1, DeltaTypes DEF Delta
<1>5. /\ lock \in LockValue /\ lock.nwaiter \in 0 .. WaiterRadix - 1
      /\ lock.recover = 0 /\ t \in Int
  BY ThreadFacts DEF TypeOK, LockValue, MutexInv
<1>6. /\ lock.owner + d.owner = 0 /\ lock.nwaiter + d.nwaiter = lock.nwaiter
      /\ lock.recover + d.recover = 0
  BY <1>3, <1>4, <1>5
<1> HIDE DEF d
<1>7. /\ lock'.owner = 0 /\ lock'.nwaiter = lock.nwaiter
      /\ lock'.recover = 0
  BY <1>0, <1>4, <1>5, <1>6, LockAddFields, ThreadFacts
<1>8. Registered' = Registered
  BY <1>0 DEF Goto, Registered, TypeOK
<1>9. Owners' = {}
  <2>1. pc'[t] \notin OwnPC
    BY <1>0 DEF Goto, TypeOK, OwnPC
  <2>2. \A s \in Thread \ {t} : pc'[s] = pc[s] /\ retval'[s] = retval[s]
    BY <1>0 DEF Goto, Return, TypeOK
  <2> QED
    BY <1>3, <2>1, <2>2 DEF Owners
<1>10. WaiterCount' /\ OwnerIsHolder'
  BY <1>7, <1>8, <1>9 DEF WaiterCount, OwnerIsHolder, MutexInv
<1>11. \A s \in Thread : ~unrecoverable'[s]
  BY <1>1 DEF UnlockSub, TypeOK, MutexInv, CallsAreSound
<1>12. CallsAreSound'
  <2>1. \A s \in Thread \ {t} : /\ pc'[s] = pc[s] /\ retval'[s] = retval[s]
                                /\ oldval'[s] = oldval[s]
    BY <1>0 DEF UnlockSub, Goto, Return, Observe, TypeOK
  <2>2. pc'[t] \in {"wake", "unl_fin"} /\ retval'[t] = "none"
    BY <1>0 DEF Goto, Return, TypeOK
  <2> QED
    BY <1>0, <1>11, <2>1, <2>2 DEF MutexInv, CallsAreSound
<1> QED
  BY <1>7, <1>10, <1>12 DEF MutexInv

LEMMA MutexInvStep ==
    ASSUME FewThreads
    PROVE  TypeOK /\ MutexInv /\ [Next]_vars => MutexInv'
<1> SUFFICES ASSUME TypeOK, MutexInv, [Next]_vars PROVE MutexInv'
  OBVIOUS
<1>1. ASSUME NEW t \in Thread, Lock(t) PROVE MutexInv'
  BY <1>1, MutexInvQuietSteps, MutexInvFailSteps, MutexInvTake,
     MutexInvRegister DEF Lock
<1>2. ASSUME NEW t \in Thread, Trylock(t) PROVE MutexInv'
  BY <1>2, MutexInvQuietSteps, MutexInvFailSteps, MutexInvTake DEF Trylock
<1>3. ASSUME NEW t \in Thread, FinishLock(t) PROVE MutexInv'
  BY <1>3, MutexInvQuietSteps
<1>4. ASSUME NEW t \in Thread, Unlock(t) PROVE MutexInv'
  BY <1>4, MutexInvQuietSteps, MutexInvGive DEF Unlock
<1>5. ASSUME NEW t \in Thread, Consistent(t) PROVE MutexInv'
  BY <1>5 DEF Consistent, MutexInv, is_mtx_ownerdead
<1>6. CASE UNCHANGED <<lock, threadVars>>
  BY <1>6 DEF threadVars, MutexInv, WaiterCount, Registered, OwnerIsHolder,
              Owners, CallsAreSound
<1>7. ASSUME NEW t \in Thread, Serve(t) PROVE MutexInv'
  BY <1>6, <1>7 DEF Serve, HandleWait, HandleWake
<1>8. CASE GarbageCollect \/ Finished \/ UNCHANGED vars
  BY <1>6, <1>8 DEF GarbageCollect, Finished, vars
<1> QED
  BY <1>1, <1>2, <1>3, <1>4, <1>5, <1>7, <1>8 DEF Next, ThreadStep

\* MutexInv is inductive as long as the waiter count cannot saturate.
THEOREM MutexInvariance == ASSUME FewThreads PROVE Spec => []MutexInv
<1>1. TypeOK /\ MutexInv /\ [Next]_vars => MutexInv'
  BY MutexInvStep
<1> QED
  BY <1>1, InitMutexInv, TypeCorrect, PTL DEF Spec

\* pshared_mtx_lock() and pshared_mtx_trylock() never let two threads own the
\* mutex, for any number of threads below 2^8, the capacity of the waiter
\* count, and any sequence of calls.
THEOREM MutualExclusionHolds ==
    ASSUME FewThreads PROVE Spec => []MutualExclusion
<1>1. MutexInv => MutualExclusion
  BY DEF MutexInv, OwnerIsHolder, MutualExclusion
<1> QED
  BY <1>1, MutexInvariance, PTL

\* The waiter count of the lock word is exact, under the same hypothesis.
THEOREM WaiterCountExact == ASSUME FewThreads PROVE Spec => []WaiterCount
<1>1. MutexInv => WaiterCount
  BY DEF MutexInv
<1> QED
  BY <1>1, MutexInvariance, PTL

-----------------------------------------------------------------------------
(***************************************************************************)
(* Refinement of AbstractMutex                                             *)
(***************************************************************************)
StatusMap == [t \in Thread |-> StatusOf(t)]

\* A step of thread t moves at most the status of t.
LEMMA StatusMoves ==
    ASSUME NEW t \in Thread,
           \A s \in Thread \ {t} : pc'[s] = pc[s] /\ retval'[s] = retval[s]
    PROVE  StatusMap' = [StatusMap EXCEPT ![t] = StatusOf(t)']
<1>1. \A s \in Thread \ {t} : StatusOf(s)' = StatusOf(s)
  BY DEF StatusOf, Owners
<1> QED
  BY <1>1 DEF StatusMap

\* The steps inside a call that do not decide its result do not show.
LEMMA StutteringSteps ==
    ASSUME TypeOK, MutexInv, NEW t \in Thread,
           \/ RegisterFlag(t) \/ SendWait(t) \/ WaitReturns(t) \/ Reload(t)
           \/ RegisterFull(t) \/ RegisterSwap(t) \/ RegisterFail(t)
           \/ RegisterRelease(t) \/ TryLockFail(t) \/ FinishLock(t)
           \/ UnlockCheck(t) \/ UnlockStart(t) \/ SendWake(t) \/ WakeReturns(t)
           \/ UnlockFinish(t) \/ UnlockEnd(t)
    PROVE  StatusMap' = StatusMap
<1>u. ~is_mtx_unrecoverable(lock)
  BY DEF MutexInv, is_mtx_unrecoverable
<1>1. \A s \in Thread \ {t} : pc'[s] = pc[s] /\ retval'[s] = retval[s]
  BY <1>u DEF Goto, Return, TypeOK, FinishLock, RegisterFlag, SendWait, WaitReturns, Reload, FinishLocked,
     FinishWaiter, UnlockCheck, UnlockStart, SendWake, WakeReturns,
     UnlockFinish, UnlockEnd, RegisterFull, RegisterSwap, RegisterFail,
     RegisterRelease, TryLockFail, FinishAttempt
<1>2. StatusOf(t)' = StatusOf(t)
  <2> USE DEF Goto, Return, TypeOK, StatusOf, Owners, OwnPC, LockingPC
  <2>1. CASE RegisterFlag(t)
    BY <2>1 DEF RegisterFlag
  <2>2. CASE SendWait(t)
    BY <2>2 DEF SendWait
  <2>3. CASE WaitReturns(t)
    BY <2>3 DEF WaitReturns
  <2>4. CASE Reload(t)
    BY <2>4 DEF Reload
  <2>5. CASE FinishLocked(t)
    BY <2>5 DEF FinishLocked
  <2>6. CASE FinishWaiter(t)
    BY <2>6 DEF FinishWaiter
  <2>7. CASE UnlockCheck(t)
    BY <2>7 DEF UnlockCheck
  <2>8. CASE UnlockStart(t)
    BY <2>8 DEF UnlockStart
  <2>9. CASE SendWake(t)
    BY <2>9 DEF SendWake
  <2>10. CASE WakeReturns(t)
    BY <2>10 DEF WakeReturns
  <2>11. CASE UnlockFinish(t)
    BY <2>11 DEF UnlockFinish
  <2>12. CASE UnlockEnd(t)
    BY <2>12 DEF UnlockEnd
  <2>13. CASE RegisterFull(t)
    BY <2>13 DEF RegisterFull
  <2>14. CASE RegisterSwap(t)
    BY <2>14 DEF RegisterSwap
  <2>15. CASE RegisterFail(t)
    BY <2>15, <1>u DEF RegisterFail
  <2>16. CASE RegisterRelease(t)
    BY <2>16 DEF RegisterRelease
  <2>17. CASE TryLockFail(t)
    BY <2>17, <1>u DEF TryLockFail
  <2>18. CASE FinishAttempt(t)
    BY <2>18 DEF FinishAttempt
  <2> QED
    BY <2>1, <2>2, <2>3, <2>4, <2>5, <2>6, <2>7, <2>8, <2>9,
       <2>10, <2>11, <2>12, <2>13, <2>14, <2>15, <2>16, <2>17, <2>18
       DEF FinishLock
<1>3. StatusMap \in [Thread -> {"out", "locking", "trying", "in"}]
  BY DEF StatusMap, StatusOf
<1> QED
  BY <1>1, <1>2, <1>3, StatusMoves DEF StatusMap

\* The remaining steps of a call are the steps of the abstract mutex.
LEMMA VisibleSteps ==
    ASSUME TypeOK, MutexInv, NEW t \in Thread,
           \/ StartLock(t) \/ StartTrylock(t) \/ TryLockSwap(t)
           \/ TrylockSwap(t) \/ TrylockFail(t) \/ UnlockSub(t)
    PROVE  Abstract!ANext \/ StatusMap' = StatusMap
<1> USE DEF Goto, Return, TypeOK, StatusOf, Owners, OwnPC, LockingPC
<1>u. ~is_mtx_unrecoverable(lock) /\ ~is_mtx_ownerdead(lock)
  BY DEF MutexInv, is_mtx_unrecoverable, is_mtx_ownerdead
<1>m. ASSUME NEW from, NEW to,
             StatusOf(t) = from, StatusOf(t)' = to,
             \A s \in Thread \ {t} : pc'[s] = pc[s] /\ retval'[s] = retval[s]
      PROVE  Abstract!Move(t, from, to)
  BY <1>m, StatusMoves DEF Abstract!Move, StatusMap
<1>1. CASE StartLock(t)
  <2>1. Abstract!Move(t, "out", "locking")
    BY <1>1, <1>m DEF StartLock
  <2> QED
    BY <2>1 DEF Abstract!ANext, Abstract!CallLock
<1>2. CASE StartTrylock(t)
  <2>1. Abstract!Move(t, "out", "trying")
    BY <1>2, <1>m DEF StartTrylock
  <2> QED
    BY <2>1 DEF Abstract!ANext, Abstract!CallTrylock
<1>3. CASE TryLockSwap(t) \/ TrylockSwap(t)
  <2>1. pc[t] \in {"try", "try1", "try2"} /\ lock = oldval[t]
    BY <1>3 DEF TryLockSwap, TrylockSwap
  <2>2. lock.owner = 0
    BY <2>1 DEF MutexInv, CallsAreSound
  <2>3. \A s \in Thread : StatusOf(s) # "in"
    BY <2>2, ThreadFacts DEF MutexInv, OwnerIsHolder
  <2>4. LockedCode(oldval[t]) = "0"
    BY <1>u, <2>1 DEF LockedCode
  <2>5. Finish(t, TRUE, "0")
    BY <1>3, <2>4 DEF TryLockSwap, TrylockSwap
  <2>6. /\ StatusOf(t)' = "in"
        /\ \A s \in Thread \ {t} : pc'[s] = pc[s] /\ retval'[s] = retval[s]
    BY <2>5 DEF Finish
  <2>7. StatusOf(t) = "locking" \/ StatusOf(t) = "trying"
    BY <2>1
  <2>8. Abstract!Move(t, "locking", "in") \/ Abstract!Move(t, "trying", "in")
    BY <2>6, <2>7, <1>m
  <2> QED
    BY <2>3, <2>8 DEF Abstract!ANext, Abstract!Enter
<1>4. CASE TrylockFail(t)
  <2>1. CASE pc[t] = "try1"
    <3>1. Goto(t, "try2") /\ retval' = retval
      BY <1>4, <1>u, <2>1 DEF TrylockFail
    <3>2. /\ StatusOf(t) = "trying" /\ StatusOf(t)' = "trying"
          /\ \A s \in Thread \ {t} : pc'[s] = pc[s] /\ retval'[s] = retval[s]
      BY <2>1, <3>1
    <3> QED
      BY <3>2, StatusMoves DEF StatusMap
  <2>2. CASE pc[t] = "try2"
    <3>1. Finish(t, FALSE, "EBUSY")
      BY <1>4, <1>u, <2>2 DEF TrylockFail
    <3>2. Abstract!Move(t, "trying", "out")
      BY <2>2, <3>1, <1>m DEF Finish
    <3> QED
      BY <3>2 DEF Abstract!ANext, Abstract!Busy
  <2> QED
    BY <1>4, <2>1, <2>2 DEF TrylockFail
<1>5. CASE UnlockSub(t)
  <2>1. /\ pc[t] = "unl_sub" /\ Return(t, "none")
        /\ Goto(t, "wake") \/ Goto(t, "unl_fin")
    BY <1>5 DEF UnlockSub
  <2>2. retval[t] = "0"
    BY <2>1 DEF MutexInv, CallsAreSound
  <2>3. Abstract!Move(t, "in", "out")
    BY <2>1, <2>2, <1>m
  <2> QED
    BY <2>3 DEF Abstract!ANext, Abstract!Unlock
<1> QED
  BY <1>1, <1>2, <1>3, <1>4, <1>5

\* The process shared mutex implements the abstract one: each step of a
\* thread, of the server or of its garbage collector is a step of
\* AbstractMutex or does not show in it.
THEOREM Refinement == ASSUME FewThreads PROVE Spec => ImplementsMutex
<1>1. Init => Abstract!AInit
  BY DEF Init, Abstract!AInit, StatusOf, Owners, OwnPC, LockingPC
<1>2. TypeOK /\ MutexInv /\ [Next]_vars => [Abstract!ANext]_StatusMap
  <2> SUFFICES ASSUME TypeOK, MutexInv, [Next]_vars
               PROVE  Abstract!ANext \/ StatusMap' = StatusMap
    OBVIOUS
  <2>1. ASSUME NEW t \in Thread, Lock(t) \/ Trylock(t) \/ FinishLock(t)
                                         \/ Unlock(t)
        PROVE  Abstract!ANext \/ StatusMap' = StatusMap
    BY <2>1, StutteringSteps, VisibleSteps DEF Lock, Trylock, Unlock
  <2>2. ASSUME NEW t \in Thread, Consistent(t) PROVE FALSE
    BY <2>2 DEF Consistent, MutexInv, is_mtx_ownerdead
  <2>3. CASE UNCHANGED threadVars
    BY <2>3 DEF threadVars, StatusMap, StatusOf, Owners
  <2>4. ASSUME NEW t \in Thread, Serve(t) PROVE UNCHANGED threadVars
    BY <2>4 DEF Serve, HandleWait, HandleWake
  <2>5. CASE GarbageCollect \/ Finished \/ UNCHANGED vars
    BY <2>3, <2>5 DEF GarbageCollect, Finished, vars
  <2> QED
    BY <2>1, <2>2, <2>3, <2>4, <2>5 DEF Next, ThreadStep
<1> QED
  BY <1>1, <1>2, TypeCorrect, MutexInvariance, PTL
     DEF Spec, ImplementsMutex, Abstract!ASpec, StatusMap

-----------------------------------------------------------------------------
(***************************************************************************)
(* The accounts of the referee                                             *)
(***************************************************************************)
WaiterRec == [tc : Thread, wakeup_val : {1}]

\* One transaction at a time in the pipe of a thread: a request that the server
\* has not read, or its answer, or a WAIT that is not answered yet.
PipeInv(t) ==
    \/ pc[t] = "waiting" /\ req[t] = WaitReq /\ resp[t] = <<>>
    \/ pc[t] = "waiting" /\ req[t] = NoReq /\ resp[t] = <<"WAIT">>
    \/ pc[t] = "waiting" /\ req[t] = NoReq /\ resp[t] = <<>>
    \/ pc[t] = "waking" /\ req[t].opcode = "WAKE" /\ resp[t] = <<>>
    \/ pc[t] = "waking" /\ req[t] = NoReq /\ resp[t] = <<"WAKE">>
    \/ pc[t] \notin {"waiting", "waking"} /\ req[t] = NoReq /\ resp[t] = <<>>

\* The queue holds each thread asleep once, and nwaiter is its length or a debt.
QueueInv ==
    /\ lk \in [nwaiter : Int, max_wakeup_val : Int, waiters_queue : Seq(WaiterRec)]
    /\ \A i, j \in DOMAIN lk.waiters_queue :
          lk.waiters_queue[i].tc = lk.waiters_queue[j].tc => i = j
    /\ Sleepers(lk) = Asleep
    /\ lk.nwaiter > 0  => Len(lk.waiters_queue) = lk.nwaiter
    /\ lk.nwaiter <= 0 => lk.waiters_queue = <<>>
    /\ lk.nwaiter < 0  => lk.max_wakeup_val >= 1

RefereeInv == QueueInv /\ \A t \in Thread : PipeInv(t)

\* The steps of a thread that are no half of a transaction leave the pipes and
\* the lock of the server alone, and begin and end outside of a transaction.
LEMMA RefereeQuiet ==
    ASSUME TypeOK, RefereeInv, UNCHANGED refereeVars, pc' \in [Thread -> PC],
           \A u \in Thread : pc'[u] = pc[u] \/ {pc[u], pc'[u]} \cap {"waiting", "waking"} = {}
    PROVE  RefereeInv'
<1>1. lk' = lk /\ req' = req /\ resp' = resp
  BY DEF refereeVars
<1>2. \A u \in Thread : PipeInv(u)'
  BY <1>1 DEF RefereeInv, PipeInv
<1>3. Asleep' = Asleep
  BY <1>1 DEF Asleep
<1> QED
  BY <1>1, <1>2, <1>3 DEF RefereeInv, QueueInv

\* Sending a request, and reading its answer.
LEMMA RefereeTransactions ==
    ASSUME TypeOK, RefereeInv, NEW t \in Thread,
           SendWait(t) \/ WaitReturns(t) \/ SendWake(t) \/ WakeReturns(t)
    PROVE  RefereeInv'
<1>1. PipeInv(t) /\ WaitReq # NoReq /\ WaitReq.opcode # "WAKE"
  BY DEF RefereeInv, WaitReq, NoReq
<1>2. \A u \in Thread \ {t} : pc'[u] = pc[u] /\ req'[u] = req[u] /\ resp'[u] = resp[u]
  BY DEF TypeOK, SendWait, WaitReturns, SendWake, WakeReturns, Goto
<1>3. \A u \in Thread \ {t} : PipeInv(u)'
  BY <1>2 DEF RefereeInv, PipeInv
<1>4. lk' = lk
  BY DEF SendWait, WaitReturns, SendWake, WakeReturns
<1>5. PipeInv(t)' /\ t \notin Asleep /\ t \notin Asleep'
  <2>1. CASE SendWait(t)
    BY <1>1, <2>1 DEF TypeOK, SendWait, Goto, PipeInv, Asleep
  <2>2. CASE WaitReturns(t)
    <3>1. resp[t] = <<"WAIT">> /\ req[t] = NoReq
      BY <1>1, <2>2 DEF WaitReturns, PipeInv
    <3>2. Tail(resp[t]) = <<>>
      BY <3>1
    <3> QED
      BY <2>2, <3>1, <3>2 DEF TypeOK, WaitReturns, Goto, PipeInv, Asleep
  <2>3. CASE SendWake(t)
    BY <1>1, <2>3 DEF TypeOK, SendWake, Goto, PipeInv, Asleep, WakeReq, NoReq, WaitReq
  <2>4. CASE WakeReturns(t)
    <3>1. resp[t] = <<"WAKE">> /\ req[t] = NoReq
      BY <1>1, <2>4 DEF WakeReturns, PipeInv
    <3>2. Tail(resp[t]) = <<>>
      BY <3>1
    <3> QED
      BY <2>4, <3>1, <3>2 DEF TypeOK, WakeReturns, Goto, PipeInv, Asleep
  <2> QED
    BY <2>1, <2>2, <2>3, <2>4
<1>6. Asleep' = Asleep
  BY <1>2, <1>5 DEF Asleep
<1> QED
  BY <1>3, <1>4, <1>5, <1>6 DEF RefereeInv, QueueInv

\* A WAIT is answered at once exactly if there is a wake-up in the bank.
LEMMA RefereeWait ==
    ASSUME TypeOK, RefereeInv, NEW t \in Thread, HandleWait(t)
    PROVE  RefereeInv'
<1> DEFINE q == lk.waiters_queue
           w == Waiter(t, 1)
<1>1. pc[t] = "waiting" /\ req[t] = WaitReq /\ resp[t] = <<>> /\ WaitReq # NoReq
  BY DEF HandleWait, RefereeInv, PipeInv, NoReq, WaitReq
<1>2. pc' = pc /\ req' = [req EXCEPT ![t] = NoReq]
  BY DEF HandleWait, threadVars
<1>3. q \in Seq(WaiterRec) /\ w \in WaiterRec /\ w.tc = t
  BY DEF RefereeInv, QueueInv, Waiter, WaiterRec
<1>4. t \notin Asleep /\ Sleepers(lk) = Asleep
  BY <1>1 DEF Asleep, RefereeInv, QueueInv
<1>5. CASE WokenInAdvance(lk, 1)
  <2>1. resp' = [u \in Thread |-> IF u = t THEN <<"WAIT">> ELSE resp[u]]
    <3>1. Append(<<>>, "WAIT") = <<"WAIT">>
      OBVIOUS
    <3>2. resp' = [u \in Thread |-> IF u = t THEN Append(resp[u], "WAIT") ELSE resp[u]]
      BY <1>5 DEF HandleWait, Answer
    <3> QED
      BY <1>1, <3>1, <3>2
  <2>2. \A u \in Thread : PipeInv(u)'
    BY <1>1, <1>2, <2>1 DEF RefereeInv, PipeInv, TypeOK
  <2>3. Asleep' = Asleep
    BY <1>1, <1>2, <2>1 DEF Asleep, TypeOK
  <2>4. lk' = [nwaiter |-> lk.nwaiter + 1, max_wakeup_val |-> lk.max_wakeup_val,
               waiters_queue |-> q]
    BY <1>5 DEF HandleWait, lock_add_waiter
  <2>5. lk.nwaiter \in Int /\ lk.nwaiter < 0 /\ lk.max_wakeup_val \in Int
    BY <1>5 DEF WokenInAdvance, TypeOK
  <2>6. q = <<>> /\ lk.max_wakeup_val >= 1
    BY <2>5 DEF RefereeInv, QueueInv
  <2>7. lk' \in [nwaiter : Int, max_wakeup_val : Int, waiters_queue : Seq(WaiterRec)]
    BY <1>3, <2>4, <2>5
  <2>8. lk'.waiters_queue = q /\ lk'.nwaiter <= 0 /\ lk'.max_wakeup_val >= 1
        /\ lk'.nwaiter \in Int
    BY <2>4, <2>5, <2>6
  <2>9. Sleepers(lk') = Asleep'
    BY <1>4, <2>3, <2>8 DEF Sleepers
  <2> QED
    BY <2>2, <2>6, <2>7, <2>8, <2>9 DEF RefereeInv, QueueInv
<1>6. CASE ~WokenInAdvance(lk, 1)
  <2>1. resp' = resp
    BY <1>6 DEF HandleWait, Answer, TypeOK
  <2>2. \A u \in Thread : PipeInv(u)'
    BY <1>1, <1>2, <2>1 DEF RefereeInv, PipeInv, TypeOK
  <2>3. Asleep' = Asleep \cup {t}
    BY <1>1, <1>2, <2>1 DEF Asleep, TypeOK
  <2>4. lk' = [nwaiter |-> lk.nwaiter + 1, max_wakeup_val |-> lk.max_wakeup_val,
               waiters_queue |-> Append(q, w)]
    BY <1>6 DEF HandleWait, lock_add_waiter
  <2>5. lk.nwaiter \in Int /\ lk.nwaiter >= 0 /\ lk.max_wakeup_val \in Int
    BY <1>6 DEF WokenInAdvance, RefereeInv, QueueInv
  <2> HIDE DEF w
  <2>6. /\ Append(q, w) \in Seq(WaiterRec) /\ Len(Append(q, w)) = Len(q) + 1
        /\ \A i \in 1 .. Len(q) : Append(q, w)[i] = q[i]
        /\ Append(q, w)[Len(q) + 1] = w
    BY <1>3, AppendProperties
  <2>7. Len(q) = lk.nwaiter
    BY <2>5 DEF RefereeInv, QueueInv
  <2>8. DOMAIN Append(q, w) = 1 .. Len(q) + 1 /\ DOMAIN q = 1 .. Len(q) /\ Len(q) \in Nat
    BY <1>3, <2>6
  <2>9. \A i \in DOMAIN q : q[i].tc # t
    BY <1>4 DEF Sleepers
  <2>10. \A i \in 1 .. Len(q) + 1 : i \in 1 .. Len(q) \/ i = Len(q) + 1
    BY <2>8
  <2>11. lk'.waiters_queue = Append(q, w)
    BY <2>4
  <2>12. Sleepers(lk') = Asleep \cup {t}
    <3>1. {Append(q, w)[i].tc : i \in 1 .. Len(q) + 1} = {q[i].tc : i \in 1 .. Len(q)} \cup {t}
      BY <1>3, <2>6, <2>8, <2>10
    <3>2. Sleepers(lk) = {q[i].tc : i \in 1 .. Len(q)}
      BY <2>8 DEF Sleepers
    <3>3. Sleepers(lk') = {Append(q, w)[i].tc : i \in 1 .. Len(q) + 1}
      BY <2>8, <2>11 DEF Sleepers
    <3> QED
      BY <1>4, <3>1, <3>2, <3>3
  <2>13. \A i, j \in 1 .. Len(q) + 1 : Append(q, w)[i].tc = Append(q, w)[j].tc => i = j
    BY <1>3, <2>6, <2>8, <2>9, <2>10 DEF RefereeInv, QueueInv
  <2> HIDE DEF q
  <2>14. /\ lk' \in [nwaiter : Int, max_wakeup_val : Int, waiters_queue : Seq(WaiterRec)]
         /\ lk'.nwaiter = Len(lk'.waiters_queue) /\ lk'.nwaiter > 0
    BY <2>4, <2>5, <2>6, <2>7
  <2> QED
    BY <2>2, <2>3, <2>8, <2>11, <2>12, <2>13, <2>14 DEF RefereeInv, QueueInv
<1> QED
  BY <1>5, <1>6

\* A wake-up is given to the first threads of the queue, each of which is
\* asleep, and what is left of it goes to the bank.
LEMMA RefereeWake ==
    ASSUME TypeOK, RefereeInv, NEW t \in Thread, HandleWake(t)
    PROVE  RefereeInv'
<1> DEFINE q == lk.waiters_queue
           num == req[t].num_wakeup
           gone == ToWake(q, num, 1)
           stay == Stay(q, gone)
           woken == WokenBy(lk, num, 1)
           u == Unlink(q, gone)
<1>1. pc[t] = "waking" /\ resp[t] = <<>> /\ num \in Nat
  BY DEF HandleWake, RefereeInv, PipeInv, NoReq, WaitReq, TypeOK
<1>2. pc' = pc /\ req' = [req EXCEPT ![t] = NoReq]
  BY DEF HandleWake, threadVars
<1>3. q \in Seq(WaiterRec) /\ DOMAIN q = 1 .. Len(q) /\ Len(q) \in Nat
  BY DEF RefereeInv, QueueInv
<1>4. Sleepers(lk) = Asleep /\ \A i, j \in DOMAIN q : q[i].tc = q[j].tc => i = j
  BY DEF RefereeInv, QueueInv
<1>5. gone \in SUBSET DOMAIN q /\ woken = {q[i].tc : i \in gone}
  BY DEF ToWake, Eligible, WokenBy
<1>6. Cardinality(Eligible(q, 1)) = Len(q)
  <2> HIDE DEF q
  <2>1. \A i \in DOMAIN q : q[i].wakeup_val = 1
    <3>1. \A i \in DOMAIN q : q[i] \in WaiterRec
      BY <1>3
    <3> QED
      BY <3>1 DEF WaiterRec
  <2>2. Eligible(q, 1) = DOMAIN q
    BY <2>1 DEF Eligible
  <2> QED
    BY <1>3, <2>2, SeqDomainSize
<1>7. Cardinality(gone) = IF num <= Len(q) THEN num ELSE Len(q)
  BY <1>1, <1>3, <1>6, WakeCount
<1> HIDE DEF gone, woken, num
<1>8. /\ u \in Seq(WaiterRec) /\ Len(u) = Len(q) - Cardinality(gone)
      /\ \A k \in DOMAIN u : \E i \in stay : Rank(stay, i) = k /\ u[k] = q[i]
      /\ \A i \in stay : Rank(stay, i) \in DOMAIN u /\ u[Rank(stay, i)] = q[i]
  <2> HIDE DEF q
  <2> QED
    BY <1>3, <1>5, UnlinkEntries
<1>9. lk' = [nwaiter |-> lk.nwaiter - num,
             max_wakeup_val |-> IF lk.max_wakeup_val < 1 THEN 1 ELSE lk.max_wakeup_val,
             waiters_queue |-> u]
  BY DEF HandleWake, lock_wake_waiters, gone, num
<1> HIDE DEF u
<1>10. lk'.waiters_queue = u /\ lk'.nwaiter = lk.nwaiter - num /\ lk.nwaiter \in Int
       /\ lk' \in [nwaiter : Int, max_wakeup_val : Int, waiters_queue : Seq(WaiterRec)]
       /\ lk'.max_wakeup_val >= 1
  <2>1. lk.nwaiter \in Int /\ lk.max_wakeup_val \in Int
    BY DEF TypeOK
  <2> QED
    BY <1>1, <1>8, <1>9, <2>1
<1>11. \A i, j \in DOMAIN u : u[i].tc = u[j].tc => i = j
  <2>1. stay \in SUBSET DOMAIN q
    BY DEF Stay
  <2> HIDE DEF stay, q
  <2> QED
    BY <1>4, <1>8, <2>1
<1>12. Sleepers(lk') = Asleep \ woken
  <2>1. Sleepers(lk') = {u[k].tc : k \in DOMAIN u}
    BY <1>10 DEF Sleepers
  <2>2. {u[k].tc : k \in DOMAIN u} = {q[i].tc : i \in stay}
    <3> HIDE DEF stay, q
    <3>1. \A k \in DOMAIN u : \E i \in stay : u[k] = q[i]
      BY <1>8
    <3>2. \A i \in stay : \E k \in DOMAIN u : u[k] = q[i]
      BY <1>8
    <3> QED
      BY <3>1, <3>2
  <2>3. {q[i].tc : i \in stay} = {q[i].tc : i \in DOMAIN q} \ {q[i].tc : i \in gone}
    BY <1>4, <1>5 DEF Stay
  <2>4. Sleepers(lk) = {q[i].tc : i \in DOMAIN q}
    BY DEF Sleepers
  <2> QED
    BY <1>4, <1>5, <2>1, <2>2, <2>3, <2>4
<1>13. woken \in SUBSET Asleep /\ t \notin woken
  <2>1. woken \in SUBSET Asleep
    BY <1>4, <1>5 DEF Sleepers
  <2> QED
    BY <1>1, <2>1 DEF Asleep
<1>14. resp' = [v \in Thread |-> IF v = t THEN <<"WAKE">>
                                ELSE IF v \in woken THEN <<"WAIT">> ELSE resp[v]]
  <2>1. Append(<<>>, "WAIT") = <<"WAIT">> /\ Append(<<>>, "WAKE") = <<"WAKE">>
    OBVIOUS
  <2>2. resp' = [v \in Thread |-> IF v = t THEN
                      Append(IF v \in woken THEN Append(resp[v], "WAIT") ELSE resp[v], "WAKE")
                    ELSE IF v \in woken THEN Append(resp[v], "WAIT") ELSE resp[v]]
    BY DEF HandleWake, Answer, woken, num
  <2>3. \A v \in woken : resp[v] = <<>>
    BY <1>13 DEF Asleep
  <2> QED
    BY <1>1, <1>13, <2>1, <2>2, <2>3
<1>15. \A v \in Thread : PipeInv(v)'
  <2>1. ASSUME NEW v \in woken PROVE PipeInv(v)'
    BY <1>2, <1>13, <1>14, <2>1 DEF Asleep, PipeInv, TypeOK
  <2>2. PipeInv(t)'
    BY <1>1, <1>2, <1>14 DEF PipeInv, TypeOK
  <2>3. ASSUME NEW v \in Thread \ (woken \cup {t}) PROVE PipeInv(v)'
    BY <1>2, <1>14, <2>3 DEF RefereeInv, PipeInv, TypeOK
  <2> QED
    BY <2>1, <2>2, <2>3
<1>16. Asleep' = Asleep \ woken
  BY <1>1, <1>2, <1>13, <1>14 DEF Asleep, TypeOK
<1>17. /\ lk'.nwaiter > 0  => Len(u) = lk'.nwaiter
       /\ lk'.nwaiter <= 0 => Len(u) = 0
  <2>1. /\ lk.nwaiter > 0  => Len(q) = lk.nwaiter
        /\ lk.nwaiter <= 0 => Len(q) = 0
    BY DEF RefereeInv, QueueInv
  <2>2. Len(u) = Len(q) - Cardinality(gone)
    BY <1>8
  <2>3. lk'.nwaiter = lk.nwaiter - num /\ lk.nwaiter \in Int
    BY <1>10
  <2>4. Len(q) \in Nat
    BY <1>3
  <2> HIDE DEF q
  <2> QED
    BY <1>1, <1>7, <2>1, <2>2, <2>3, <2>4
<1>18. Len(u) = 0 => u = <<>>
  BY <1>8
<1> QED
  BY <1>10, <1>11, <1>12, <1>15, <1>16, <1>17, <1>18 DEF RefereeInv, QueueInv

\* Every step of the threads and of the server keeps the accounts.
LEMMA RefereeStep ==
    ASSUME TypeOK, TypeOK', RefereeInv, [Next]_vars
    PROVE  RefereeInv'
<1>1. CASE UNCHANGED refereeVars /\ UNCHANGED pc
  BY <1>1, RefereeQuiet DEF TypeOK
<1>2. ASSUME NEW t \in Thread, Lock(t) PROVE RefereeInv'
  <2>1. CASE SendWait(t) \/ WaitReturns(t)
    BY <2>1, RefereeTransactions
  <2>2. CASE ~(SendWait(t) \/ WaitReturns(t))
    BY <1>2, <2>2, RefereeQuiet DEF Lock, TypeOK, StartLock, TryLockSwap, TryLockFail,
       RegisterFull, RegisterSwap, RegisterFail, RegisterFlag, RegisterRelease,
       Reload, Goto, Finish
  <2> QED
    BY <2>1, <2>2
<1>3. ASSUME NEW t \in Thread, Trylock(t) \/ FinishLock(t) PROVE RefereeInv'
  BY <1>3, RefereeQuiet DEF Trylock, FinishLock, TypeOK, StartTrylock, TrylockSwap,
     TrylockFail, FinishLocked, FinishWaiter, FinishAttempt, Goto, Finish
<1>4. ASSUME NEW t \in Thread, Unlock(t) PROVE RefereeInv'
  <2>1. CASE SendWake(t) \/ WakeReturns(t)
    BY <2>1, RefereeTransactions
  <2>2. CASE ~(SendWake(t) \/ WakeReturns(t))
    BY <1>4, <2>2, RefereeQuiet DEF Unlock, TypeOK, UnlockCheck, UnlockStart, UnlockSub,
       UnlockFinish, UnlockEnd, Goto
  <2> QED
    BY <2>1, <2>2
<1>5. ASSUME NEW t \in Thread, Consistent(t) PROVE RefereeInv'
  BY <1>1, <1>5 DEF Consistent, threadVars
<1>6. ASSUME NEW t \in Thread, Serve(t) PROVE RefereeInv'
  BY <1>6, RefereeWait, RefereeWake DEF Serve
<1>7. CASE GarbageCollect
  <2>1. lk' = lock_init /\ pc' = pc /\ req' = req /\ resp' = resp
        /\ lk.waiters_queue = <<>>
    BY <1>7 DEF GarbageCollect, threadVars, lock_is_unused
  <2>2. lk'.nwaiter = 0 /\ lk'.waiters_queue = <<>> /\ Sleepers(lk') = {}
        /\ lk' \in [nwaiter : Int, max_wakeup_val : Int, waiters_queue : Seq(WaiterRec)]
    BY <2>1 DEF lock_init, Sleepers
  <2>3. Asleep' = Asleep /\ Asleep = {}
    BY <2>1 DEF Asleep, RefereeInv, QueueInv, Sleepers
  <2>4. \A t \in Thread : PipeInv(t)'
    BY <2>1 DEF RefereeInv, PipeInv
  <2> QED
    BY <2>2, <2>3, <2>4 DEF RefereeInv, QueueInv
<1>8. CASE Finished \/ UNCHANGED vars
  BY <1>1, <1>8 DEF Finished, vars, threadVars
<1> QED
  BY <1>2, <1>3, <1>4, <1>5, <1>6, <1>7, <1>8 DEF Next, ThreadStep

\* The referee keeps its accounts, for any number of threads and of wake-ups: a
\* wake-up goes to a thread that is asleep or into the bank, from which the
\* next WAIT can claim it, and is neither lost nor given twice.
THEOREM RefereeAccountsExact == Spec => []RefereeAccounting
<1>1. Init => RefereeInv
  <2>1. SUFFICES ASSUME Init PROVE RefereeInv
    OBVIOUS
  <2>2. lk.nwaiter = 0 /\ lk.waiters_queue = <<>> /\ Sleepers(lk) = {}
        /\ lk \in [nwaiter : Int, max_wakeup_val : Int, waiters_queue : Seq(WaiterRec)]
    BY <2>1 DEF Init, lock_init, Sleepers
  <2>3. Asleep = {}
    BY <2>1 DEF Init, Asleep
  <2>4. \A t \in Thread : PipeInv(t)
    BY <2>1 DEF Init, PipeInv
  <2> QED
    BY <2>2, <2>3, <2>4 DEF RefereeInv, QueueInv
<1>2. TypeOK /\ TypeOK' /\ RefereeInv /\ [Next]_vars => RefereeInv'
  BY RefereeStep
<1>3. RefereeInv => RefereeAccounting
  <2>1. SUFFICES ASSUME RefereeInv PROVE RefereeAccounting
    OBVIOUS
  <2> DEFINE q == lk.waiters_queue
             f == [i \in 1 .. Len(q) |-> q[i].tc]
  <2>2. q \in Seq(WaiterRec) /\ DOMAIN q = 1 .. Len(q) /\ Len(q) \in Nat
    BY <2>1 DEF RefereeInv, QueueInv
  <2>3. Asleep = {q[i].tc : i \in 1 .. Len(q)}
    BY <2>1, <2>2 DEF RefereeInv, QueueInv, Sleepers
  <2>4. f \in Bijection(1 .. Len(q), Asleep)
    BY <2>1, <2>2, <2>3 DEF Bijection, Injection, IsInjective, Surjection, RefereeInv, QueueInv
  <2>5. Cardinality(Asleep) = Len(q)
    BY <2>2, <2>4, FS_CountingElements DEF ExistsBijection
  <2> QED
    BY <2>1, <2>5 DEF RefereeAccounting, RefereeInv, QueueInv
<1> QED
  BY <1>1, <1>2, <1>3, TypeCorrect, PTL DEF Spec
=============================================================================
