--------------------------- MODULE ThreadsProofs ---------------------------
(***************************************************************************)
(* Proofs about threads on Windows, for any number of created and of other *)
(* threads and of controls, and however the routines of the controls       *)
(* initialise one another.                                                 *)
(*   Life cycle: a structure is freed once and by the last who needs it.   *)
(*   mm_thr_once(): a routine is started at most once, because the         *)
(*     recursive lock lets one thread in.                                  *)
(***************************************************************************)
EXTENDS Threads, FiniteSetTheorems, SequenceTheorems, TLAPS

\* What the two tests of the state word read, for the values it takes.
LEMMA StateBits ==
    /\ \A s \in 0 .. 3 : IsStopped(s) <=> s \in {1, 3}
    /\ \A s \in 0 .. 3 : IsDetached(s) <=> s \in {2, 3}
  BY DEF IsStopped, IsDetached

-----------------------------------------------------------------------------
(***************************************************************************)
(* A step of the life cycle concerns one thread                            *)
(***************************************************************************)
LifeStep(t) ==
    StartRoutine(t) \/ Self(t) \/ ReturnRoutine(t) \/ ExitStep(t) \/ ClientStep(t)

\* Nothing changes but the state of thread t.
OnlyOf(t) ==
    \A u \in Life \ {t} :
        /\ tpc'[u] = tpc[u] /\ cpc'[u] = cpc[u] /\ mem'[u] = mem[u]
        /\ state'[u] = state[u] /\ hnd'[u] = hnd[u] /\ handle'[u] = handle[u]
        /\ retval'[u] = retval[u] /\ joined'[u] = joined[u]

\* Every step of thread_proc_wrapper(), of the exit hook and of create, join,
\* detach and self touches the state of one thread.
LEMMA StepIsLocal ==
    ASSUME LifeTypeOK, NEW t \in Life, LifeStep(t)
    PROVE  OnlyOf(t)
  BY DEF LifeTypeOK, OnlyOf, LifeStep, ExitStep, ClientStep, Goes, Client,
     destroy_mm_thread_data, StartRoutine, Self, ReturnRoutine, StoreRetval,
     ExitHook, ExitFree, Ended, Create, BeginThread, BeginThreadFails,
     StoreHandle, CallJoin, JoinWait, JoinRead, JoinFree, Detach, DetachFree

\* The invariants of the other threads survive such a step.
LEMMA OthersKeepInvariant ==
    ASSUME LifeInv, NEW t \in Life, OnlyOf(t), ~misuse',
           t \in Worker => WorkerInv(t)', t \in External => ExternalInv(t)'
    PROVE  LifeInv'
<1>1. ASSUME NEW u \in Worker, u # t PROVE WorkerInv(u)'
  BY <1>1 DEF OnlyOf, LifeInv, Life, WorkerInv, StateTells, StructLives,
     HandleFollows, ResultFollows, Started, Stopped, WasDetached, Released, Bit,
     STATE_STOPPED, STATE_DETACHED
<1>2. ASSUME NEW u \in External, u # t PROVE ExternalInv(u)'
  BY <1>2 DEF OnlyOf, LifeInv, Life, ExternalInv, STATE_DETACHED
<1> QED
  BY <1>1, <1>2 DEF LifeInv

-----------------------------------------------------------------------------
(***************************************************************************)
(* Types. Only the two additions to the state word need the invariant: it  *)
(* says that the bit they add is clear.                                    *)
(***************************************************************************)

\* Every step keeps the types, the state word its two bits.
LEMMA StepKeepsTypes ==
    ASSUME LifeTypeOK, LifeInv, NEW t \in Life, LifeStep(t)
    PROVE  LifeTypeOK'
<1>1. CASE ExitHook(t)
  <2>1. state[t] \in {0, STATE_DETACHED}
    BY <1>1 DEF ExitHook, LifeInv, Life, WorkerInv, ExternalInv, StateTells,
       Stopped, Bit, STATE_DETACHED
  <2> QED
    BY <1>1, <2>1 DEF LifeTypeOK, ExitHook, Use, Goes, TPC, STATE_STOPPED,
       STATE_DETACHED
<1>2. CASE Detach(t)
  <2>1. state[t] \in {0, STATE_STOPPED}
    BY <1>2 DEF Detach, LifeInv, Life, WorkerInv, ExternalInv, StateTells,
       WasDetached, Bit, STATE_STOPPED
  <2> QED
    BY <1>2, <2>1 DEF LifeTypeOK, Detach, Use, Client, CPC, STATE_STOPPED,
       STATE_DETACHED
<1>3. CASE StartRoutine(t) \/ Self(t) \/ ReturnRoutine(t)
  BY <1>3 DEF LifeTypeOK, Use, Goes, TPC, STATE_DETACHED, StartRoutine, Self,
     ReturnRoutine
<1>4. CASE StoreRetval(t)
  BY <1>4 DEF LifeTypeOK, Use, Goes, TPC, StoreRetval
<1>5. CASE ExitFree(t) \/ Ended(t)
  BY <1>5 DEF LifeTypeOK, Use, Goes, TPC, ExitFree, Ended, destroy_mm_thread_data
<1>6. CASE Create(t) \/ BeginThread(t) \/ BeginThreadFails(t) \/ StoreHandle(t)
  BY <1>6 DEF LifeTypeOK, Use, Goes, Client, TPC, CPC, Create, BeginThread,
     BeginThreadFails, StoreHandle, destroy_mm_thread_data
<1>7. CASE \/ CallJoin(t) \/ JoinWait(t) \/ JoinRead(t) \/ JoinFree(t)
           \/ DetachFree(t)
  BY <1>7 DEF LifeTypeOK, Use, Client, CPC, CallJoin, JoinWait, JoinRead,
     JoinFree, DetachFree, destroy_mm_thread_data
<1> QED
  BY <1>1, <1>2, <1>3, <1>4, <1>5, <1>6, <1>7
     DEF LifeStep, ExitStep, ClientStep

-----------------------------------------------------------------------------
(***************************************************************************)
(* The invariant of the thread the step is for                             *)
(***************************************************************************)

\* Every step for a created thread keeps its invariant, and uses its structure
\* only while it lives.
LEMMA WorkerStep ==
    ASSUME LifeTypeOK, LifeInv, NEW t \in Worker, LifeStep(t)
    PROVE  WorkerInv(t)' /\ ~misuse'
<1> USE StateBits, LifecycleAssumption
<1> USE DEF LifeTypeOK, LifeInv, Life, WorkerInv, StateTells, StructLives,
        HandleFollows, ResultFollows, Started, Stopped, WasDetached, Released,
        Bit, Use, Goes, Client, TPC, CPC, STATE_STOPPED, STATE_DETACHED
<1>1. CASE StartRoutine(t)
  BY <1>1 DEF StartRoutine
<1>2. CASE ReturnRoutine(t)
  BY <1>2 DEF ReturnRoutine
<1>3. CASE StoreRetval(t)
  BY <1>3 DEF StoreRetval
<1>4. CASE ExitHook(t)
  <2>1. mem[t] = "live"
    BY <1>4 DEF ExitHook
  <2>2. ~misuse'
    BY <1>4, <2>1 DEF ExitHook
  <2>3. state[t] = Bit(WasDetached(t), STATE_DETACHED)
    BY <1>4 DEF ExitHook
  <2>4. state'[t] = state[t] + STATE_STOPPED
    BY <1>4, <2>1 DEF ExitHook
  <2>5. tpc'[t] = IF WasDetached(t) THEN "exit_free" ELSE "gone"
    BY <1>4, <2>1, <2>3 DEF ExitHook
  <2> QED
    BY <1>4, <2>1, <2>2, <2>3, <2>4, <2>5 DEF ExitHook
<1>5. CASE ExitFree(t)
  BY <1>5 DEF ExitFree, destroy_mm_thread_data
<1>6. CASE Ended(t)
  BY <1>6 DEF Ended
<1>7. CASE Create(t)
  BY <1>7 DEF Create
<1>8. CASE BeginThread(t)
  BY <1>8 DEF BeginThread
<1>9. CASE BeginThreadFails(t)
  BY <1>9 DEF BeginThreadFails, destroy_mm_thread_data
<1>10. CASE StoreHandle(t)
  BY <1>10 DEF StoreHandle
<1>11. CASE CallJoin(t)
  BY <1>11 DEF CallJoin
<1>12. CASE JoinWait(t)
  BY <1>12 DEF JoinWait
<1>13. CASE JoinRead(t)
  BY <1>13 DEF JoinRead
<1>14. CASE JoinFree(t)
  BY <1>14 DEF JoinFree, destroy_mm_thread_data
<1>15. CASE Detach(t)
  <2>1. mem[t] = "live"
    BY <1>15 DEF Detach
  <2>2. ~misuse'
    BY <1>15, <2>1 DEF Detach
  <2>3. state[t] = Bit(Stopped(t), STATE_STOPPED)
    BY <1>15 DEF Detach
  <2>4. state'[t] = state[t] + STATE_DETACHED
    BY <1>15, <2>1 DEF Detach
  <2>5. cpc'[t] = IF Stopped(t) THEN "detach_free" ELSE "detached"
    BY <1>15, <2>1, <2>3 DEF Detach
  <2> QED
    BY <1>15, <2>1, <2>2, <2>3, <2>4, <2>5 DEF Detach
<1>16. CASE DetachFree(t)
  BY <1>16 DEF DetachFree, destroy_mm_thread_data
<1>17. ~Self(t)
  BY DEF Self
<1> QED
  BY <1>1, <1>2, <1>3, <1>4, <1>5, <1>6, <1>7, <1>8, <1>9, <1>10, <1>11, <1>12,
     <1>13, <1>14, <1>15, <1>16, <1>17
     DEF LifeStep, ExitStep, ClientStep

\* The same for a thread of other origin, which has no client.
LEMMA ExternalStep ==
    ASSUME LifeTypeOK, LifeInv, NEW t \in External, LifeStep(t)
    PROVE  ExternalInv(t)' /\ ~misuse'
<1> USE StateBits, LifecycleAssumption
<1> USE DEF LifeTypeOK, LifeInv, Life, ExternalInv, Use, Goes, TPC,
        STATE_STOPPED, STATE_DETACHED
<1>1. CASE Self(t)
  BY <1>1 DEF Self
<1>2. CASE ReturnRoutine(t)
  BY <1>2 DEF ReturnRoutine
<1>3. CASE ExitHook(t)
  BY <1>3 DEF ExitHook
<1>4. CASE ExitFree(t)
  BY <1>4 DEF ExitFree, destroy_mm_thread_data
<1>5. CASE Ended(t)
  BY <1>5 DEF Ended
<1>6. ~ClientStep(t) /\ ~StartRoutine(t) /\ ~StoreRetval(t)
  BY DEF ClientStep, StartRoutine, StoreRetval, Create, BeginThread,
     BeginThreadFails, StoreHandle, CallJoin, JoinWait, JoinRead, JoinFree,
     Detach, DetachFree
<1> QED
  BY <1>1, <1>2, <1>3, <1>4, <1>5, <1>6 DEF LifeStep, ExitStep

-----------------------------------------------------------------------------
(***************************************************************************)
(* The specification                                                       *)
(***************************************************************************)

\* Initially no thread is created, and no other thread has asked for itself.
LEMMA LifeInitially == Init => LifeTypeOK /\ LifeInv
<1> SUFFICES ASSUME LifeInit PROVE LifeTypeOK /\ LifeInv
  BY DEF Init
<1>1. LifeTypeOK
  BY DEF LifeInit, LifeTypeOK, TPC, CPC
<1>2. ASSUME NEW t \in Worker PROVE WorkerInv(t)
  BY <1>2 DEF LifeInit, Life, WorkerInv, StateTells, StructLives, HandleFollows,
     ResultFollows, Started, Stopped, WasDetached, Released, Bit
<1>3. ASSUME NEW t \in External PROVE ExternalInv(t)
  BY <1>3, LifecycleAssumption DEF LifeInit, Life, ExternalInv
<1>4. ~misuse
  BY DEF LifeInit
<1> QED
  BY <1>1, <1>2, <1>3, <1>4 DEF LifeInv

\* A step of the process is a step of the life cycle or leaves it alone.
LEMMA StepOfProcess ==
    ASSUME [Next]_vars
    PROVE  UNCHANGED lifeVars \/ \E t \in Life : LifeStep(t)
  BY DEF Next, vars, Finished, ThreadStep, AskSelf, ClientActs, Begins,
     Initialise, OnceProgress, RoutineEnds, Exits, LifeStep

\* The invariant is inductive.
LEMMA LifeInductive ==
    LifeTypeOK /\ LifeInv /\ [Next]_vars => LifeTypeOK' /\ LifeInv'
<1> SUFFICES ASSUME LifeTypeOK, LifeInv, [Next]_vars
             PROVE  LifeTypeOK' /\ LifeInv'
  OBVIOUS
<1>1. CASE UNCHANGED lifeVars
  BY <1>1 DEF lifeVars, LifeTypeOK, LifeInv, WorkerInv, StateTells, StructLives,
     HandleFollows, ResultFollows, ExternalInv, Started, Stopped, WasDetached,
     Released, Bit
<1>2. ASSUME NEW t \in Life, LifeStep(t) PROVE LifeTypeOK' /\ LifeInv'
  <2>1. LifeTypeOK' /\ OnlyOf(t)
    BY <1>2, StepKeepsTypes, StepIsLocal
  <2>2. t \in Worker => WorkerInv(t)' /\ ~misuse'
    BY <1>2, WorkerStep
  <2>3. t \in External => ExternalInv(t)' /\ ~misuse'
    BY <1>2, ExternalStep
  <2> QED
    BY <2>1, <2>2, <2>3, OthersKeepInvariant DEF Life
<1> QED
  BY <1>1, <1>2, StepOfProcess

\* The state word, the structure, the handle and the result of every thread are
\* what its progress and that of its client imply, in every behaviour.
THEOREM LifeInvariant == Spec => [](LifeTypeOK /\ LifeInv)
  BY LifeInitially, LifeInductive, PTL DEF Spec

\* The structure of a thread is never used after it was freed, nor freed twice,
\* by mm_thr_join(), mm_thr_detach() or the exit hook.
THEOREM NeverUsedAfterFree == Spec => []NoUseAfterFree
<1>1. LifeInv => NoUseAfterFree
  BY DEF LifeInv, NoUseAfterFree
<1> QED
  BY <1>1, LifeInvariant, PTL

\* A thread that has ended and was joined or detached has left neither its
\* structure nor its handle.
THEOREM AlwaysReclaimed == Spec => []ResourcesReclaimed
<1>1. LifeInv => ResourcesReclaimed
  <2> SUFFICES ASSUME LifeInv, NEW t \in Life, tpc[t] = "ended",
                      cpc[t] \in {"none", "joined", "detached"}
               PROVE  mem[t] # "live" /\ handle[t] # "open"
    BY DEF ResourcesReclaimed
  <2>1. CASE t \in Worker
    BY <2>1 DEF LifeInv, WorkerInv, StateTells, StructLives, HandleFollows,
       Started, Released
  <2>2. CASE t \in External
    BY <2>2 DEF LifeInv, ExternalInv
  <2> QED
    BY <2>1, <2>2 DEF Life
<1> QED
  BY <1>1, LifeInvariant, PTL

\* mm_thr_join() gives its caller what the routine of the thread has returned.
THEOREM JoinIsRight == Spec => []JoinGivesResult
<1>1. LifeInv => JoinGivesResult
  BY DEF LifeInv, WorkerInv, ResultFollows, JoinGivesResult
<1> QED
  BY <1>1, LifeInvariant, PTL

-----------------------------------------------------------------------------
(***************************************************************************)
(* The inductive invariant                                                 *)
(***************************************************************************)
CallRec == [control : Control, at : CallAt, todo : SUBSET Control]

InsideAt == {"test", "mark", "routine", "leave"}

\* The calls of a thread are on a stack of which only the innermost one is not
\* in its routine; the steps that take and give back the SRW lock are made by a
\* call that is the outermost one.
StackShape(t) ==
    /\ \A i \in 1 .. Len(calls[t]) - 1 : calls[t][i].at = "routine"
    /\ InCall(t) /\ Current(t).at \in {"acquire", "claim", "disown", "release"}
          => Len(calls[t]) = 1

\* The thread is in the part of once_run_init() where it is the registered owner.
Owns(t) == Inside(t) # {} \/ At(t, "enter") \/ At(t, "disown")

AllInside == UNION {Inside(t) \X {t} : t \in Thread}

OnceInv ==
    /\ OnceTypeOK
    /\ calls \in [Thread -> Seq(CallRec)]
    /\ \A t \in Thread : StackShape(t)
    /\ \A t \in Thread : Owns(t) <=> lock_owner = t
    /\ \A t \in Thread : lock_owner = t \/ At(t, "claim") \/ At(t, "release")
                            => srwlock = t
    /\ \A c \in Control : runs[c] = IF once[c] THEN 1 ELSE 0
    /\ \A t \in Thread : At(t, "mark") => ~once[Current(t).control]
    /\ IsFiniteSet(AllInside) /\ level = Cardinality(AllInside)

-----------------------------------------------------------------------------
(***************************************************************************)
(* What a step does to the stacks                                          *)
(***************************************************************************)

\* What is left of a sequence without its last element.
LEMMA FrontOfSeq ==
    ASSUME NEW S, NEW s \in Seq(S), Len(s) # 0
    PROVE  LET f == SubSeq(s, 1, Len(s) - 1)
           IN  /\ f \in Seq(S) /\ Len(f) = Len(s) - 1
               /\ \A i \in 1 .. Len(s) - 1 : f[i] = s[i]
<1> DEFINE k == Len(s) - 1
<1>1. k \in Nat /\ \A i \in 1 .. k : s[i] \in S
  OBVIOUS
<1> HIDE DEF k
<1>2. /\ SubSeq(s, 1, k) \in Seq(S)
      /\ Len(SubSeq(s, 1, k)) = IF 1 <= k THEN k - 1 + 1 ELSE 0
      /\ \A i \in 1 .. k - 1 + 1 : SubSeq(s, 1, k)[i] = s[1 + i - 1]
  BY <1>1, SubSeqProperties
<1>3. /\ Len(SubSeq(s, 1, k)) = k
      /\ \A i \in 1 .. k : SubSeq(s, 1, k)[i] = s[i]
  BY <1>1, <1>2
<1> QED
  BY <1>2, <1>3 DEF k

\* The pairs of AllInside, one by one.
LEMMA InsidePairs ==
    \A p : p \in AllInside <=> \E t \in Thread : \E i \in Inside(t) : p = <<i, t>>
  BY DEF AllInside

\* A step that changes the stack of t alone.
OnlyStackOf(t) ==
    /\ calls' \in [Thread -> Seq(CallRec)]
    /\ \A u \in Thread \ {t} : calls'[u] = calls[u]


\* The innermost call of t is changed to e.
LEMMA TopReplaced ==
    ASSUME calls \in [Thread -> Seq(CallRec)], NEW t \in Thread, InCall(t),
           NEW e \in CallRec,
           calls' = [calls EXCEPT ![t] = [calls[t] EXCEPT ![Len(calls[t])] = e]]
    PROVE  /\ OnlyStackOf(t) /\ InCall(t)' /\ Current(t)' = e
           /\ Len(calls'[t]) = Len(calls[t])
           /\ \A i \in 1 .. Len(calls[t]) - 1 : calls'[t][i] = calls[t][i]
           /\ Inside(t)' = IF e.at \in InsideAt THEN Inside(t) \cup {Len(calls[t])}
                           ELSE Inside(t) \ {Len(calls[t])}
<1> DEFINE n == Len(calls[t])
           s == [calls[t] EXCEPT ![n] = e]
<1>1. calls[t] \in Seq(CallRec) /\ n \in Nat \ {0} /\ n \in 1 .. Len(calls[t])
  BY DEF InCall
<1> HIDE DEF CallRec
<1>2. /\ s \in Seq(CallRec) /\ Len(s) = n
      /\ \A j \in 1 .. n : s[j] = IF j = n THEN e ELSE calls[t][j]
  BY <1>1, ExceptSeq
<1> HIDE DEF s
<1>3. calls' \in [Thread -> Seq(CallRec)] /\ calls'[t] = s
  BY <1>2 DEF s
<1>4. OnlyStackOf(t)
  BY <1>3 DEF OnlyStackOf
<1>5. InCall(t)' /\ Current(t)' = e
  BY <1>1, <1>2, <1>3 DEF InCall, Current
<1>6. DOMAIN calls'[t] = 1 .. n /\ DOMAIN calls[t] = 1 .. n
  BY <1>1, <1>2, <1>3
<1>7. Inside(t)' = IF e.at \in InsideAt THEN Inside(t) \cup {n} ELSE Inside(t) \ {n}
  BY <1>1, <1>2, <1>3, <1>6 DEF Inside, InsideAt
<1> QED
  BY <1>1, <1>2, <1>3, <1>4, <1>5, <1>7

\* Step() of a thread changes where its innermost call stands.
LEMMA StepMovesTop ==
    ASSUME calls \in [Thread -> Seq(CallRec)], NEW t \in Thread, InCall(t),
           NEW l \in CallAt, Step(t, l)
    PROVE  /\ [Current(t) EXCEPT !.at = l] \in CallRec
           /\ calls' = [calls EXCEPT ![t] = [calls[t] EXCEPT ![Len(calls[t])] =
                                                [Current(t) EXCEPT !.at = l]]]
<1>1. calls[t] \in Seq(CallRec) /\ Current(t) \in CallRec
  BY DEF InCall, Current
<1> QED
  BY <1>1 DEF Step, CallRec, Current

\* A call that returns leaves the stack.
LEMMA TopPopped ==
    ASSUME calls \in [Thread -> Seq(CallRec)], NEW t \in Thread, InCall(t),
           calls' = [calls EXCEPT ![t] = Outer(t)]
    PROVE  /\ OnlyStackOf(t)
           /\ Len(calls'[t]) = Len(calls[t]) - 1
           /\ \A i \in 1 .. Len(calls[t]) - 1 : calls'[t][i] = calls[t][i]
           /\ Inside(t)' = Inside(t) \ {Len(calls[t])}
<1> DEFINE n == Len(calls[t])
<1>1. calls[t] \in Seq(CallRec) /\ n \in Nat \ {0}
  BY DEF InCall
<1> HIDE DEF CallRec
<1>2. /\ Outer(t) \in Seq(CallRec) /\ Len(Outer(t)) = n - 1
      /\ \A j \in 1 .. n - 1 : Outer(t)[j] = calls[t][j]
  BY <1>1, FrontOfSeq DEF Outer
<1>3. calls' \in [Thread -> Seq(CallRec)] /\ calls'[t] = Outer(t)
  BY <1>2
<1>4. OnlyStackOf(t)
  BY <1>3 DEF OnlyStackOf
<1>5. DOMAIN calls'[t] = 1 .. n - 1 /\ DOMAIN calls[t] = 1 .. n
  BY <1>1, <1>2, <1>3
<1>6. Inside(t)' = Inside(t) \ {n}
  BY <1>1, <1>2, <1>3, <1>5 DEF Inside
<1> QED
  BY <1>1, <1>2, <1>3, <1>4, <1>6

\* A new call is put on the stack and is inside nothing yet.
LEMMA CallPushed ==
    ASSUME calls \in [Thread -> Seq(CallRec)], NEW t \in Thread,
           NEW c \in Control, Push(t, c)
    PROVE  /\ OnlyStackOf(t) /\ InCall(t)' /\ Current(t)' = Call(c, "check", {})
           /\ Len(calls'[t]) = Len(calls[t]) + 1
           /\ \A i \in 1 .. Len(calls[t]) : calls'[t][i] = calls[t][i]
           /\ Inside(t)' = Inside(t)
<1> DEFINE n == Len(calls[t])
           e == Call(c, "check", {})
           s == Append(calls[t], e)
<1>1. calls[t] \in Seq(CallRec) /\ n \in Nat /\ e \in CallRec
  <2>1. e \in CallRec
    BY {} \in SUBSET Control DEF CallRec, Call, CallAt
  <2> QED
    BY <2>1
<1>2. e.at = "check"
  BY DEF Call
<1> HIDE DEF CallRec, e
<1>3. /\ s \in Seq(CallRec) /\ Len(s) = n + 1 /\ s[n + 1] = e
      /\ \A j \in 1 .. n : s[j] = calls[t][j]
  BY <1>1, AppendProperties
<1>4. calls' = [calls EXCEPT ![t] = s]
  BY DEF Push, e
<1> HIDE DEF s
<1>5. calls' \in [Thread -> Seq(CallRec)] /\ calls'[t] = s
  BY <1>3, <1>4
<1>6. OnlyStackOf(t)
  BY <1>4, <1>5 DEF OnlyStackOf
<1>7. InCall(t)' /\ Current(t)' = e
  BY <1>1, <1>3, <1>5 DEF InCall, Current
<1>8. DOMAIN calls'[t] = 1 .. n + 1 /\ DOMAIN calls[t] = 1 .. n
  BY <1>1, <1>3, <1>5
<1>9. Inside(t)' = Inside(t)
  BY <1>1, <1>2, <1>3, <1>5, <1>8 DEF Inside
<1> QED
  BY <1>1, <1>3, <1>5, <1>6, <1>7, <1>9 DEF e

\* The threads that do not move.
LEMMA OthersStay ==
    ASSUME NEW t \in Thread, OnlyStackOf(t), NEW u \in Thread \ {t}
    PROVE  /\ InCall(u)' = InCall(u) /\ Current(u)' = Current(u)
           /\ \A l : At(u, l)' = At(u, l)
           /\ Inside(u)' = Inside(u)
           /\ StackShape(u)' = StackShape(u)
  BY DEF OnlyStackOf, InCall, Current, At, Inside, StackShape

\* A routine makes a nested call: the call that runs it stays inside.
LEMMA NestedPushed ==
    ASSUME calls \in [Thread -> Seq(CallRec)], NEW t \in Thread, At(t, "routine"),
           NEW c \in Control,
           calls' = [calls EXCEPT ![t] =
               Outer(t) \o <<[Current(t) EXCEPT !.todo = @ \ {c}],
                             Call(c, "check", {})>>]
    PROVE  /\ OnlyStackOf(t) /\ InCall(t)' /\ Current(t)' = Call(c, "check", {})
           /\ Len(calls'[t]) = Len(calls[t]) + 1
           /\ \A i \in 1 .. Len(calls[t]) : calls'[t][i].at = calls[t][i].at
           /\ Inside(t)' = Inside(t)
<1> DEFINE n == Len(calls[t])
           o == Outer(t)
           e == [Current(t) EXCEPT !.todo = @ \ {c}]
           f == Call(c, "check", {})
           s == o \o <<e, f>>
<1>1. calls[t] \in Seq(CallRec) /\ n \in Nat \ {0} /\ calls[t][n] \in CallRec
  BY DEF At, InCall
<1>2. e \in CallRec /\ e.at = calls[t][n].at
  BY <1>1 DEF CallRec, Current
<1>3. f \in CallRec /\ f.at = "check"
  BY {} \in SUBSET Control DEF CallRec, Call, CallAt
<1> HIDE DEF CallRec, e, f
<1>4. /\ o \in Seq(CallRec) /\ Len(o) = n - 1
      /\ \A i \in 1 .. n - 1 : o[i] = calls[t][i]
  BY <1>1, FrontOfSeq DEF Outer
<1>5. <<e, f>> \in Seq(CallRec) /\ Len(<<e, f>>) = 2
  BY <1>2, <1>3
<1> HIDE DEF o
<1>6. /\ s \in Seq(CallRec) /\ Len(s) = n + 1 /\ s[n + 1] = f /\ s[n] = e
      /\ \A i \in 1 .. n - 1 : s[i] = calls[t][i]
  BY <1>1, <1>4, <1>5
<1>7. calls' = [calls EXCEPT ![t] = s]
  BY DEF o, e, f
<1> HIDE DEF s
<1>8. calls' \in [Thread -> Seq(CallRec)] /\ calls'[t] = s
  BY <1>6, <1>7
<1>9. OnlyStackOf(t)
  BY <1>7, <1>8 DEF OnlyStackOf
<1>10. InCall(t)' /\ Current(t)' = f
  BY <1>1, <1>6, <1>8 DEF InCall, Current
<1>11. \A i \in 1 .. n : calls'[t][i].at = calls[t][i].at
  <2>1. ASSUME NEW i \in 1 .. n, i # n PROVE calls'[t][i] = calls[t][i]
    <3>1. i \in 1 .. n - 1
      BY <1>1, <2>1
    <3> QED
      BY <3>1, <1>6, <1>8
  <2>2. calls'[t][n] = e
    BY <1>6, <1>8
  <2> QED
    BY <2>1, <2>2, <1>2
<1>12. DOMAIN calls'[t] = 1 .. n + 1 /\ DOMAIN calls[t] = 1 .. n
  BY <1>1, <1>6, <1>8
<1>13. Inside(t)' = Inside(t)
  <2>1. Inside(t)' = {i \in 1 .. n + 1 : calls'[t][i].at \in InsideAt}
    BY <1>12 DEF Inside, InsideAt
  <2>2. Inside(t) = {i \in 1 .. n : calls[t][i].at \in InsideAt}
    BY <1>12 DEF Inside, InsideAt
  <2>3. calls'[t][n + 1].at \notin InsideAt
    BY <1>3, <1>6, <1>8 DEF InsideAt
  <2>4. \A i \in 1 .. n + 1 : i = n + 1 \/ i \in 1 .. n
    BY <1>1
  <2>5. \A i \in 1 .. n : i \in 1 .. n + 1
    BY <1>1
  <2> QED
    BY <2>1, <2>2, <2>3, <2>4, <2>5, <1>11
<1> QED
  BY <1>1, <1>6, <1>8, <1>9, <1>10, <1>11, <1>13 DEF f

-----------------------------------------------------------------------------
(***************************************************************************)
(* Counting the calls that are inside                                      *)
(***************************************************************************)

\* Nobody enters or leaves.
LEMMA InsideSame ==
    ASSUME NEW t \in Thread, OnlyStackOf(t), Inside(t)' = Inside(t)
    PROVE  AllInside' = AllInside
<1>1. \A u \in Thread : Inside(u)' = Inside(u)
  BY OthersStay
<1> QED
  BY <1>1 DEF AllInside

\* The innermost call of t enters.
LEMMA InsideGrows ==
    ASSUME NEW t \in Thread, OnlyStackOf(t), IsFiniteSet(AllInside), NEW n,
           n \notin Inside(t), Inside(t)' = Inside(t) \cup {n}
    PROVE  /\ IsFiniteSet(AllInside')
           /\ Cardinality(AllInside') = Cardinality(AllInside) + 1
<1>1. \A u \in Thread \ {t} : Inside(u)' = Inside(u)
  BY OthersStay
<1>2. \A p : p \in AllInside' <=> \E u \in Thread : \E i \in Inside(u)' : p = <<i, u>>
  BY DEF AllInside
<1>3. AllInside' = AllInside \cup {<<n, t>>}
  BY <1>1, <1>2, InsidePairs
<1>4. <<n, t>> \notin AllInside
  BY InsidePairs
<1> QED
  BY <1>3, <1>4, FS_AddElement

\* The innermost call of t leaves.
LEMMA InsideShrinks ==
    ASSUME NEW t \in Thread, OnlyStackOf(t), IsFiniteSet(AllInside), NEW n,
           n \in Inside(t), Inside(t)' = Inside(t) \ {n}
    PROVE  /\ IsFiniteSet(AllInside')
           /\ Cardinality(AllInside') = Cardinality(AllInside) - 1
<1>1. \A u \in Thread \ {t} : Inside(u)' = Inside(u)
  BY OthersStay
<1>2. \A p : p \in AllInside' <=> \E u \in Thread : \E i \in Inside(u)' : p = <<i, u>>
  BY DEF AllInside
<1>3. AllInside' = AllInside \ {<<n, t>>}
  BY <1>1, <1>2, InsidePairs
<1>4. <<n, t>> \in AllInside
  BY InsidePairs
<1> QED
  BY <1>3, <1>4, FS_RemoveElement

-----------------------------------------------------------------------------
(***************************************************************************)
(* What the invariant says of the thread that moves                        *)
(***************************************************************************)

\* A call is inside the lock where its label says so; the outer ones are.
LEMMA InsideTop ==
    ASSUME OnceInv, NEW t \in Thread, InCall(t)
    PROVE  /\ Len(calls[t]) \in Nat \ {0} /\ Current(t) \in CallRec
           /\ Len(calls[t]) \in Inside(t) <=> Current(t).at \in InsideAt
           /\ \A i \in 1 .. Len(calls[t]) - 1 : i \in Inside(t)
           /\ Inside(t) \subseteq 1 .. Len(calls[t])
<1>1. calls[t] \in Seq(CallRec) /\ StackShape(t)
  BY DEF OnceInv
<1>2. Len(calls[t]) \in Nat \ {0} /\ Current(t) \in CallRec
  BY <1>1 DEF InCall, Current
<1>3. DOMAIN calls[t] = 1 .. Len(calls[t])
  BY <1>1
<1> QED
  BY <1>1, <1>2, <1>3 DEF Inside, InsideAt, Current, StackShape

\* One thread at a time is between the acquisition and the release.
LEMMA OneHolder ==
    ASSUME OnceInv, NEW t \in Thread, NEW u \in Thread \ {t},
           Owns(t) \/ At(t, "claim") \/ At(t, "release")
    PROVE  ~Owns(u) /\ ~At(u, "claim") /\ ~At(u, "release") /\ srwlock = t
  BY DEF OnceInv

\* The conjuncts of the invariant, for a step of t.
LEMMA InvariantFromParts ==
    ASSUME OnceInv, NEW t \in Thread, OnlyStackOf(t),
           once' \in [Control -> BOOLEAN], runs' \in [Control -> Nat],
           srwlock' \in Thread \cup {NoThread},
           lock_owner' \in Thread \cup {NoThread},
           completed' \subseteq Control, returned' \subseteq Control,
           StackShape(t)',
           Owns(t)' <=> lock_owner' = t,
           \A u \in Thread \ {t} : lock_owner' = u <=> lock_owner = u,
           lock_owner' = t \/ At(t, "claim")' \/ At(t, "release")' => srwlock' = t,
           \A u \in Thread \ {t} : srwlock = u => srwlock' = u,
           \A c \in Control : runs'[c] = IF once'[c] THEN 1 ELSE 0,
           At(t, "mark")' => ~once'[Current(t)'.control],
           \A u \in Thread \ {t} : At(u, "mark") => ~once'[Current(u).control],
           IsFiniteSet(AllInside'), level' = Cardinality(AllInside')
    PROVE  OnceInv'
<1>1. \A u \in Thread \ {t} :
          /\ StackShape(u)' = StackShape(u) /\ Owns(u)' = Owns(u)
          /\ Current(u)' = Current(u)
          /\ \A l : At(u, l)' = At(u, l)
  BY OthersStay DEF Owns
<1>2. calls' \in [Thread -> Seq(CallRec)]
  BY DEF OnlyStackOf
<1>3. OnceTypeOK'
  <2>1. level' \in Nat
    BY FS_CardinalityType
  <2>2. \A u \in Thread : \A i \in DOMAIN calls'[u] : calls'[u][i] \in CallRec
    BY <1>2
  <2> QED
    BY <2>1, <2>2 DEF OnceTypeOK, CallRec
<1>4. \A u \in Thread : StackShape(u)'
  BY <1>1 DEF OnceInv
<1>5. \A u \in Thread : Owns(u)' <=> lock_owner' = u
  BY <1>1 DEF OnceInv
<1>6. \A u \in Thread : lock_owner' = u \/ At(u, "claim")' \/ At(u, "release")'
                           => srwlock' = u
  BY <1>1 DEF OnceInv
<1>7. \A u \in Thread : At(u, "mark")' => ~once'[Current(u)'.control]
  BY <1>1
<1> QED
  BY <1>2, <1>3, <1>4, <1>5, <1>6, <1>7 DEF OnceInv

\* A step of t from label k to label m.
LEMMA TopMoves ==
    ASSUME OnceInv, NEW t \in Thread, NEW k, At(t, k), NEW m \in CallAt, Step(t, m),
           m \in {"acquire", "claim", "disown", "release"} => Len(calls[t]) = 1
    PROVE  /\ OnlyStackOf(t) /\ StackShape(t)'
           /\ \A l : At(t, l)' <=> l = m
           /\ Current(t)'.control = Current(t).control
           /\ k \in InsideAt /\ m \in InsideAt => Inside(t)' = Inside(t)
           /\ k \notin InsideAt /\ m \notin InsideAt => Inside(t)' = Inside(t)
           /\ k \notin InsideAt /\ m \in InsideAt =>
                 /\ Len(calls[t]) \notin Inside(t)
                 /\ Inside(t)' = Inside(t) \cup {Len(calls[t])}
           /\ k \in InsideAt /\ m \notin InsideAt =>
                 /\ Len(calls[t]) \in Inside(t)
                 /\ Inside(t)' = Inside(t) \ {Len(calls[t])}
           /\ returned' = returned
<1> DEFINE e == [Current(t) EXCEPT !.at = m]
<1>1. calls \in [Thread -> Seq(CallRec)] /\ InCall(t) /\ Current(t).at = k /\ StackShape(t)
  BY DEF OnceInv, At
<1>2. e \in CallRec
      /\ calls' = [calls EXCEPT ![t] = [calls[t] EXCEPT ![Len(calls[t])] = e]]
  BY <1>1, StepMovesTop
<1>3. e.at = m /\ e.control = Current(t).control
  BY <1>2, InsideTop, <1>1 DEF CallRec
<1> HIDE DEF e
<1>4. /\ OnlyStackOf(t) /\ InCall(t)' /\ Current(t)' = e
      /\ Len(calls'[t]) = Len(calls[t])
      /\ \A i \in 1 .. Len(calls[t]) - 1 : calls'[t][i] = calls[t][i]
      /\ Inside(t)' = IF e.at \in InsideAt THEN Inside(t) \cup {Len(calls[t])}
                      ELSE Inside(t) \ {Len(calls[t])}
  BY <1>1, <1>2, TopReplaced
<1>5. \A l : At(t, l)' <=> l = m
  BY <1>3, <1>4 DEF At
<1>6. StackShape(t)'
  BY <1>1, <1>3, <1>4 DEF StackShape
<1>7. Len(calls[t]) \in Inside(t) <=> k \in InsideAt
  BY <1>1, InsideTop
<1>8. returned' = returned
  BY DEF Step
<1> QED
  BY <1>3, <1>4, <1>5, <1>6, <1>7, <1>8

\* A call of t returns from label k: what is left is in its routine, or nothing.
LEMMA TopReturns ==
    ASSUME OnceInv, NEW t \in Thread, NEW k, At(t, k), Return(t)
    PROVE  /\ OnlyStackOf(t) /\ StackShape(t)'
           /\ \A l : At(t, l)' => l = "routine"
           /\ k \notin InsideAt => Inside(t)' = Inside(t)
           /\ k \in InsideAt => /\ Len(calls[t]) \in Inside(t)
                                /\ Inside(t)' = Inside(t) \ {Len(calls[t])}
           /\ returned' \subseteq Control
<1>1. calls \in [Thread -> Seq(CallRec)] /\ InCall(t) /\ Current(t).at = k /\ StackShape(t)
  BY DEF OnceInv, At
<1>2. /\ OnlyStackOf(t)
      /\ Len(calls'[t]) = Len(calls[t]) - 1
      /\ \A i \in 1 .. Len(calls[t]) - 1 : calls'[t][i] = calls[t][i]
      /\ Inside(t)' = Inside(t) \ {Len(calls[t])}
  BY <1>1, TopPopped DEF Return
<1>3. Len(calls[t]) \in Nat \ {0} /\ Current(t) \in CallRec
      /\ (Len(calls[t]) \in Inside(t) <=> k \in InsideAt)
  BY <1>1, InsideTop
<1>4. InCall(t)' => Current(t)'.at = "routine"
  <2>1. SUFFICES ASSUME InCall(t)' PROVE Current(t)'.at = "routine"
    OBVIOUS
  <2>2. calls'[t] \in Seq(CallRec)
    BY <1>2 DEF OnlyStackOf
  <2>3. Len(calls'[t]) \in 1 .. Len(calls[t]) - 1
    BY <1>2, <1>3, <2>1, <2>2 DEF InCall
  <2> QED
    BY <1>1, <1>2, <2>3 DEF StackShape, Current
<1>5. StackShape(t)'
  <2>1. \A i \in 1 .. Len(calls'[t]) - 1 : i \in 1 .. Len(calls[t]) - 1
    BY <1>2, <1>3
  <2> QED
    BY <1>1, <1>2, <1>4, <2>1 DEF StackShape
<1>6. returned' \subseteq Control
  BY <1>3 DEF Return, OnceInv, OnceTypeOK, CallRec
<1> QED
  BY <1>2, <1>3, <1>4, <1>5, <1>6 DEF At

-----------------------------------------------------------------------------
(***************************************************************************)
(* Every step keeps the invariant                                          *)
(***************************************************************************)


\* A call that stands at a label the outermost one alone can be at, outside of
\* the lock, is the only call of its thread.
LEMMA AloneOutside ==
    ASSUME OnceInv, NEW t \in Thread, InCall(t), Current(t).at \notin InsideAt
    PROVE  /\ Len(calls[t]) = 1 <=> Inside(t) = {}
           /\ Inside(t) = {} => Owns(t) <=> (At(t, "enter") \/ At(t, "disown"))
<1>1. /\ Len(calls[t]) \in Nat \ {0}
      /\ Len(calls[t]) \notin Inside(t)
      /\ \A i \in 1 .. Len(calls[t]) - 1 : i \in Inside(t)
      /\ Inside(t) \subseteq 1 .. Len(calls[t])
  BY InsideTop
<1>2. Len(calls[t]) = 1 => Inside(t) = {}
  BY <1>1
<1>3. Inside(t) = {} => Len(calls[t]) = 1
  <2>1. SUFFICES ASSUME Len(calls[t]) # 1 PROVE Inside(t) # {}
    OBVIOUS
  <2>2. Len(calls[t]) \in Nat /\ Len(calls[t]) # 0
    BY <1>1
  <2>3. \A n \in Nat : n # 0 /\ n # 1 => 1 \in 1 .. n - 1
    OBVIOUS
  <2>4. 1 \in 1 .. Len(calls[t]) - 1
    BY <2>1, <2>2, <2>3
  <2> QED
    BY <1>1, <2>4
<1> QED
  BY <1>2, <1>3 DEF Owns

\* The test before the lock, the first of the two unprotected reads.
LEMMA OnceCheckKeeps ==
    ASSUME OnceInv, NEW t \in Thread, OnceCheck(t)
    PROVE  OnceInv'
<1>1. At(t, "check") /\ "check" \notin InsideAt /\ "owner" \notin InsideAt
      /\ "owner" \in CallAt
  BY DEF OnceCheck, InsideAt, CallAt
<1>2. UNCHANGED <<once, srwlock, lock_owner, level, runs, completed>>
  BY DEF OnceCheck
<1>3. CASE Return(t)
  <2>1. /\ OnlyStackOf(t) /\ StackShape(t)'
        /\ \A l : At(t, l)' => l = "routine"
        /\ Inside(t)' = Inside(t) /\ returned' \subseteq Control
    BY <1>1, <1>3, TopReturns
  <2>2. AllInside' = AllInside /\ Owns(t)' = Owns(t)
    BY <1>1, <2>1, InsideSame DEF Owns, At
  <2> QED
    BY <1>2, <2>1, <2>2, InvariantFromParts DEF OnceInv, OnceTypeOK
<1>4. CASE Step(t, "owner")
  <2>1. /\ OnlyStackOf(t) /\ StackShape(t)'
        /\ \A l : At(t, l)' <=> l = "owner"
        /\ Inside(t)' = Inside(t) /\ returned' = returned
    BY <1>1, <1>4, TopMoves
  <2>2. AllInside' = AllInside /\ Owns(t)' = Owns(t)
    BY <1>1, <2>1, InsideSame DEF Owns, At
  <2> QED
    BY <1>2, <2>1, <2>2, InvariantFromParts DEF OnceInv, OnceTypeOK
<1> QED
  BY <1>3, <1>4 DEF OnceCheck

\* The read of global_lock_owner tells a thread whether it holds the lock.
LEMMA OwnerTestKeeps ==
    ASSUME OnceInv, NEW t \in Thread, OwnerTest(t)
    PROVE  OnceInv'
<1>1. At(t, "owner") /\ "owner" \notin InsideAt /\ "enter" \notin InsideAt
      /\ "acquire" \notin InsideAt /\ "enter" \in CallAt /\ "acquire" \in CallAt
  BY DEF OwnerTest, InsideAt, CallAt
<1>2. UNCHANGED <<once, srwlock, lock_owner, level, runs, completed>>
  BY DEF OwnerTest
<1>3. CASE lock_owner = t
  <2>1. /\ OnlyStackOf(t) /\ StackShape(t)'
        /\ \A l : At(t, l)' <=> l = "enter"
        /\ Inside(t)' = Inside(t) /\ returned' = returned
    BY <1>1, <1>3, TopMoves DEF OwnerTest
  <2>2. AllInside' = AllInside /\ Owns(t)'
    BY <2>1, InsideSame DEF Owns
  <2> QED
    BY <1>2, <1>3, <2>1, <2>2, InvariantFromParts DEF OnceInv, OnceTypeOK
<1>4. CASE lock_owner # t
  <2>1. ~Owns(t) /\ Len(calls[t]) = 1
    BY <1>1, <1>4, AloneOutside DEF OnceInv, Owns, At
  <2>2. /\ OnlyStackOf(t) /\ StackShape(t)'
        /\ \A l : At(t, l)' <=> l = "acquire"
        /\ Inside(t)' = Inside(t) /\ returned' = returned
    BY <1>1, <1>4, <2>1, TopMoves DEF OwnerTest
  <2>3. AllInside' = AllInside /\ ~Owns(t)'
    BY <2>1, <2>2, InsideSame DEF Owns
  <2> QED
    BY <1>2, <1>4, <2>2, <2>3, InvariantFromParts DEF OnceInv, OnceTypeOK
<1> QED
  BY <1>3, <1>4

\* The lock is free when it is taken: nobody is registered as its owner.
LEMMA AcquireKeeps ==
    ASSUME OnceInv, NEW t \in Thread, Acquire(t)
    PROVE  OnceInv'
<1>1. At(t, "acquire") /\ "acquire" \notin InsideAt /\ "claim" \notin InsideAt
      /\ "claim" \in CallAt
  BY DEF Acquire, InsideAt, CallAt
<1>2. UNCHANGED <<once, lock_owner, level, runs, completed>> /\ srwlock' = t
  BY DEF Acquire
<1>3. Len(calls[t]) = 1 /\ ~Owns(t) /\ Inside(t) = {}
  BY <1>1, AloneOutside DEF OnceInv, StackShape, At
<1>4. /\ OnlyStackOf(t) /\ StackShape(t)'
      /\ \A l : At(t, l)' <=> l = "claim"
      /\ Inside(t)' = Inside(t) /\ returned' = returned
  BY <1>1, <1>3, TopMoves DEF Acquire
<1>5. AllInside' = AllInside /\ ~Owns(t)'
  BY <1>3, <1>4, InsideSame DEF Owns
<1>6. \A u \in Thread : srwlock # u
  BY OnceAssumption DEF Acquire
<1> QED
  BY <1>2, <1>3, <1>4, <1>5, <1>6, InvariantFromParts DEF OnceInv, OnceTypeOK

\* The holder registers as the owner.
LEMMA ClaimKeeps ==
    ASSUME OnceInv, NEW t \in Thread, Claim(t)
    PROVE  OnceInv'
<1>1. At(t, "claim") /\ "claim" \notin InsideAt /\ "enter" \notin InsideAt
      /\ "enter" \in CallAt
  BY DEF Claim, InsideAt, CallAt
<1>2. UNCHANGED <<once, srwlock, level, runs, completed>> /\ lock_owner' = t
  BY DEF Claim
<1>3. /\ OnlyStackOf(t) /\ StackShape(t)'
      /\ \A l : At(t, l)' <=> l = "enter"
      /\ Inside(t)' = Inside(t) /\ returned' = returned
  BY <1>1, TopMoves DEF Claim
<1>4. AllInside' = AllInside /\ Owns(t)'
  BY <1>3, InsideSame DEF Owns
<1>5. \A u \in Thread \ {t} : lock_owner # u
  BY <1>1 DEF OnceInv
<1> QED
  BY <1>1, <1>2, <1>3, <1>4, <1>5, InvariantFromParts DEF OnceInv, OnceTypeOK

\* The recursion level counts the call that enters.
LEMMA EnterLevelKeeps ==
    ASSUME OnceInv, NEW t \in Thread, EnterLevel(t)
    PROVE  OnceInv'
<1>1. At(t, "enter") /\ "enter" \notin InsideAt /\ "test" \in InsideAt
      /\ "test" \in CallAt
  BY DEF EnterLevel, InsideAt, CallAt
<1>2. UNCHANGED <<once, srwlock, lock_owner, runs, completed>> /\ level' = level + 1
  BY DEF EnterLevel
<1>3. /\ OnlyStackOf(t) /\ StackShape(t)'
      /\ \A l : At(t, l)' <=> l = "test"
      /\ Len(calls[t]) \notin Inside(t)
      /\ Inside(t)' = Inside(t) \cup {Len(calls[t])} /\ returned' = returned
  BY <1>1, TopMoves DEF EnterLevel
<1>4. IsFiniteSet(AllInside') /\ level' = Cardinality(AllInside')
  BY <1>2, <1>3, InsideGrows DEF OnceInv
<1>5. Owns(t)' /\ lock_owner = t
  BY <1>1, <1>3 DEF Owns, OnceInv
<1> QED
  BY <1>2, <1>3, <1>4, <1>5, InvariantFromParts DEF OnceInv, OnceTypeOK

\* The second test, under the lock, decides whether the routine is to run.
LEMMA TestOnceKeeps ==
    ASSUME OnceInv, NEW t \in Thread, TestOnce(t)
    PROVE  OnceInv'
<1> DEFINE m == IF once[Current(t).control] THEN "leave" ELSE "mark"
<1>1. At(t, "test") /\ "test" \in InsideAt /\ m \in InsideAt /\ m \in CallAt
      /\ m \notin {"acquire", "claim", "disown", "release"}
  BY DEF TestOnce, InsideAt, CallAt
<1>2. UNCHANGED <<once, srwlock, lock_owner, level, runs, completed>> /\ Step(t, m)
  BY DEF TestOnce
<1>3. m = "mark" => ~once[Current(t).control]
  OBVIOUS
<1> HIDE DEF m
<1>4. /\ OnlyStackOf(t) /\ StackShape(t)'
      /\ \A l : At(t, l)' <=> l = m
      /\ Current(t)'.control = Current(t).control
      /\ Inside(t)' = Inside(t) /\ returned' = returned
  BY <1>1, <1>2, TopMoves
<1>5. AllInside' = AllInside /\ Inside(t) # {}
  BY <1>1, <1>4, InsideSame, InsideTop DEF At
<1>6. Owns(t) /\ Owns(t)' /\ srwlock = t
  BY <1>4, <1>5 DEF Owns, OnceInv
<1> QED
  BY <1>2, <1>3, <1>4, <1>5, <1>6, InvariantFromParts DEF OnceInv, OnceTypeOK

\* The control is changed and the routine started by the one thread that is
\* inside, and only if nobody has changed the control since it was tested.
LEMMA MarkOnceKeeps ==
    ASSUME OnceInv, NEW t \in Thread, MarkOnce(t)
    PROVE  OnceInv'
<1> DEFINE c == Current(t).control
           n == Len(calls[t])
           e == Call(c, "routine", NestedIn[c])
<1>1. InCall(t) /\ Current(t).at = "mark" /\ "mark" \in InsideAt
  BY DEF MarkOnce, At, InsideAt
<1>2. Current(t) \in CallRec /\ n \in Inside(t) /\ c \in Control
  BY <1>1, InsideTop DEF CallRec
<1>3. e \in CallRec /\ e.at = "routine"
  BY <1>2, OnceAssumption DEF CallRec, Call, CallAt
<1>4. ~once[c] /\ srwlock = t /\ lock_owner = t
  BY <1>1, <1>2 DEF OnceInv, At, Owns
<1> HIDE DEF e, c
<1>5. calls' = [calls EXCEPT ![t] = [calls[t] EXCEPT ![n] = e]]
  BY DEF MarkOnce, e, c, OnceInv
<1>6. /\ OnlyStackOf(t) /\ InCall(t)' /\ Current(t)' = e
      /\ Len(calls'[t]) = Len(calls[t])
      /\ \A i \in 1 .. Len(calls[t]) - 1 : calls'[t][i] = calls[t][i]
      /\ Inside(t)' = Inside(t)
  <2>1. e.at \in InsideAt /\ calls \in [Thread -> Seq(CallRec)]
    BY <1>3 DEF OnceInv, InsideAt
  <2>2. Inside(t) \cup {n} = Inside(t)
    BY <1>2
  <2> QED
    BY <1>1, <1>3, <1>5, <2>1, <2>2, TopReplaced
<1>7. StackShape(t)' /\ Owns(t)' /\ ~At(t, "mark")' /\ ~At(t, "claim")' /\ ~At(t, "release")'
  BY <1>2, <1>3, <1>6 DEF OnceInv, StackShape, Owns, At
<1>8. AllInside' = AllInside
  BY <1>6, InsideSame
<1>9. /\ once' = [once EXCEPT ![c] = TRUE] /\ runs' = [runs EXCEPT ![c] = @ + 1]
      /\ UNCHANGED <<srwlock, lock_owner, level, completed, returned>>
  BY DEF MarkOnce, c
<1>10. once' \in [Control -> BOOLEAN] /\ runs' \in [Control -> Nat]
  BY <1>2, <1>9 DEF OnceInv, OnceTypeOK
<1>11. \A d \in Control : runs'[d] = IF once'[d] THEN 1 ELSE 0
  BY <1>2, <1>4, <1>9 DEF OnceInv, OnceTypeOK
<1>12. \A u \in Thread \ {t} : ~At(u, "mark")
  <2>1. SUFFICES ASSUME NEW u \in Thread \ {t}, At(u, "mark") PROVE FALSE
    OBVIOUS
  <2>2. Inside(u) # {}
    BY <1>1, <2>1, InsideTop DEF At
  <2> QED
    BY <1>4, <2>1, <2>2 DEF OnceInv, Owns
<1> QED
  BY <1>4, <1>6, <1>7, <1>8, <1>9, <1>10, <1>11, <1>12, InvariantFromParts
     DEF OnceInv, OnceTypeOK

\* A nested call starts outside and leaves the owner what it is.
LEMMA RoutineCallsKeeps ==
    ASSUME OnceInv, NEW t \in Thread, RoutineCalls(t)
    PROVE  OnceInv'
<1>1. At(t, "routine") /\ InCall(t) /\ Current(t).at = "routine" /\ "routine" \in InsideAt
  BY DEF RoutineCalls, At, InsideAt
<1>2. Len(calls[t]) \in Nat \ {0} /\ Current(t) \in CallRec /\ Inside(t) # {}
  BY <1>1, InsideTop
<1>3. PICK c \in Current(t).todo :
          calls' = [calls EXCEPT ![t] =
              Outer(t) \o <<[Current(t) EXCEPT !.todo = @ \ {c}],
                            Call(c, "check", {})>>]
  BY DEF RoutineCalls
<1>4. c \in Control
  BY <1>2 DEF CallRec
<1>5. /\ OnlyStackOf(t) /\ InCall(t)' /\ Current(t)' = Call(c, "check", {})
      /\ Len(calls'[t]) = Len(calls[t]) + 1
      /\ \A i \in 1 .. Len(calls[t]) : calls'[t][i].at = calls[t][i].at
      /\ Inside(t)' = Inside(t)
  BY <1>1, <1>3, <1>4, NestedPushed DEF OnceInv
<1>6. Current(t)'.at = "check"
  BY <1>5 DEF Call
<1>7. StackShape(t)'
  <2>1. \A i \in 1 .. Len(calls[t]) : calls[t][i].at = "routine"
    <3>1. \A i \in 1 .. Len(calls[t]) : i = Len(calls[t]) \/ i \in 1 .. Len(calls[t]) - 1
      BY <1>2
    <3> QED
      BY <1>1, <3>1 DEF OnceInv, StackShape, Current
  <2>2. Len(calls'[t]) - 1 = Len(calls[t])
    BY <1>2, <1>5
  <2> QED
    BY <1>5, <1>6, <2>1, <2>2 DEF StackShape
<1>8. AllInside' = AllInside /\ Owns(t) /\ Owns(t)'
  BY <1>2, <1>5, InsideSame DEF Owns
<1>9. UNCHANGED <<once, srwlock, lock_owner, level, runs, completed, returned>>
  BY DEF RoutineCalls
<1>10. ~At(t, "mark")' /\ ~At(t, "claim")' /\ ~At(t, "release")'
  BY <1>6 DEF At
<1> QED
  BY <1>5, <1>7, <1>8, <1>9, <1>10, InvariantFromParts DEF OnceInv, OnceTypeOK

\* The routine returns, still inside.
LEMMA RoutineReturnsKeeps ==
    ASSUME OnceInv, NEW t \in Thread, RoutineReturns(t)
    PROVE  OnceInv'
<1>1. At(t, "routine") /\ "routine" \in InsideAt /\ "leave" \in InsideAt
      /\ "leave" \in CallAt
  BY DEF RoutineReturns, InsideAt, CallAt
<1>2. Current(t) \in CallRec /\ Inside(t) # {}
  BY <1>1, InsideTop DEF At
<1>3. UNCHANGED <<once, srwlock, lock_owner, level, runs>> /\ completed' \subseteq Control
  BY <1>2 DEF RoutineReturns, OnceInv, OnceTypeOK, CallRec
<1>4. /\ OnlyStackOf(t) /\ StackShape(t)'
      /\ \A l : At(t, l)' <=> l = "leave"
      /\ Inside(t)' = Inside(t) /\ returned' = returned
  BY <1>1, TopMoves DEF RoutineReturns
<1>5. AllInside' = AllInside /\ Owns(t) /\ Owns(t)'
  BY <1>2, <1>4, InsideSame DEF Owns
<1> QED
  BY <1>3, <1>4, <1>5, InvariantFromParts DEF OnceInv, OnceTypeOK

\* The recursion level tells the outermost call, and that one alone, to give
\* the lock back.
LEMMA LeaveLevelKeeps ==
    ASSUME OnceInv, NEW t \in Thread, LeaveLevel(t)
    PROVE  OnceInv'
<1> DEFINE n == Len(calls[t])
<1>1. At(t, "leave") /\ "leave" \in InsideAt /\ "disown" \notin InsideAt
      /\ "disown" \in CallAt
  BY DEF LeaveLevel, InsideAt, CallAt
<1>2. UNCHANGED <<once, srwlock, lock_owner, runs, completed>> /\ level' = level - 1
  BY DEF LeaveLevel
<1>3. InCall(t) /\ n \in Nat \ {0} /\ n \in Inside(t)
      /\ (\A i \in 1 .. n - 1 : i \in Inside(t))
  BY <1>1, InsideTop DEF At
<1>4. Owns(t) /\ lock_owner = t /\ srwlock = t
  BY <1>3 DEF Owns, OnceInv
<1>5. CASE level - 1 = 0
  <2>1. Step(t, "disown")
    BY <1>5 DEF LeaveLevel
  <2>2. Cardinality(AllInside) = 1 /\ IsFiniteSet(AllInside)
    BY <1>5, FS_CardinalityType DEF OnceInv
  <2>3. \A p, q \in AllInside : p = q
    BY <2>2, FS_Singleton
  <2>4. n = 1
    <3>1. SUFFICES ASSUME n # 1 PROVE FALSE
      OBVIOUS
    <3>2. \A k \in Nat : k # 0 /\ k # 1 => 1 \in 1 .. k - 1
      OBVIOUS
    <3>3. 1 \in Inside(t)
      BY <1>3, <3>1, <3>2
    <3>4. <<1, t>> \in AllInside /\ <<n, t>> \in AllInside
      BY <1>3, <3>3, InsidePairs
    <3> QED
      BY <2>3, <3>1, <3>4
  <2>5. /\ OnlyStackOf(t) /\ StackShape(t)'
        /\ \A l : At(t, l)' <=> l = "disown"
        /\ Inside(t)' = Inside(t) \ {n} /\ returned' = returned
    BY <1>1, <2>1, <2>4, TopMoves
  <2>6. IsFiniteSet(AllInside') /\ level' = Cardinality(AllInside')
    BY <1>2, <1>3, <2>5, InsideShrinks DEF OnceInv
  <2>7. Owns(t)'
    BY <2>5 DEF Owns
  <2> QED
    BY <1>2, <1>4, <2>5, <2>6, <2>7, InvariantFromParts DEF OnceInv, OnceTypeOK
<1>6. CASE level - 1 # 0
  <2>1. Return(t)
    BY <1>6 DEF LeaveLevel
  <2>2. /\ OnlyStackOf(t) /\ StackShape(t)'
        /\ \A l : At(t, l)' => l = "routine"
        /\ Inside(t)' = Inside(t) \ {n} /\ returned' \subseteq Control
    BY <1>1, <2>1, TopReturns
  <2>3. IsFiniteSet(AllInside') /\ level' = Cardinality(AllInside')
    BY <1>2, <1>3, <2>2, InsideShrinks DEF OnceInv
  <2>4. AllInside' # {}
    BY <1>2, <1>6, <2>3, FS_EmptySet
  <2>5. PICK p : p \in AllInside'
    BY <2>4
  <2>6. PICK u \in Thread : \E i \in Inside(u)' : p = <<i, u>>
    BY <2>5 DEF AllInside
  <2>7. u = t
    <3>1. SUFFICES ASSUME u # t PROVE FALSE
      OBVIOUS
    <3>2. Inside(u) # {}
      BY <2>2, <2>6, <3>1, OthersStay
    <3> QED
      BY <1>4, <3>1, <3>2 DEF OnceInv, Owns
  <2>8. Owns(t)'
    BY <2>6, <2>7 DEF Owns
  <2> QED
    BY <1>2, <1>4, <2>2, <2>3, <2>8, InvariantFromParts DEF OnceInv, OnceTypeOK
<1> QED
  BY <1>5, <1>6

\* The owner is forgotten while the lock is still held.
LEMMA DisownKeeps ==
    ASSUME OnceInv, NEW t \in Thread, Disown(t)
    PROVE  OnceInv'
<1>1. At(t, "disown") /\ "disown" \notin InsideAt /\ "release" \notin InsideAt
      /\ "release" \in CallAt
  BY DEF Disown, InsideAt, CallAt
<1>2. UNCHANGED <<once, srwlock, level, runs, completed>> /\ lock_owner' = NoThread
  BY DEF Disown
<1>3. Len(calls[t]) = 1 /\ Inside(t) = {}
  BY <1>1, AloneOutside DEF OnceInv, StackShape, At
<1>4. lock_owner = t /\ srwlock = t
  BY <1>1 DEF OnceInv, Owns
<1>5. /\ OnlyStackOf(t) /\ StackShape(t)'
      /\ \A l : At(t, l)' <=> l = "release"
      /\ Inside(t)' = Inside(t) /\ returned' = returned
  BY <1>1, <1>3, TopMoves DEF Disown
<1>6. AllInside' = AllInside /\ ~Owns(t)'
  BY <1>3, <1>5, InsideSame DEF Owns
<1> QED
  BY <1>2, <1>4, <1>5, <1>6, OnceAssumption, InvariantFromParts
     DEF OnceInv, OnceTypeOK

\* The lock is released by the thread that holds it, as its last call returns.
LEMMA ReleaseKeeps ==
    ASSUME OnceInv, NEW t \in Thread, Release(t)
    PROVE  OnceInv'
<1>1. At(t, "release") /\ "release" \notin InsideAt
  BY DEF Release, InsideAt
<1>2. UNCHANGED <<once, lock_owner, level, runs, completed>> /\ srwlock' = NoThread
  BY DEF Release
<1>3. Len(calls[t]) = 1 /\ Inside(t) = {} /\ ~Owns(t)
  BY <1>1, AloneOutside DEF OnceInv, StackShape, At
<1>4. srwlock = t
  BY <1>1 DEF OnceInv
<1>5. /\ OnlyStackOf(t) /\ StackShape(t)'
      /\ \A l : At(t, l)' => l = "routine"
      /\ Inside(t)' = Inside(t) /\ returned' \subseteq Control
  BY <1>1, TopReturns DEF Release
<1>6. AllInside' = AllInside /\ ~Owns(t)'
  BY <1>3, <1>5, InsideSame DEF Owns
<1> QED
  BY <1>2, <1>3, <1>4, <1>5, <1>6, InvariantFromParts DEF OnceInv, OnceTypeOK

\* A thread enters mm_thr_once() from its own code.
LEMMA CallOnceKeeps ==
    ASSUME OnceInv, NEW t \in Thread, NEW c \in Control, CallOnce(t, c)
    PROVE  OnceInv'
<1>1. calls[t] = <<>> /\ Push(t, c)
      /\ UNCHANGED <<once, srwlock, lock_owner, level, runs, completed, returned>>
  BY DEF CallOnce, InCall
<1>2. /\ OnlyStackOf(t) /\ InCall(t)' /\ Current(t)' = Call(c, "check", {})
      /\ Len(calls'[t]) = Len(calls[t]) + 1
      /\ Inside(t)' = Inside(t)
  BY <1>1, CallPushed DEF OnceInv
<1>3. Current(t)'.at = "check" /\ Len(calls'[t]) = 1
  BY <1>1, <1>2 DEF Call
<1>4. StackShape(t)'
  BY <1>3 DEF StackShape
<1>5. AllInside' = AllInside /\ Owns(t)' = Owns(t)
  BY <1>1, <1>2, <1>3, InsideSame DEF Owns, At, InCall
<1>6. ~At(t, "mark")' /\ ~At(t, "claim")' /\ ~At(t, "release")'
  BY <1>3 DEF At
<1> QED
  BY <1>1, <1>2, <1>4, <1>5, <1>6, InvariantFromParts DEF OnceInv, OnceTypeOK

-----------------------------------------------------------------------------
(***************************************************************************)
(* The theorem                                                             *)
(***************************************************************************)

\* No call has been made.
LEMMA OnceInitHolds ==
    ASSUME OnceInit PROVE OnceInv
<1>1. calls \in [Thread -> Seq(CallRec)] /\ \A t \in Thread : calls[t] = <<>>
  BY DEF OnceInit
<1>2. \A t \in Thread : ~InCall(t) /\ Inside(t) = {} /\ StackShape(t)
  BY <1>1 DEF InCall, Inside, StackShape
<1>3. AllInside = {}
  BY <1>2 DEF AllInside
<1>4. OnceTypeOK
  BY <1>1 DEF OnceInit, OnceTypeOK
<1> QED
  BY <1>1, <1>2, <1>3, <1>4, FS_EmptySet, OnceAssumption
     DEF OnceInit, OnceInv, Owns, At

\* The steps of the life cycle leave the state of the initialisations alone.
LEMMA OnceUntouched ==
    ASSUME OnceInv, UNCHANGED onceVars
    PROVE  OnceInv'
  BY DEF OnceInv, onceVars, OnceTypeOK, StackShape, Owns, AllInside, Inside, At,
     InCall, Current

\* The inductive invariant of the recursive lock: the stacks of calls have their
\* shape, the registered owner is the one thread that is inside and holds the
\* SRW lock, and the recursion level is the number of its calls that are inside.
THEOREM OnceInvariant == Spec => []OnceInv
<1>1. Init => OnceInv
  BY OnceInitHolds DEF Init
<1>2. ASSUME OnceInv, Next PROVE OnceInv'
  <2>1. ASSUME NEW t \in Life, Initialise(t) PROVE OnceInv'
    BY <1>2, <2>1, CallOnceKeeps, ThreadsAssumption DEF Initialise, Life
  <2>2. ASSUME NEW t \in Life, OnceStep(t) PROVE OnceInv'
    BY <1>2, <2>2, ThreadsAssumption, OnceCheckKeeps, OwnerTestKeeps, AcquireKeeps,
       ClaimKeeps, EnterLevelKeeps, TestOnceKeeps, MarkOnceKeeps,
       RoutineCallsKeeps, RoutineReturnsKeeps, LeaveLevelKeeps, DisownKeeps,
       ReleaseKeeps DEF OnceStep, Life
  <2>3. ASSUME UNCHANGED onceVars PROVE OnceInv'
    BY <1>2, <2>3, OnceUntouched
  <2> QED
    BY <1>2, <2>1, <2>2, <2>3 DEF Next, ThreadStep, OnceProgress, AskSelf,
       RoutineEnds, Begins, Exits, ClientActs, Finished, vars
<1>3. ASSUME OnceInv, UNCHANGED vars PROVE OnceInv'
  BY <1>3, OnceUntouched DEF vars
<1> QED
  BY <1>1, <1>2, <1>3, PTL DEF Spec

\* mm_thr_once(): whatever threads call it at the same time and however the
\* routines call each other, no routine is started twice; who is inside holds
\* the lock and is its registered owner, and the level counts the calls inside.
THEOREM OnceRunsAtMostOnce == Spec => []RunsAtMostOnce
<1>1. OnceInv => RunsAtMostOnce
  BY DEF OnceInv, RunsAtMostOnce, Owns, AllInside
<1> QED
  BY <1>1, OnceInvariant, PTL
=============================================================================
