------------------------------ MODULE Threads ------------------------------
(***************************************************************************)
(* The threads of a Windows process: their life cycle, and the one-time    *)
(* initialisations they race for while they run. Each thread makes one     *)
(* call of mm_thr_once() from its routine.                                 *)
(***************************************************************************)
EXTENDS Once, ThreadLifecycle

ASSUME ThreadsAssumption == Thread = Worker \cup External

VARIABLE called     \* the threads that have made their call of mm_thr_once()

vars == <<onceVars, lifeVars, called>>

\* Values for NestedIn: each routine initialises all the other controls, so
\* that routines call each other in a circle; or none does.
Circular == [c \in Control |-> Control \ {c}]
Flat == [c \in Control |-> {}]

Init == OnceInit /\ LifeInit /\ called = {}

Initialise(t) ==
    /\ tpc[t] = "routine"
    /\ t \notin called
    /\ \E c \in Control : CallOnce(t, c)
    /\ called' = called \cup {t}
    /\ UNCHANGED lifeVars

OnceProgress(t) == OnceStep(t) /\ UNCHANGED <<lifeVars, called>>

AskSelf(t) == ~InCall(t) /\ Self(t) /\ UNCHANGED <<onceVars, called>>

RoutineEnds(t) ==
    /\ t \in called /\ ~InCall(t)
    /\ ReturnRoutine(t)
    /\ UNCHANGED <<onceVars, called>>

Begins(t) == StartRoutine(t) /\ UNCHANGED <<onceVars, called>>
Exits(t) == ExitStep(t) /\ UNCHANGED <<onceVars, called>>
ClientActs(t) == ClientStep(t) /\ UNCHANGED <<onceVars, called>>

Finished ==
    /\ \A t \in Life : \/ tpc[t] = "ended" /\ cpc[t] \in {"none", "joined", "detached"}
                       \/ cpc[t] = "failed"
    /\ UNCHANGED vars

ThreadStep(t) ==
    Begins(t) \/ Initialise(t) \/ OnceProgress(t) \/ RoutineEnds(t) \/ Exits(t)

Next ==
    \/ \E t \in Life : ThreadStep(t) \/ AskSelf(t) \/ ClientActs(t)
    \/ Finished

Spec == Init /\ [][Next]_vars

\* The system schedules every thread. The SRW lock need not be fair: a thread
\* that waits for it competes with finitely many calls. No fairness is put on
\* AskSelf(): a thread need not ask for itself.
FairSpec == Spec /\ \A t \in Life : WF_vars(ThreadStep(t)) /\ WF_vars(ClientActs(t))
-----------------------------------------------------------------------------
(***************************************************************************)
(* Properties                                                              *)
(***************************************************************************)

\* Routines that initialise each other in a circle, from several threads at
\* once, block nobody: every call of mm_thr_once() returns.
EveryOnceReturns == \A t \in Thread : InCall(t) ~> ~InCall(t)
=============================================================================
