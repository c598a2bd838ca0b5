---------------------------- MODULE RobustMutex ----------------------------
(***************************************************************************)
(* The process shared mutex when threads die.                              *)
(*                                                                         *)
(* The death of a thread closes its pipe. The server then reports the      *)
(* thread, from the robust data it shares with it, to the cleanup job of   *)
(* the lock (src/lock-referee-server.c), and hands the job to a thread     *)
(* that waits for the lock. That thread undoes what the dead did to the    *)
(* lock word and acknowledges the job (cleanup_mutex_lock() in             *)
(* src/pshared-lock.c). The mutex then tells its next owner EOWNERDEAD.    *)
(*                                                                         *)
(* Memory the server has released is never reused in the model: the first  *)
(* use of a freed client sets freedUse and the server stops there, since   *)
(* nothing can be said of what it does next.                               *)
(***************************************************************************)
EXTENDS PsharedMutex, SequencesExt

CONSTANTS
    Mortal,         \* the threads that may die
    DeathPC,        \* where they may die
    Diligent        \* the threads that never unlock an inconsistent mutex

ASSUME MortalAssumption ==
    /\ Mortal \subseteq Thread
    /\ Diligent \subseteq Thread

VARIABLES
    job,            \* lock->job
    cleanup_val,    \* locals lockval, then cleanup_val, of the cleanup
    freed,          \* clients that thread_client_destroy() has freed
    freedUse,       \* the server has used a freed client
    inconsistent    \* history: an owner died and nobody called consistent

jobVars == <<job, cleanup_val>>
faultVars == <<freed, freedUse>>
allVars == <<vars, jobVars, faultVars, inconsistent>>

CleanupPC == {"cl_load", "cl_scan", "cl_add", "cl_clear", "cl_ack"}
RobustPC == PC \cup CleanupPC \cup {"dead"}

Alive(t) == pc[t] # "dead"

CleanupDoneReq(n) == [opcode |-> "CLEANUP_DONE", num_wakeup |-> n]
DeadThread(t, w) == [tid |-> t, is_waiter |-> w]
NoJob == [exists |-> FALSE, in_progress |-> FALSE, deadlist |-> <<>>]

RobustInit ==
    /\ Init
    /\ job = NoJob
    /\ cleanup_val = [t \in Thread |-> NoChange]
    /\ freed = {}
    /\ freedUse = FALSE
    /\ inconsistent = FALSE

-----------------------------------------------------------------------------
(***************************************************************************)
(* Deaths. A thread that dies leaves the lock word, its robust data and    *)
(* the request it has sent as they are.                                    *)
(***************************************************************************)
\* TransactNamedPipe() fails on a pipe with an unread response, and
\* mm_check() then aborts the process.
CannotTransact(t) == pc[t] \in {"wait", "wake", "cl_ack"} /\ resp[t] # <<>>

Die(t) ==
    /\ (t \in Mortal /\ pc[t] \in DeathPC) \/ CannotTransact(t)
    /\ Goto(t, "dead")
    /\ oldval' = [oldval EXCEPT ![t] = ZeroLock]
    /\ notified' = [notified EXCEPT ![t] = FALSE]
    /\ unrecoverable' = [unrecoverable EXCEPT ![t] = FALSE]
    /\ Return(t, "none")
    /\ resp' = [resp EXCEPT ![t] = <<>>]
    /\ cleanup_val' = [cleanup_val EXCEPT ![t] = NoChange]
    /\ inconsistent' = (inconsistent \/ t \in Owners)
    /\ UNCHANGED <<lock, ops, robustVars, lk, req, job, freed, freedUse>>

-----------------------------------------------------------------------------
(***************************************************************************)
(* cleanup_mutex_lock(), run by a waiter the server has chosen.            *)
(***************************************************************************)
CleanupStart(t) ==
    /\ pc[t] = "waiting"
    /\ resp[t] # <<>>
    /\ Head(resp[t]) = "CLEANUP"
    /\ resp' = [resp EXCEPT ![t] = Tail(@)]
    /\ Goto(t, "cl_load")
    /\ UNCHANGED <<lock, oldval, notified, unrecoverable, retval, ops,
                   robustVars, lk, req, jobVars>>

CleanupLoad(t) ==
    /\ pc[t] = "cl_load"
    /\ Observe(t, lock)
    /\ Goto(t, "cl_scan")
    /\ UNCHANGED <<lock, notified, unrecoverable, retval, ops, robustVars,
                   refereeVars, jobVars>>

\* Mutant of get_lockval_change: the dead owner stays in the owner field.
get_lockval_change_KeepsOwner(v, is_waiting, tid) ==
    IF is_thread_mtx_owner(v, tid) THEN Delta(0, 1, 0, 0)
    ELSE IF is_thread_mtx_waiterlist_owner(v, tid)
         THEN Negate(mtx_lockval(0, tid, 1))
    ELSE IF is_waiting THEN Negate(mtx_lockval(0, 0, 1))
    ELSE NoChange

\* Mutant of get_lockval_change: MTX_NEED_RECOVER is not set.
get_lockval_change_NoRecover(v, is_waiting, tid) ==
    IF is_thread_mtx_owner(v, tid) THEN Delta(0, 0, 0, -tid)
    ELSE IF is_thread_mtx_waiterlist_owner(v, tid)
         THEN Negate(mtx_lockval(0, tid, 1))
    ELSE IF is_waiting THEN Negate(mtx_lockval(0, 0, 1))
    ELSE NoChange

\* What one dead thread did to the lock value v, negated.
get_lockval_change(v, is_waiting, tid) ==
    IF is_thread_mtx_owner(v, tid) THEN Delta(0, 1, 0, -tid)
    ELSE IF is_thread_mtx_waiterlist_owner(v, tid)
         THEN Negate(mtx_lockval(0, tid, 1))
    ELSE IF is_waiting THEN Negate(mtx_lockval(0, 0, 1))
    ELSE NoChange

CleanupChange(v, deadlist) ==
    FoldSeq(LAMBDA d, acc : Plus(acc, get_lockval_change(v, d.is_waiter, d.tid)),
            NoChange, deadlist)

CleanupScan(t) ==
    /\ pc[t] = "cl_scan"
    /\ cleanup_val' = [cleanup_val EXCEPT ![t] =
                          CleanupChange(oldval[t], job.deadlist)]
    /\ Goto(t, "cl_add")
    /\ UNCHANGED <<lock, oldval, notified, unrecoverable, retval, ops,
                   robustVars, refereeVars, job>>

CleanupAdd(t) ==
    /\ pc[t] = "cl_add"
    /\ lock' = LockAdd(lock, cleanup_val[t])
    /\ Observe(t, lock')
    /\ cleanup_val' = [cleanup_val EXCEPT ![t] = NoChange]
    /\ Goto(t, "cl_clear")
    /\ UNCHANGED <<notified, unrecoverable, retval, ops, robustVars,
                   refereeVars, job>>

\* job->num_dead = 0, whatever the server has added since the scan.
CleanupClear(t) ==
    /\ pc[t] = "cl_clear"
    /\ job' = [job EXCEPT !.deadlist = <<>>]
    /\ Goto(t, "cl_ack")
    /\ UNCHANGED <<lock, oldval, notified, unrecoverable, retval, ops,
                   robustVars, refereeVars, cleanup_val>>

\* Mutant of CleanupAck: the test of the owner is inverted.
CleanupAck_Inverted(t) ==
    /\ pc[t] = "cl_ack"
    /\ resp[t] = <<>>
    /\ req' = [req EXCEPT ![t] =
                  CleanupDoneReq(IF is_mtx_waited(oldval[t])
                                    /\ is_mtx_locked(oldval[t])
                                 THEN 1 ELSE 0)]
    /\ Observe(t, ZeroLock)
    /\ Goto(t, "waiting")
    /\ UNCHANGED <<lock, notified, unrecoverable, retval, ops, robustVars,
                   lk, resp, jobVars>>

CleanupAck(t) ==
    /\ pc[t] = "cl_ack"
    /\ resp[t] = <<>>
    /\ req' = [req EXCEPT ![t] =
                  CleanupDoneReq(IF is_mtx_waited(oldval[t])
                                    /\ ~is_mtx_locked(oldval[t])
                                 THEN 1 ELSE 0)]
    /\ Observe(t, ZeroLock)
    /\ Goto(t, "waiting")
    /\ UNCHANGED <<lock, notified, unrecoverable, retval, ops, robustVars,
                   lk, resp, jobVars>>

Cleanup(t) ==
    \/ CleanupStart(t) \/ CleanupLoad(t) \/ CleanupScan(t)
    \/ CleanupAdd(t) \/ CleanupClear(t) \/ CleanupAck(t)

-----------------------------------------------------------------------------
(***************************************************************************)
(* The server. Its queue may hold freed clients: appending writes into the *)
(* last node, a wake-up reads the nodes it drops and writes into the next. *)
(***************************************************************************)
AppendUsesFreed ==
    /\ lk.waiters_queue # <<>>
    /\ lk.waiters_queue[Len(lk.waiters_queue)].tc \in freed

WakeUsesFreed(n) ==
    n > 0 /\ \E i \in DOMAIN lk.waiters_queue :
                i <= n + 1 /\ lk.waiters_queue[i].tc \in freed

\* The answer to a dead client may fail at once, and thread_client_destroy()
\* then frees the client that read_completed() goes on using.
AnswerToDead(t) == IF Alive(t) THEN {FALSE} ELSE BOOLEAN

ServeWait(t) ==
    /\ ~freedUse
    /\ HandleWait(t)
    /\ freedUse' \in IF WokenInAdvance(lk, 1) THEN AnswerToDead(t)
                                              ELSE {AppendUsesFreed}
    /\ UNCHANGED jobVars

ServeWake(t) ==
    /\ ~freedUse
    /\ HandleWake(t)
    /\ freedUse' \in IF WakeUsesFreed(req[t].num_wakeup) THEN {TRUE}
                                                        ELSE AnswerToDead(t)
    /\ UNCHANGED jobVars

\* lock_report_cleanup_job_done() then lock_wake_waiters(); no answer.
ServeCleanupDone(t) ==
    /\ ~freedUse
    /\ req[t].opcode = "CLEANUP_DONE"
    /\ req' = [req EXCEPT ![t] = NoReq]
    /\ job' = [job EXCEPT !.in_progress = FALSE]
    /\ lk' = lock_wake_waiters(lk, req[t].num_wakeup, 1)
    /\ resp' = Answer(resp, WokenBy(lk, req[t].num_wakeup, 1), "WAIT")
    /\ freedUse' = WakeUsesFreed(req[t].num_wakeup)
    /\ UNCHANGED <<lock, threadVars, robustVars, cleanup_val>>

\* thread_client_cleanup_robust_data(): once for each locked key, once for the
\* key of the operation in progress.
lock_report_dead(t) ==
    LET locked == [i \in 1 .. num_locked[t] |-> DeadThread(t, FALSE)]
        tried  == IF attempt[t] THEN <<DeadThread(t, is_waiter[t])>> ELSE <<>>
    IN  IF locked \o tried = <<>> THEN job
        ELSE [job EXCEPT !.exists = TRUE, !.deadlist = @ \o locked \o tried]

\* thread_client_destroy(), when the read of the closed pipe fails. The code
\* tests waiting_lock_key, which nothing sets, so the client stays in the
\* queue it sleeps in.
Destroy(t) ==
    /\ ~freedUse
    /\ ~Alive(t)
    /\ t \notin freed
    /\ req[t] = NoReq
    /\ job' = lock_report_dead(t)
    /\ freed' = freed \cup {t}
    /\ UNCHANGED <<vars, cleanup_val, freedUse, inconsistent>>

(***************************************************************************)
(* lockref_server_garbage_collection() drops unused locks, then starts a   *)
(* pending cleanup job or removes an empty one.                            *)
(***************************************************************************)
DropUnused ==
    /\ ~freedUse
    /\ ~job.exists
    /\ GarbageCollect
    /\ UNCHANGED <<jobVars, faultVars, inconsistent>>

RemoveJob ==
    /\ ~freedUse
    /\ job.exists /\ ~job.in_progress /\ job.deadlist = <<>>
    /\ job' = NoJob
    /\ UNCHANGED <<vars, cleanup_val, faultVars, inconsistent>>

StartJob ==
    /\ ~freedUse
    /\ job.exists /\ ~job.in_progress /\ job.deadlist # <<>>
    /\ lk.waiters_queue # <<>>
    /\ job' = [job EXCEPT !.in_progress = TRUE]
    /\ LET tc == Head(lk.waiters_queue).tc
       IN  /\ resp' = Answer(resp, {tc}, "CLEANUP")
           /\ freedUse' = (tc \in freed)
    /\ UNCHANGED <<lock, threadVars, robustVars, lk, req, cleanup_val, freed,
                   inconsistent>>

-----------------------------------------------------------------------------
\* A diligent owner calls consistent before it unlocks.
MayUnlock(t) == t \in Diligent => ~(pc[t] = "held" /\ is_mtx_ownerdead(lock))

RobustThreadStep(t) ==
    \/ /\ Lock(t) \/ Trylock(t) \/ FinishLock(t)
          \/ (MayUnlock(t) /\ Unlock(t))
       /\ UNCHANGED <<jobVars, faultVars, inconsistent>>
    \/ /\ Consistent(t)
       /\ inconsistent' = FALSE
       /\ UNCHANGED <<jobVars, faultVars>>
    \/ /\ Cleanup(t)
       /\ UNCHANGED <<faultVars, inconsistent>>

RobustServe(t) ==
    \/ /\ ServeWait(t) \/ ServeWake(t) \/ ServeCleanupDone(t)
       /\ UNCHANGED <<freed, inconsistent>>
    \/ Destroy(t)

RobustCollect == DropUnused \/ RemoveJob \/ StartJob

\* The calls that MaxOps allows are over, or the server has stopped.
RobustFinished ==
    /\ freedUse \/ (ops = MaxOps /\ \A t \in Thread : pc[t] \in {"idle", "dead"})
    /\ UNCHANGED allVars

RobustNext ==
    \/ \E t \in Thread : RobustThreadStep(t) \/ RobustServe(t) \/ Die(t)
    \/ RobustCollect
    \/ RobustFinished

\* Threads inside a call are scheduled, the server handles what it receives and
\* collects after it; nobody has to call lock, and nobody has to be killed.
RobustRunning(t) == pc[t] # "idle" /\ RobustThreadStep(t)
RobustFairness ==
    /\ \A t \in Thread : /\ WF_allVars(RobustRunning(t))
                         /\ WF_allVars(RobustServe(t))
                         /\ WF_allVars(CannotTransact(t) /\ Die(t))
    /\ WF_allVars(RobustCollect)

RobustSpec == RobustInit /\ [][RobustNext]_allVars
RobustFairSpec == RobustSpec /\ RobustFairness
-----------------------------------------------------------------------------
(***************************************************************************)
(* Properties                                                              *)
(***************************************************************************)

\* Every variable has its type.
RobustTypeOK ==
    /\ lock \in LockValue
    /\ pc \in [Thread -> RobustPC]
    /\ oldval \in [Thread -> LockValue]
    /\ job.exists \in BOOLEAN /\ job.in_progress \in BOOLEAN
    /\ job.deadlist \in Seq([tid : Thread, is_waiter : BOOLEAN])
    /\ freed \subseteq Thread
    /\ freedUse \in BOOLEAN /\ inconsistent \in BOOLEAN

\* Lock and trylock report the death of the previous owner, and nothing else,
\* with EOWNERDEAD: whoever takes the mutex after an owner died in possession
\* of it, and before somebody called pshared_mtx_consistent(), is told so.
\* (mm_thr_mutex_consistent(), src/thread-posix.c: a thread notified of
\* EOWNERDEAD that "terminates before calling either mm_thr_mutex_consistent()
\* or mm_thr_mutex_unlock()" passes the state on to the next owner.)
OwnerDeathReported ==
    [][\A t \in Thread :
          (pc[t] # "fin_locked" /\ pc'[t] = "fin_locked") =>
              ((retval'[t] = "EOWNERDEAD") <=> inconsistent)]_allVars

\* The cleanup undoes what the dead did: once the server has reported every
\* dead thread and the job is empty, the owner field is null or names a thread
\* that owns the mutex, and every variable keeps its type. The server reports
\* only the dead, and never uses a client that it has freed.
DeathUndone ==
    /\ RobustTypeOK
    /\ ~freedUse /\ \A t \in freed : ~Alive(t)
    /\ (/\ \A t \in Thread : ~Alive(t) => t \in freed
        /\ job.deadlist = <<>>
        /\ \A t \in Thread : pc[t] \notin CleanupPC)
       => \/ lock.owner \in {0} \cup Owners
          \/ is_mtx_unrecoverable(lock)

\* Every lock, trylock and unlock call returns, whatever the other threads and
\* the server do, also when the mutex was left locked by a dead thread: its
\* waiters are not forgotten. Only a thread that is killed does not return, or
\* one whose process aborts because it was answered twice, and that happens
\* only after a thread was killed.
EverySurvivorReturns ==
    \A t \in Thread :
        pc[t] # "idle" ~> \/ pc[t] = "idle"
                          \/ ~Alive(t) /\ \E u \in Mortal : ~Alive(u)
=============================================================================
