-------------------------- MODULE PsharedCondProofs --------------------------
(***************************************************************************)
(* Proofs about the process shared condition variable between one waiter   *)
(* and one notifier, for any number of tokens. (With a second waiter or a  *)
(* second notifier signals are lost: run cond_lost_signal.)                *)
(***************************************************************************)
EXTENDS PsharedCond, RefereeLockProofs, SequenceTheorems, TLAPS

-----------------------------------------------------------------------------
(***************************************************************************)
(* The inductive invariant, for the waiter w and the notifier n            *)
(***************************************************************************)
WaiterPC == {"out", "enter", "check", "release", "wait", "waiting", "relock", "end"}
NotifierPC == {"out", "enter", "add", "load_waiter", "load_wakeup", "fetch", "wake",
               "waking", "end"}
ReqRec == [opcode : {"none", "WAIT", "WAKE"}, val : Nat, num_wakeup : Nat]

CondTypes(w, n) ==
    /\ status \in [Thread -> Mutex!Status]
    /\ pc \in [Thread -> PC] /\ pc[w] \in WaiterPC /\ pc[n] \in NotifierPC
    /\ waiter_seq \in Nat /\ wakeup_seq \in Nat
    /\ waiter_val \in [Thread -> Nat]
    /\ wakeup_val \in [Thread -> Nat]
    /\ num_waiter \in [Thread -> Nat]
    /\ produced \in 0 .. MaxTokens /\ consumed \in 0 .. produced
    /\ pc[n] \in {"enter", "add"} => produced < MaxTokens
    /\ DOMAIN lk = {"nwaiter", "max_wakeup_val", "waiters_queue"}
    /\ lk.nwaiter \in Int /\ lk.max_wakeup_val \in Nat
    /\ req \in [Thread -> ReqRec] /\ resp \in [Thread -> BOOLEAN]

\* Where the wait of w stands: there is none, or w is on its way to sleep, or
\* sleeps, or has been answered.
Awake(w) == /\ pc[w] \notin {"release", "wait", "waiting"} /\ ~resp[w]
            /\ req[w] = NoReq /\ lk.waiters_queue = <<>>
GoesToSleep(w) ==
    /\ lk.waiters_queue = <<>> /\ ~resp[w] /\ waiter_seq > 0
    /\ \/ /\ pc[w] \in {"release", "wait"} /\ req[w] = NoReq
          /\ wakeup_val[w] = waiter_seq - 1
       \/ pc[w] = "waiting" /\ req[w] = WaitReq(waiter_seq - 1)
Sleeps(w) == /\ pc[w] = "waiting" /\ req[w] = NoReq /\ ~resp[w] /\ waiter_seq > 0
             /\ lk.waiters_queue = <<Waiter(w, waiter_seq - 1)>>
Answered(w) == /\ pc[w] = "waiting" /\ req[w] = NoReq /\ resp[w]
               /\ lk.waiters_queue = <<>>

\* Where the wake-up of n stands: its WAKE is on its way, or there is none.
Wakes(n) ==
    /\ ~resp[n] /\ wakeup_seq > 0
    /\ \/ /\ pc[n] = "wake" /\ req[n] = NoReq
          /\ wakeup_val[n] = wakeup_seq - 1 /\ num_waiter[n] = 1
       \/ pc[n] = "waking" /\ req[n] = WakeReq(wakeup_seq - 1, 1)
WakesNot(n) == /\ req[n] = NoReq /\ pc[n] # "wake"
               /\ resp[n] <=> pc[n] = "waking"

\* A wait is matched by one wake-up: none yet, one on its way, or one that the
\* server has banked.
Matched(w, n) ==
    \/ (Awake(w) \/ Answered(w)) /\ WakesNot(n) /\ lk.nwaiter = 0 /\ waiter_seq = wakeup_seq
    \/ GoesToSleep(w) /\ WakesNot(n) /\ lk.nwaiter = 0 /\ waiter_seq = wakeup_seq + 1
    \/ Sleeps(w) /\ WakesNot(n) /\ lk.nwaiter = 1 /\ waiter_seq = wakeup_seq + 1
    \/ GoesToSleep(w) /\ Wakes(n) /\ lk.nwaiter = 0 /\ waiter_seq = wakeup_seq
    \/ Sleeps(w) /\ Wakes(n) /\ lk.nwaiter = 1 /\ waiter_seq = wakeup_seq
    \/ /\ GoesToSleep(w) /\ WakesNot(n) /\ lk.nwaiter = -1 /\ waiter_seq = wakeup_seq
       /\ lk.max_wakeup_val >= waiter_seq - 1

\* What n knows of the two sequence numbers, and that it looks again after it
\* has produced a token.
Counts(n) ==
    /\ pc[n] = "load_wakeup" => /\ waiter_val[n] \in {wakeup_seq, wakeup_seq + 1}
                                /\ waiter_val[n] <= waiter_seq
    /\ pc[n] = "fetch" => num_waiter[n] = 1 /\ waiter_seq = wakeup_seq + 1
    /\ (waiter_seq = wakeup_seq + 1 /\ consumed < produced) =>
            \/ pc[n] \in {"load_waiter", "fetch"}
            \/ pc[n] = "load_wakeup" /\ waiter_val[n] = waiter_seq

CondInv(w, n) == CondTypes(w, n) /\ Matched(w, n) /\ Counts(n)
-----------------------------------------------------------------------------
(***************************************************************************)
(* Every step keeps the invariant                                          *)
(***************************************************************************)
LEMMA TwoThreads ==
    ASSUME NEW w, NEW n, Waiters = {w}, Notifiers = {n}
    PROVE  w # n /\ Thread = {w, n}
BY CondAssumption DEF Thread

LEMMA InitCondInv ==
    ASSUME NEW w, NEW n, Waiters = {w}, Notifiers = {n}, Init
    PROVE  CondInv(w, n)
<1>1. w # n /\ Thread = {w, n} /\ MaxTokens \in Nat
  BY TwoThreads, CondAssumption
<1>2. CondTypes(w, n)
  BY <1>1 DEF Init, CondTypes, Mutex!AInit, Mutex!Status, PC, WaiterPC, NotifierPC, lock_init,
              NoReq, ReqRec
<1>3. Matched(w, n)
  BY <1>1 DEF Init, Matched, Awake, WakesNot, lock_init
<1>4. Counts(n)
  BY <1>1 DEF Init, Counts
<1> QED
  BY <1>2, <1>3, <1>4 DEF CondInv

\* The mutex: lock, and unlock at the end.
LEMMA MutexSteps ==
    ASSUME NEW w, NEW n, Waiters = {w}, Notifiers = {n}, CondInv(w, n),
           NEW t \in Thread, CallLock(t) \/ Enter(t) \/ Leave(t)
    PROVE  CondInv(w, n)'
<1>1. w # n /\ Thread = {w, n} /\ MaxTokens \in Nat
  BY TwoThreads, CondAssumption
<1>2. UNCHANGED <<waiter_seq, wakeup_seq, waiter_val, wakeup_val, num_waiter, produced,
                  consumed, lk, req, resp>>
  BY DEF CallLock, Enter, Leave, seqVars, localVars, tokenVars, refereeVars
<1>3. status' \in [Thread -> Mutex!Status]
  BY DEF CallLock, Enter, Leave, Mutex!CallLock, Mutex!Enter, Mutex!Unlock, Mutex!Move,
         Mutex!Status, CondInv, CondTypes
<1>4. PICK to \in {"enter", "check", "add", "out"} :
         /\ pc' = [pc EXCEPT ![t] = to]
         /\ pc[t] \in {"out", "relock", "enter", "end"}
         /\ to = "check" => t = w
         /\ to = "add" => t = n /\ pc[n] = "enter"
         /\ to = "enter" /\ t = n => produced < MaxTokens
  <2>1. CASE CallLock(t)
    <3>1. t = n => produced < MaxTokens
      <4>1. SUFFICES ASSUME t = n PROVE produced < MaxTokens
        OBVIOUS
      <4>2. pc[n] = "out" /\ produced + Producing < MaxTokens
        BY <1>1, <2>1, <4>1 DEF CallLock, CondInv, CondTypes, NotifierPC
      <4>3. {x \in Notifiers : pc[x] \in {"enter", "add"}} = {}
        BY <4>2
      <4>4. Producing = 0
        BY <4>3, FS_EmptySet DEF Producing
      <4> QED
        BY <1>1, <4>2, <4>4 DEF CondInv, CondTypes
    <3> QED
      BY <2>1, <3>1 DEF CallLock, Goto
  <2>2. CASE Enter(t)
    BY <1>1, <2>2 DEF Enter, Goto
  <2>3. CASE Leave(t)
    BY <2>3 DEF Leave, Goto
  <2> QED
    BY <2>1, <2>2, <2>3
<1>5. \A u \in Thread : pc'[u] = IF u = t THEN to ELSE pc[u]
  BY <1>4 DEF CondInv, CondTypes
<1>6. CondTypes(w, n)'
  <2>1. pc' \in [Thread -> PC]
    BY <1>4 DEF CondInv, CondTypes, PC
  <2>2. pc'[w] \in WaiterPC /\ pc'[n] \in NotifierPC
    BY <1>1, <1>4, <1>5 DEF CondInv, CondTypes, WaiterPC, NotifierPC
  <2>3. pc'[n] \in {"enter", "add"} => produced < MaxTokens
    BY <1>1, <1>4, <1>5 DEF CondInv, CondTypes
  <2> QED
    BY <1>2, <1>3, <2>1, <2>2, <2>3 DEF CondInv, CondTypes
<1>7. /\ Awake(w)' <=> Awake(w)
      /\ GoesToSleep(w)' <=> GoesToSleep(w)
      /\ Sleeps(w)' <=> Sleeps(w)
      /\ Answered(w)' <=> Answered(w)
      /\ Wakes(n)' <=> Wakes(n)
      /\ WakesNot(n)' <=> WakesNot(n)
  BY <1>1, <1>2, <1>4, <1>5 DEF Awake, GoesToSleep, Sleeps, Answered, Wakes, WakesNot, WaitReq,
                                WakeReq, NoReq, Waiter
<1>8. Matched(w, n)'
  BY <1>2, <1>7 DEF CondInv, Matched
<1>9. Counts(n)'
  BY <1>1, <1>2, <1>4, <1>5 DEF CondInv, Counts
<1> QED
  BY <1>6, <1>8, <1>9 DEF CondInv
\* The waiter: it consumes a token, or takes a number, unlocks and sends WAIT,
\* and returns when it has been answered.
LEMMA WaiterSteps ==
    ASSUME NEW w, NEW n, Waiters = {w}, Notifiers = {n}, CondInv(w, n),
           NEW t \in Thread, WaiterStep(t)
    PROVE  CondInv(w, n)'
<1>1. w # n /\ Thread = {w, n} /\ MaxTokens \in Nat
  BY TwoThreads, CondAssumption
<1>2. t = w
  BY <1>1 DEF WaiterStep, Consume, WaitSeq, WaitUnlock, SendWait, WaitReturns, CondInv, CondTypes,
              NotifierPC
<1>3. /\ pc \in [Thread -> PC] /\ pc[w] \in WaiterPC /\ pc[n] \in NotifierPC
      /\ waiter_seq \in Nat /\ wakeup_seq \in Nat /\ wakeup_val \in [Thread -> Nat]
      /\ req \in [Thread -> ReqRec] /\ resp \in [Thread -> BOOLEAN]
  BY DEF CondInv, CondTypes
<1>4. CASE Consume(t)
  <2>1. /\ UNCHANGED <<status, waiter_seq, wakeup_seq, waiter_val, wakeup_val, num_waiter,
                       produced, lk, req, resp>>
        /\ pc' = [pc EXCEPT ![w] = "end"] /\ pc[w] = "check"
        /\ consumed' = consumed + 1 /\ produced - consumed > 0
    BY <1>2, <1>4 DEF Consume, Goto, Tokens, seqVars, localVars, refereeVars
  <2>2. pc'[w] = "end" /\ pc'[n] = pc[n]
    BY <1>1, <1>3, <2>1
  <2>3. consumed' \in 0 .. produced /\ (consumed' < produced => consumed < produced)
    BY <2>1 DEF CondInv, CondTypes
  <2>4. CondTypes(w, n)'
    BY <2>1, <2>2, <2>3 DEF CondInv, CondTypes, PC, WaiterPC
  <2>5. Matched(w, n)'
    BY <2>1, <2>2 DEF CondInv, Matched, Awake, GoesToSleep, Sleeps, Answered, Wakes, WakesNot,
                      WakeReq, NoReq
  <2>6. Counts(n)'
    BY <2>1, <2>2, <2>3 DEF CondInv, Counts
  <2> QED
    BY <2>4, <2>5, <2>6 DEF CondInv
<1>5. CASE WaitSeq(t)
  <2>1. /\ UNCHANGED <<status, wakeup_seq, waiter_val, num_waiter, produced, consumed, lk, req,
                       resp>>
        /\ pc' = [pc EXCEPT ![w] = "release"] /\ pc[w] = "check"
        /\ wakeup_val' = [wakeup_val EXCEPT ![w] = waiter_seq]
        /\ waiter_seq' = waiter_seq + 1 /\ produced - consumed = 0
    BY <1>2, <1>5 DEF WaitSeq, Goto, Tokens, tokenVars, refereeVars
  <2>2. /\ pc'[w] = "release" /\ pc'[n] = pc[n]
        /\ wakeup_val'[w] = waiter_seq /\ wakeup_val'[n] = wakeup_val[n]
    BY <1>1, <1>3, <2>1
  <2>3. /\ Awake(w) /\ WakesNot(n) /\ lk.nwaiter = 0 /\ waiter_seq = wakeup_seq
        /\ ~(consumed < produced)
    BY <2>1 DEF CondInv, CondTypes, Matched, GoesToSleep, Sleeps, Answered
  <2>4. CondTypes(w, n)'
    BY <1>3, <2>1, <2>2 DEF CondInv, CondTypes, PC, WaiterPC
  <2>5. Matched(w, n)'
    <3>1. GoesToSleep(w)'
      <4>1. lk'.waiters_queue = <<>> /\ ~resp'[w] /\ req'[w] = NoReq
        BY <2>1, <2>3 DEF Awake
      <4>2. waiter_seq' > 0 /\ wakeup_val'[w] = waiter_seq' - 1
        BY <1>3, <2>1, <2>2
      <4> QED
        BY <2>2, <4>1, <4>2 DEF GoesToSleep, NoReq
    <3>2. WakesNot(n)'
      BY <2>1, <2>2, <2>3 DEF WakesNot, NoReq
    <3> QED
      BY <2>1, <2>3, <3>1, <3>2 DEF Matched
  <2>6. Counts(n)'
    <3>1. pc[n] = "load_wakeup" => waiter_val[n] <= waiter_seq' /\ waiter_val[n] \in {wakeup_seq, wakeup_seq + 1}
      BY <1>3, <2>1 DEF CondInv, Counts
    <3>2. pc[n] # "fetch"
      BY <1>3, <2>3 DEF CondInv, Counts
    <3> QED
      BY <2>1, <2>2, <2>3, <3>1, <3>2 DEF Counts
  <2> QED
    BY <2>4, <2>5, <2>6 DEF CondInv
<1>6. CASE WaitUnlock(t)
  <2>1. /\ UNCHANGED <<waiter_seq, wakeup_seq, waiter_val, wakeup_val, num_waiter, produced,
                       consumed, lk, req, resp>>
        /\ pc' = [pc EXCEPT ![w] = "wait"] /\ pc[w] = "release"
        /\ status' \in [Thread -> Mutex!Status]
    BY <1>2, <1>6 DEF WaitUnlock, Goto, Mutex!Unlock, Mutex!Move, Mutex!Status, CondInv, CondTypes,
                      seqVars, localVars, tokenVars, refereeVars
  <2>2. pc'[w] = "wait" /\ pc'[n] = pc[n]
    BY <1>1, <1>3, <2>1
  <2>3. CondTypes(w, n)'
    BY <1>3, <2>1, <2>2 DEF CondInv, CondTypes, PC, WaiterPC
  <2>4. /\ GoesToSleep(w)' <=> GoesToSleep(w)
        /\ ~Sleeps(w) /\ ~Awake(w) /\ ~Answered(w)
        /\ WakesNot(n)' <=> WakesNot(n)
        /\ Wakes(n)' <=> Wakes(n)
    BY <2>1, <2>2 DEF Awake, GoesToSleep, Sleeps, Answered, Wakes, WakesNot, WakeReq, NoReq, WaitReq
  <2>5. Matched(w, n)'
    BY <2>1, <2>4 DEF CondInv, Matched
  <2>6. Counts(n)'
    BY <2>1, <2>2 DEF CondInv, Counts
  <2> QED
    BY <2>3, <2>5, <2>6 DEF CondInv
<1>7. CASE SendWait(t)
  <2>1. /\ UNCHANGED <<status, waiter_seq, wakeup_seq, waiter_val, num_waiter, produced,
                       consumed, lk, resp>>
        /\ pc' = [pc EXCEPT ![w] = "waiting"] /\ pc[w] = "wait"
        /\ req' = [req EXCEPT ![w] = WaitReq(wakeup_val[w])]
        /\ wakeup_val' = [wakeup_val EXCEPT ![w] = 0]
    BY <1>2, <1>7 DEF SendWait, Goto, seqVars, tokenVars
  <2>2. /\ pc'[w] = "waiting" /\ pc'[n] = pc[n] /\ wakeup_val'[n] = wakeup_val[n]
        /\ req'[w] = WaitReq(wakeup_val[w]) /\ req'[n] = req[n]
    BY <1>1, <1>3, <2>1
  <2>3. WaitReq(wakeup_val[w]) \in ReqRec
    BY <1>1, <1>3 DEF WaitReq, ReqRec
  <2>4. CondTypes(w, n)'
    BY <1>3, <2>1, <2>2, <2>3 DEF CondInv, CondTypes, PC, WaiterPC
  <2>5. /\ GoesToSleep(w) => GoesToSleep(w)'
        /\ ~Sleeps(w) /\ ~Awake(w) /\ ~Answered(w)
        /\ WakesNot(n)' <=> WakesNot(n)
        /\ Wakes(n)' <=> Wakes(n)
    BY <2>1, <2>2 DEF Awake, GoesToSleep, Sleeps, Answered, Wakes, WakesNot, WakeReq, NoReq, WaitReq
  <2>6. Matched(w, n)'
    BY <2>1, <2>5 DEF CondInv, Matched
  <2>7. Counts(n)'
    BY <2>1, <2>2 DEF CondInv, Counts
  <2> QED
    BY <2>4, <2>6, <2>7 DEF CondInv
<1>8. CASE WaitReturns(t)
  <2>1. /\ UNCHANGED <<status, waiter_seq, wakeup_seq, waiter_val, wakeup_val, num_waiter, produced,
                       consumed, lk, req>>
        /\ pc' = [pc EXCEPT ![w] = "relock"] /\ pc[w] = "waiting" /\ resp[w]
        /\ resp' = [resp EXCEPT ![w] = FALSE]
    BY <1>2, <1>8 DEF WaitReturns, Goto, seqVars, localVars, tokenVars
  <2>2. /\ pc'[w] = "relock" /\ pc'[n] = pc[n] /\ ~resp'[w] /\ resp'[n] = resp[n]
    BY <1>1, <1>3, <2>1
  <2>3. CondTypes(w, n)'
    BY <1>3, <2>1, <2>2 DEF CondInv, CondTypes, PC, WaiterPC
  <2>4. /\ Answered(w) => Awake(w)'
        /\ ~Sleeps(w) /\ ~Awake(w) /\ ~GoesToSleep(w)
        /\ WakesNot(n)' <=> WakesNot(n)
    BY <2>1, <2>2 DEF Awake, GoesToSleep, Sleeps, Answered, WakesNot, NoReq
  <2>5. Matched(w, n)'
    BY <2>1, <2>4 DEF CondInv, Matched
  <2>6. Counts(n)'
    BY <2>1, <2>2 DEF CondInv, Counts
  <2> QED
    BY <2>3, <2>5, <2>6 DEF CondInv
<1> QED
  BY <1>4, <1>5, <1>6, <1>7, <1>8 DEF WaiterStep
\* The notifier: it adds a token, reads the two numbers, and sends a WAKE if
\* they say that somebody waits.
LEMMA NotifierSteps ==
    ASSUME NEW w, NEW n, Waiters = {w}, Notifiers = {n}, CondInv(w, n),
           NEW t \in Thread, NotifierStep(t)
    PROVE  CondInv(w, n)'
<1>1. w # n /\ Thread = {w, n} /\ MaxTokens \in Nat
  BY TwoThreads, CondAssumption
<1>2. t = n
  BY <1>1 DEF NotifierStep, Produce, LoadWaiterSeq, LoadWakeupSeq, Signal, Broadcast,
              FetchWakeupSeq, SendWake, WakeReturns, CondInv, CondTypes, WaiterPC
<1>3. /\ pc \in [Thread -> PC] /\ pc[w] \in WaiterPC /\ pc[n] \in NotifierPC
      /\ waiter_seq \in Nat /\ wakeup_seq \in Nat /\ wakeup_val \in [Thread -> Nat]
      /\ waiter_val \in [Thread -> Nat] /\ num_waiter \in [Thread -> Nat]
      /\ req \in [Thread -> ReqRec] /\ resp \in [Thread -> BOOLEAN]
  BY DEF CondInv, CondTypes
<1>4. \/ waiter_seq = wakeup_seq
      \/ waiter_seq = wakeup_seq + 1 /\ (GoesToSleep(w) \/ Sleeps(w)) /\ WakesNot(n)
  BY DEF CondInv, Matched
<1>5. CASE Produce(t)
  <2>1. /\ UNCHANGED <<waiter_seq, wakeup_seq, waiter_val, wakeup_val, num_waiter, consumed, lk,
                       req, resp>>
        /\ pc' = [pc EXCEPT ![n] = "load_waiter"] /\ pc[n] = "add"
        /\ produced' = produced + 1
    BY <1>2, <1>5 DEF Produce, Goto, seqVars, localVars, refereeVars
  <2>2. status' \in [Thread -> Mutex!Status]
    BY <1>5 DEF Produce, Mutex!Unlock, Mutex!Move, Mutex!Status, CondInv, CondTypes
  <2>3. pc'[n] = "load_waiter" /\ pc'[w] = pc[w]
    BY <1>1, <1>3, <2>1
  <2>4. produced' \in 0 .. MaxTokens /\ consumed \in 0 .. produced'
    BY <1>1, <2>1 DEF CondInv, CondTypes
  <2>5. CondTypes(w, n)'
    BY <2>1, <2>2, <2>3, <2>4 DEF CondInv, CondTypes, PC, NotifierPC
  <2>6. Matched(w, n)'
    BY <2>1, <2>3 DEF CondInv, Matched, Awake, GoesToSleep, Sleeps, Answered, Wakes, WakesNot,
                      WakeReq, WaitReq, NoReq, Waiter
  <2>7. Counts(n)'
    BY <2>1, <2>3 DEF Counts
  <2> QED
    BY <2>5, <2>6, <2>7 DEF CondInv
<1>6. CASE LoadWaiterSeq(t)
  <2>1. /\ UNCHANGED <<status, waiter_seq, wakeup_seq, wakeup_val, num_waiter, produced, consumed,
                       lk, req, resp>>
        /\ pc' = [pc EXCEPT ![n] = "load_wakeup"] /\ pc[n] = "load_waiter"
        /\ waiter_val' = [waiter_val EXCEPT ![n] = waiter_seq]
    BY <1>2, <1>6 DEF LoadWaiterSeq, Goto, seqVars, tokenVars, refereeVars
  <2>2. pc'[n] = "load_wakeup" /\ pc'[w] = pc[w] /\ waiter_val'[n] = waiter_seq
    BY <1>1, <1>3, <2>1
  <2>3. CondTypes(w, n)'
    BY <1>3, <2>1, <2>2 DEF CondInv, CondTypes, PC, NotifierPC
  <2>4. Matched(w, n)'
    BY <2>1, <2>2 DEF CondInv, Matched, Awake, GoesToSleep, Sleeps, Answered, Wakes, WakesNot,
                      WakeReq, WaitReq, NoReq, Waiter
  <2>5. Counts(n)'
    BY <1>3, <1>4, <2>1, <2>2 DEF Counts
  <2> QED
    BY <2>3, <2>4, <2>5 DEF CondInv
<1>7. CASE LoadWakeupSeq(t)
  <2> DEFINE k == waiter_val[n] - wakeup_seq
  <2>1. /\ UNCHANGED <<status, waiter_seq, wakeup_seq, wakeup_val, produced, consumed, lk, req, resp>>
        /\ pc' = [pc EXCEPT ![n] = IF k <= 0 THEN "end" ELSE "fetch"] /\ pc[n] = "load_wakeup"
        /\ num_waiter' = [num_waiter EXCEPT ![n] = IF k <= 0 THEN 0 ELSE k]
        /\ waiter_val' = [waiter_val EXCEPT ![n] = 0]
    BY <1>2, <1>7 DEF LoadWakeupSeq, Goto, seqVars, tokenVars, refereeVars
  <2>2. k \in {0, 1} /\ (k = 1 => waiter_seq = wakeup_seq + 1)
        /\ (k = 0 => waiter_val[n] # wakeup_seq + 1)
    <3>1. waiter_val[n] \in {wakeup_seq, wakeup_seq + 1} /\ waiter_val[n] <= waiter_seq
      BY <2>1 DEF CondInv, Counts
    <3> QED
      BY <1>3, <1>4, <3>1
  <2> HIDE DEF k
  <2>3. /\ pc'[n] = (IF k = 0 THEN "end" ELSE "fetch") /\ pc'[w] = pc[w]
        /\ num_waiter'[n] = k
    BY <1>1, <1>3, <2>1, <2>2
  <2>4. num_waiter' \in [Thread -> Nat] /\ waiter_val' \in [Thread -> Nat]
    <3>1. (IF k <= 0 THEN 0 ELSE k) \in Nat
      BY <2>2
    <3> QED
      BY <1>3, <2>1, <3>1
  <2>5. CondTypes(w, n)'
    BY <1>3, <2>1, <2>2, <2>3, <2>4 DEF CondInv, CondTypes, PC, NotifierPC
  <2>6. Matched(w, n)'
    BY <2>1, <2>3 DEF CondInv, Matched, Awake, GoesToSleep, Sleeps, Answered, Wakes, WakesNot,
                      WakeReq, WaitReq, NoReq, Waiter
  <2>7. Counts(n)'
    <3>1. k = 0 => ~(waiter_seq = wakeup_seq + 1 /\ consumed < produced)
      BY <2>1, <2>2 DEF CondInv, Counts
    <3> QED
      BY <2>1, <2>2, <2>3, <3>1 DEF Counts
  <2> QED
    BY <2>5, <2>6, <2>7 DEF CondInv
<1>8. CASE Signal(t) \/ Broadcast(t)
  <2>1. num_waiter[n] = 1 /\ waiter_seq = wakeup_seq + 1 /\ pc[n] = "fetch"
    BY <1>2, <1>8 DEF Signal, Broadcast, FetchWakeupSeq, CondInv, Counts
  <2>2. FetchWakeupSeq(n, 1)
    BY <1>2, <1>8, <2>1 DEF Signal, Broadcast
  <2>3. wakeup_seq + 1 - 1 = wakeup_seq
    BY <1>3
  <2>4. /\ UNCHANGED <<status, waiter_seq, waiter_val, produced, consumed, lk, req, resp>>
        /\ pc' = [pc EXCEPT ![n] = "wake"]
        /\ wakeup_seq' = wakeup_seq + 1
        /\ wakeup_val' = [wakeup_val EXCEPT ![n] = wakeup_seq]
        /\ num_waiter' = [num_waiter EXCEPT ![n] = 1]
    BY <2>2, <2>3 DEF FetchWakeupSeq, Goto, tokenVars, refereeVars
  <2>5. /\ pc'[n] = "wake" /\ pc'[w] = pc[w] /\ num_waiter'[n] = 1
        /\ wakeup_val'[n] = wakeup_seq' - 1 /\ wakeup_val'[w] = wakeup_val[w]
    BY <1>1, <1>3, <2>4
  <2>6. CondTypes(w, n)'
    <3>1. wakeup_seq' \in Nat /\ wakeup_val' \in [Thread -> Nat]
      <4>1. wakeup_seq' = wakeup_seq + 1 /\ wakeup_seq \in Nat
        BY <1>3, <2>4
      <4>2. wakeup_val' = [wakeup_val EXCEPT ![n] = wakeup_seq] /\ wakeup_val \in [Thread -> Nat]
        BY <1>3, <2>4
      <4>3. wakeup_seq' \in Nat
        BY <4>1
      <4>4. \A f \in [Thread -> Nat], v \in Nat : [f EXCEPT ![n] = v] \in [Thread -> Nat]
        OBVIOUS
      <4> QED
        BY <4>1, <4>2, <4>3, <4>4
    <3>2. num_waiter' \in [Thread -> Nat]
      BY <1>3, <2>4
    <3>3. pc' \in [Thread -> PC]
      BY <1>3, <2>4 DEF PC
    <3>4. pc'[w] \in WaiterPC /\ pc'[n] \in NotifierPC /\ pc'[n] \notin {"enter", "add"}
      BY <2>5 DEF CondInv, CondTypes, NotifierPC
    <3> QED
      BY <2>4, <3>1, <3>2, <3>3, <3>4 DEF CondInv, CondTypes
  <2>7. Matched(w, n)'
    <3>1. (GoesToSleep(w) \/ Sleeps(w)) /\ WakesNot(n)
      BY <1>3, <1>4, <2>1
    <3>2. Wakes(n)' /\ waiter_seq' = wakeup_seq'
      BY <1>3, <2>1, <2>4, <2>5, <3>1 DEF WakesNot, Wakes, NoReq
    <3>3. /\ GoesToSleep(w) => GoesToSleep(w)'
          /\ Sleeps(w) => Sleeps(w)'
      BY <2>4, <2>5 DEF GoesToSleep, Sleeps, NoReq, WaitReq, Waiter
    <3>4. (GoesToSleep(w) /\ lk.nwaiter = 0) \/ (Sleeps(w) /\ lk.nwaiter = 1)
      BY <1>3, <2>1 DEF CondInv, Matched
    <3> QED
      BY <2>4, <3>2, <3>3, <3>4 DEF Matched
  <2>8. Counts(n)'
    BY <1>3, <2>1, <2>4, <2>5 DEF Counts
  <2> QED
    BY <2>6, <2>7, <2>8 DEF CondInv
<1>9. CASE SendWake(t)
  <2>1. /\ UNCHANGED <<status, waiter_seq, wakeup_seq, waiter_val, produced, consumed, lk, resp>>
        /\ pc' = [pc EXCEPT ![n] = "waking"] /\ pc[n] = "wake"
        /\ req' = [req EXCEPT ![n] = WakeReq(wakeup_val[n], num_waiter[n])]
        /\ wakeup_val' = [wakeup_val EXCEPT ![n] = 0]
        /\ num_waiter' = [num_waiter EXCEPT ![n] = 0]
    BY <1>2, <1>9 DEF SendWake, Goto, seqVars, tokenVars
  <2>2. /\ pc'[n] = "waking" /\ pc'[w] = pc[w] /\ wakeup_val'[w] = wakeup_val[w]
        /\ req'[n] = WakeReq(wakeup_val[n], num_waiter[n]) /\ req'[w] = req[w]
    BY <1>1, <1>3, <2>1
  <2>3. WakeReq(wakeup_val[n], num_waiter[n]) \in ReqRec
    BY <1>1, <1>3 DEF WakeReq, ReqRec
  <2>4. CondTypes(w, n)'
    BY <1>3, <2>1, <2>2, <2>3 DEF CondInv, CondTypes, PC, NotifierPC
  <2>5. /\ ~WakesNot(n)
        /\ Wakes(n) => Wakes(n)'
        /\ GoesToSleep(w)' <=> GoesToSleep(w)
        /\ Sleeps(w)' <=> Sleeps(w)
    BY <2>1, <2>2 DEF GoesToSleep, Sleeps, Wakes, WakesNot, WakeReq, NoReq, WaitReq, Waiter
  <2>6. Matched(w, n)'
    BY <2>1, <2>5 DEF CondInv, Matched
  <2>7. Counts(n)'
    <3>1. waiter_seq = wakeup_seq
      BY <1>4, <2>5
    <3> QED
      BY <1>3, <2>1, <2>2, <3>1 DEF Counts
  <2> QED
    BY <2>4, <2>6, <2>7 DEF CondInv
<1>10. CASE WakeReturns(t)
  <2>1. /\ UNCHANGED <<status, waiter_seq, wakeup_seq, waiter_val, wakeup_val, num_waiter, produced,
                       consumed, lk, req>>
        /\ pc' = [pc EXCEPT ![n] = "end"] /\ pc[n] = "waking" /\ resp[n]
        /\ resp' = [resp EXCEPT ![n] = FALSE]
    BY <1>2, <1>10 DEF WakeReturns, Goto, seqVars, localVars, tokenVars
  <2>2. pc'[n] = "end" /\ pc'[w] = pc[w] /\ ~resp'[n] /\ resp'[w] = resp[w]
    BY <1>1, <1>3, <2>1
  <2>3. CondTypes(w, n)'
    BY <1>3, <2>1, <2>2 DEF CondInv, CondTypes, PC, NotifierPC
  <2>4. Matched(w, n)'
    BY <2>1, <2>2 DEF CondInv, Matched, Awake, GoesToSleep, Sleeps, Answered, Wakes, WakesNot,
                      WakeReq, WaitReq, NoReq, Waiter
  <2>5. Counts(n)'
    BY <2>1, <2>2 DEF CondInv, Counts
  <2> QED
    BY <2>3, <2>4, <2>5 DEF CondInv
<1> QED
  BY <1>5, <1>6, <1>7, <1>8, <1>9, <1>10 DEF NotifierStep
\* A queue of one: what lock_add_waiter() and lock_wake_waiters() make of it.
LEMMA SingleWake ==
    ASSUME NEW w, NEW v \in Nat, NEW l,
           l.waiters_queue = <<Waiter(w, v)>>
    PROVE  /\ lock_wake_waiters(l, 1, v).waiters_queue = <<>>
           /\ WokenBy(l, 1, v) = {w}
<1> DEFINE q == <<Waiter(w, v)>>
           X == {Waiter(w, v)}
<1>1. q \in Seq(X) /\ Len(q) = 1 /\ DOMAIN q = {1} /\ q[1] = Waiter(w, v)
  OBVIOUS
<1>2. q[1].wakeup_val = v /\ q[1].tc = w
  BY <1>1 DEF Waiter
<1> HIDE DEF q, X
<1>3. Eligible(q, v) = {1}
  BY <1>1, <1>2 DEF Eligible
<1>4. Rank({1}, 1) = 1
  <2>1. {j \in {1} : j <= 1} = {1}
    OBVIOUS
  <2> QED
    BY <2>1, FS_Singleton DEF Rank
<1>5. ToWake(q, 1, v) = {1}
  BY <1>3, <1>4 DEF ToWake
<1>6. Unlink(q, {1}) = <<>>
  <2>0. {1} \in SUBSET DOMAIN q /\ Cardinality({1}) = 1
    BY <1>1, FS_Singleton
  <2>1. Unlink(q, {1}) \in Seq(X) /\ Len(Unlink(q, {1})) = Len(q) - Cardinality({1})
    BY <1>1, <2>0, UnlinkEntries
  <2>2. Len(Unlink(q, {1})) = 0
    BY <1>1, <2>0, <2>1
  <2> QED
    BY <2>1, <2>2, EmptySeq
<1>7. WokenBy(l, 1, v) = {w}
  BY <1>2, <1>5 DEF WokenBy, q
<1> QED
  BY <1>5, <1>6, <1>7 DEF lock_wake_waiters, q

\* Nobody sleeps: the wake-up is banked.
LEMMA EmptyWake ==
    ASSUME NEW v \in Nat, NEW l, l.waiters_queue = <<>>
    PROVE  /\ lock_wake_waiters(l, 1, v).waiters_queue = <<>>
           /\ WokenBy(l, 1, v) = {}
<1> DEFINE q == <<>>
<1>1. q \in Seq({}) /\ Len(q) = 0 /\ DOMAIN q = {}
  OBVIOUS
<1> HIDE DEF q
<1>2. ToWake(q, 1, v) = {}
  BY <1>1 DEF ToWake, Eligible
<1>3. Unlink(q, {}) = <<>>
  <2>1. Unlink(q, {}) \in Seq({}) /\ Len(Unlink(q, {})) = 0 - Cardinality({})
    BY <1>1, UnlinkEntries
  <2>2. Len(Unlink(q, {})) = 0
    BY <2>1, FS_EmptySet
  <2> QED
    BY <2>1, <2>2, EmptySeq
<1> QED
  BY <1>2, <1>3 DEF lock_wake_waiters, WokenBy, q

\* The server: it appends w to the queue or answers at once, and wakes w or
\* banks the wake-up.
LEMMA ServerSteps ==
    ASSUME NEW w, NEW n, Waiters = {w}, Notifiers = {n}, CondInv(w, n),
           (\E t \in Thread : Serve(t)) \/ GarbageCollect
    PROVE  CondInv(w, n)'
<1>1. w # n /\ Thread = {w, n} /\ MaxTokens \in Nat
  BY TwoThreads, CondAssumption
<1>2. /\ pc \in [Thread -> PC] /\ waiter_seq \in Nat /\ wakeup_seq \in Nat
      /\ req \in [Thread -> ReqRec] /\ resp \in [Thread -> BOOLEAN]
      /\ lk.nwaiter \in Int /\ lk.max_wakeup_val \in Nat
  BY DEF CondInv, CondTypes
<1>3. UNCHANGED <<status, pc, waiter_seq, wakeup_seq, waiter_val, wakeup_val, num_waiter, produced,
                  consumed>>
  BY DEF Serve, HandleWait, HandleWake, GarbageCollect, seqVars, localVars, tokenVars
<1>4. Counts(n)'
  BY <1>3 DEF CondInv, Counts
<1>5. ASSUME req' \in [Thread -> ReqRec], resp' \in [Thread -> BOOLEAN],
             DOMAIN lk' = {"nwaiter", "max_wakeup_val", "waiters_queue"},
             lk'.nwaiter \in Int, lk'.max_wakeup_val \in Nat, Matched(w, n)'
      PROVE  CondInv(w, n)'
  BY <1>3, <1>4, <1>5 DEF CondInv, CondTypes
<1>6. NoReq \in ReqRec /\ NoReq.opcode = "none"
  BY DEF NoReq, ReqRec
<1>7. CASE GarbageCollect
  <2>1. lk.nwaiter = 0 /\ lk.waiters_queue = <<>> /\ lk' = lock_init /\ UNCHANGED <<req, resp>>
    BY <1>7 DEF GarbageCollect, lock_is_unused
  <2>2. lk'.nwaiter = 0 /\ lk'.waiters_queue = <<>> /\ lk'.max_wakeup_val = 0
        /\ DOMAIN lk' = {"nwaiter", "max_wakeup_val", "waiters_queue"}
    BY <2>1 DEF lock_init
  <2>3. /\ Awake(w) => Awake(w)'
        /\ GoesToSleep(w) => GoesToSleep(w)'
        /\ ~Sleeps(w)
        /\ Answered(w) => Answered(w)'
        /\ Wakes(n) => Wakes(n)'
        /\ WakesNot(n) => WakesNot(n)'
    BY <1>3, <2>1, <2>2 DEF Awake, GoesToSleep, Sleeps, Answered, Wakes, WakesNot, WakeReq,
                            WaitReq, NoReq
  <2>4. Matched(w, n)'
    BY <1>3, <2>1, <2>2, <2>3 DEF CondInv, Matched
  <2> QED
    BY <1>2, <1>5, <2>1, <2>2, <2>4
<1>8. ASSUME NEW t \in Thread, HandleWait(t) PROVE CondInv(w, n)'
  <2>1. t = w /\ GoesToSleep(w) /\ req[w] = WaitReq(waiter_seq - 1) /\ pc[w] = "waiting"
    <3>1. req[t].opcode = "WAIT"
      BY <1>8 DEF HandleWait
    <3>2. req[n].opcode # "WAIT"
      BY DEF CondInv, Matched, Wakes, WakesNot, NoReq, WakeReq
    <3>3. t = w
      BY <1>1, <3>1, <3>2
    <3> QED
      BY <3>1, <3>3 DEF CondInv, Matched, Awake, GoesToSleep, Sleeps, Answered, NoReq
  <2> DEFINE v == waiter_seq - 1
  <2>2. v \in Nat /\ req[w].val = v
    BY <1>2, <2>1 DEF GoesToSleep, WaitReq
  <2> HIDE DEF v
  <2>3. /\ req' = [req EXCEPT ![w] = NoReq] /\ lk' = lock_add_waiter(lk, w, v)
        /\ resp' = [x \in Thread |-> resp[x] \/ x \in (IF WokenInAdvance(lk, v) THEN {w} ELSE {})]
    BY <1>8, <2>1, <2>2 DEF HandleWait, Answer
  <2>4. req'[w] = NoReq /\ req'[n] = req[n] /\ req' \in [Thread -> ReqRec]
    BY <1>1, <1>2, <1>6, <2>3
  <2>5. /\ resp'[w] <=> WokenInAdvance(lk, v)
        /\ resp'[n] = resp[n]
        /\ resp' \in [Thread -> BOOLEAN]
    BY <1>1, <1>2, <2>1, <2>3 DEF GoesToSleep
  <2>6. /\ lk'.nwaiter = lk.nwaiter + 1 /\ lk'.max_wakeup_val = lk.max_wakeup_val
        /\ lk'.waiters_queue = IF WokenInAdvance(lk, v) THEN <<>> ELSE <<Waiter(w, v)>>
        /\ DOMAIN lk' = {"nwaiter", "max_wakeup_val", "waiters_queue"}
    BY <2>1, <2>3 DEF lock_add_waiter, GoesToSleep
  <2>7. WakesNot(n)' <=> WakesNot(n)
    BY <1>3, <2>4, <2>5 DEF WakesNot, NoReq
  <2>8. Wakes(n)' <=> Wakes(n)
    BY <1>3, <2>4, <2>5 DEF Wakes, NoReq, WakeReq
  <2>9. Matched(w, n)'
    <3>1. CASE lk.nwaiter = -1
      <4>1. WokenInAdvance(lk, v) /\ WakesNot(n) /\ waiter_seq = wakeup_seq
        BY <1>2, <3>1 DEF WokenInAdvance, CondInv, Matched, v
      <4>2. Answered(w)' /\ lk'.nwaiter = 0
        BY <1>3, <2>1, <2>4, <2>5, <2>6, <3>1, <4>1 DEF Answered, NoReq
      <4> QED
        BY <1>3, <2>7, <4>1, <4>2 DEF Matched
    <3>2. CASE lk.nwaiter = 0
      <4>1. ~WokenInAdvance(lk, v)
        BY <3>2 DEF WokenInAdvance
      <4>2. Sleeps(w)' /\ lk'.nwaiter = 1
        BY <1>3, <2>1, <2>4, <2>5, <2>6, <3>2, <4>1 DEF Sleeps, NoReq, v, GoesToSleep, Waiter
      <4>3. \/ WakesNot(n) /\ waiter_seq = wakeup_seq + 1
            \/ Wakes(n) /\ waiter_seq = wakeup_seq
        BY <2>1, <3>2 DEF CondInv, Matched, Awake, Answered, GoesToSleep
      <4> QED
        BY <1>3, <2>7, <2>8, <4>2, <4>3 DEF Matched
    <3> QED
      BY <2>1, <3>1, <3>2 DEF CondInv, Matched, GoesToSleep, Sleeps
  <2>10. lk'.nwaiter \in Int /\ lk'.max_wakeup_val \in Nat
    BY <1>2, <2>6
  <2> QED
    BY <1>5, <2>4, <2>5, <2>6, <2>9, <2>10
<1>9. ASSUME NEW t \in Thread, HandleWake(t) PROVE CondInv(w, n)'
  <2>1. /\ t = n /\ Wakes(n) /\ req[n] = WakeReq(wakeup_seq - 1, 1) /\ pc[n] = "waking"
        /\ waiter_seq = wakeup_seq /\ ~resp[n]
    <3>1. req[t].opcode = "WAKE"
      BY <1>9 DEF HandleWake
    <3>2. req[w].opcode # "WAKE"
      BY DEF CondInv, Matched, Awake, GoesToSleep, Sleeps, Answered, NoReq, WaitReq
    <3>3. t = n
      BY <1>1, <3>1, <3>2
    <3> QED
      BY <3>1, <3>3 DEF CondInv, Matched, Wakes, WakesNot, NoReq
  <2> DEFINE v == waiter_seq - 1
  <2>2. v \in Nat /\ req[n].val = v /\ req[n].num_wakeup = 1
    BY <1>2, <2>1 DEF Wakes, WakeReq
  <2> HIDE DEF v
  <2>3. /\ req' = [req EXCEPT ![n] = NoReq] /\ lk' = lock_wake_waiters(lk, 1, v)
        /\ resp' = [x \in Thread |-> resp[x] \/ x \in ({n} \cup WokenBy(lk, 1, v))]
    BY <1>9, <2>1, <2>2 DEF HandleWake, Answer
  <2>4. req'[n] = NoReq /\ req'[w] = req[w] /\ req' \in [Thread -> ReqRec]
    BY <1>1, <1>2, <1>6, <2>3
  <2>5. /\ lk'.nwaiter = lk.nwaiter - 1 /\ lk'.max_wakeup_val >= v /\ lk'.max_wakeup_val \in Nat
        /\ DOMAIN lk' = {"nwaiter", "max_wakeup_val", "waiters_queue"}
    BY <1>2, <2>2, <2>3 DEF lock_wake_waiters
  <2>6. resp' \in [Thread -> BOOLEAN] /\ resp'[n] /\ (resp'[w] <=> resp[w] \/ w \in WokenBy(lk, 1, v))
    BY <1>1, <1>2, <2>3
  <2>7. WakesNot(n)'
    BY <1>3, <2>1, <2>4, <2>6 DEF WakesNot, NoReq
  <2>8. Matched(w, n)'
    <3>1. CASE GoesToSleep(w) /\ lk.nwaiter = 0
      <4>1. lk'.waiters_queue = <<>> /\ WokenBy(lk, 1, v) = {}
        BY <2>2, <2>3, <3>1, EmptyWake DEF GoesToSleep
      <4>2. GoesToSleep(w)'
        BY <1>3, <2>4, <2>6, <3>1, <4>1 DEF GoesToSleep, NoReq, WaitReq
      <4> QED
        BY <1>3, <2>1, <2>5, <2>7, <3>1, <4>2 DEF Matched, v
    <3>2. CASE Sleeps(w) /\ lk.nwaiter = 1
      <4>1. lk'.waiters_queue = <<>> /\ WokenBy(lk, 1, v) = {w}
        BY <2>2, <2>3, <3>2, SingleWake DEF Sleeps, v
      <4>2. Answered(w)'
        BY <1>3, <2>4, <2>6, <3>2, <4>1 DEF Sleeps, Answered, NoReq
      <4> QED
        BY <1>3, <2>1, <2>5, <2>7, <3>2, <4>2 DEF Matched
    <3>3. ~WakesNot(n)
      BY <2>1 DEF WakesNot
    <3> QED
      BY <3>1, <3>2, <3>3 DEF CondInv, Matched
  <2>9. lk'.nwaiter \in Int
    BY <1>2, <2>5
  <2> QED
    BY <1>5, <2>4, <2>5, <2>6, <2>8, <2>9
<1> QED
  BY <1>7, <1>8, <1>9 DEF Serve

(***************************************************************************)
(* Between one waiter and one notifier pshared_cond_wait() and             *)
(* pshared_cond_signal() lose no signal, however many tokens are passed    *)
(* and in whichever order the requests reach the server: a wait is matched *)
(* by exactly one wake-up.                                                 *)
(***************************************************************************)
THEOREM NoSignalLost ==
    ASSUME NEW w, NEW n, Waiters = {w}, Notifiers = {n}
    PROVE  Spec => []SleeperIsCounted
<1>1. Init => CondInv(w, n)
  BY InitCondInv
<1>2. CondInv(w, n) /\ [Next]_vars => CondInv(w, n)'
  <2> SUFFICES ASSUME CondInv(w, n), [Next]_vars PROVE CondInv(w, n)'
    OBVIOUS
  <2>1. CASE UNCHANGED vars
    <3>1. UNCHANGED <<status, pc, waiter_seq, wakeup_seq, waiter_val, wakeup_val, num_waiter,
                      produced, consumed, lk, req, resp>>
      BY <2>1 DEF vars, seqVars, localVars, tokenVars, refereeVars
    <3>2. CondTypes(w, n)' /\ Counts(n)'
      BY <3>1 DEF CondInv, CondTypes, Counts
    <3>3. Matched(w, n)'
      BY <3>1 DEF CondInv, Matched, Awake, GoesToSleep, Sleeps, Answered, Wakes, WakesNot,
                  WakeReq, WaitReq, NoReq, Waiter
    <3> QED
      BY <3>2, <3>3 DEF CondInv
  <2>2. CASE Next
    <3>1. CASE Finished
      BY <2>1, <3>1 DEF Finished
    <3> QED
      BY <2>2, <3>1, MutexSteps, WaiterSteps, NotifierSteps, ServerSteps DEF Next, ThreadStep, OwnStep
  <2> QED
    BY <2>1, <2>2
<1>3. CondInv(w, n) => SleeperIsCounted
  <2> SUFFICES ASSUME CondInv(w, n) PROVE SleeperIsCounted
    OBVIOUS
  <2>1. TypeOK
    BY DEF CondInv, CondTypes, TypeOK
  <2>2. Len(lk.waiters_queue) = IF lk.nwaiter > 0 THEN lk.nwaiter ELSE 0
    <3>1. \/ lk.waiters_queue = <<>> /\ lk.nwaiter \in {0, -1}
          \/ lk.waiters_queue = <<Waiter(w, waiter_seq - 1)>> /\ lk.nwaiter = 1
      BY DEF CondInv, Matched, Awake, GoesToSleep, Sleeps, Answered
    <3>2. Len(<<>>) = 0 /\ Len(<<Waiter(w, waiter_seq - 1)>>) = 1
      OBVIOUS
    <3>3. CASE lk.waiters_queue = <<>> /\ lk.nwaiter \in {0, -1}
      <4>1. ~(lk.nwaiter > 0)
        BY <3>3
      <4> QED
        BY <3>2, <3>3, <4>1
    <3>4. CASE lk.waiters_queue = <<Waiter(w, waiter_seq - 1)>> /\ lk.nwaiter = 1
      BY <3>2, <3>4
    <3> QED
      BY <3>1, <3>3, <3>4
  <2>3. /\ lk.waiters_queue = <<>> => Sleepers(lk) = {}
        /\ Wakes(n) => WakePending(n)
    BY DEF Sleepers, Wakes, WakePending, WakeReq
  <2>4. Sleepers(lk) # {} /\ ~WakePending(n) => waiter_seq = wakeup_seq + 1
    BY <2>3 DEF CondInv, Matched, Awake, GoesToSleep, Answered
  <2>5. NoLostSignal
    <3>1. Tokens > 0 => consumed < produced
      BY DEF Tokens, CondInv, CondTypes
    <3>2. Sleepers(lk) = Waiters /\ ~WakePending(n) /\ Tokens > 0
            => pc[n] \in {"load_waiter", "load_wakeup"}
      BY <2>4, <3>1 DEF CondInv, Counts, WakePending
    <3> QED
      BY <3>2 DEF NoLostSignal
  <2>6. (Sleepers(lk) # {} /\ \A t \in Notifiers : ~WakePending(t)) => waiter_seq > wakeup_seq
    BY <2>4 DEF CondInv, CondTypes
  <2> QED
    BY <2>1, <2>2, <2>5, <2>6 DEF SleeperIsCounted
<1> QED
  BY <1>1, <1>2, <1>3, PTL DEF Spec
=============================================================================
