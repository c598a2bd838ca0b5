------------------------------ MODULE LockVal ------------------------------
(***************************************************************************)
(* The 64-bit lock value of a process shared mutex (src/mutex-lockval.h).  *)
(*                                                                         *)
(* From the least to the most significant bit the word holds               *)
(*    owner    32 bits   tid of the owner, 0 if free, all ones if the      *)
(*                       mutex is permanently unusable                     *)
(*    nwaiter   8 bits   number of registered waiters                      *)
(*    recover   1 bit    the previous owner died holding the mutex         *)
(*    wtid     23 bits   tid of the thread updating the waiter count       *)
(*                                                                         *)
(* The code changes the word only by compare-exchange and by 64-bit        *)
(* additions, so a field that overflows carries into the next one. The     *)
(* word is therefore represented by its digits in the mixed radix          *)
(* (OwnerRadix, WaiterRadix, 2, WTidRadix) and LockAdd propagates carries  *)
(* and borrows; the carry out of wtid is lost, as it is in the code. The   *)
(* radices are parameters: 2^32, 2^8 and 2^23 in the code.                 *)
(***************************************************************************)
EXTENDS Integers

CONSTANTS
    OwnerRadix,     \* number of values of the owner field
    WaiterRadix,    \* number of values of the waiter count
    WTidRadix       \* number of values of the waiter tid field

ASSUME RadixAssumption ==
    /\ OwnerRadix  \in Nat \ {0, 1}
    /\ WaiterRadix \in Nat \ {0, 1}
    /\ WTidRadix   \in Nat \ {0, 1}

LockValue == [wtid    : 0 .. WTidRadix - 1,
              recover : 0 .. 1,
              nwaiter : 0 .. WaiterRadix - 1,
              owner   : 0 .. OwnerRadix - 1]

\* MTX_OWNER_TID_MASK: the owner field with all its bits set.
OwnerMask == OwnerRadix - 1

(***************************************************************************)
(* A signed difference to add to a lock value, field by field.             *)
(***************************************************************************)
Delta(wtid, recover, nwaiter, owner) ==
    [wtid |-> wtid, recover |-> recover, nwaiter |-> nwaiter, owner |-> owner]

Plus(d, e) ==
    Delta(d.wtid + e.wtid, d.recover + e.recover,
          d.nwaiter + e.nwaiter, d.owner + e.owner)

NoChange == Delta(0, 0, 0, 0)

\* mtx_lockval(owner_tid, waiter_tid, nwaiter); the shift by 41 keeps only the
\* low 23 bits of waiter_tid.
mtx_lockval(owner_tid, waiter_tid, nwaiter) ==
    Delta(waiter_tid % WTidRadix, 0, nwaiter, owner_tid)

Negate(d) == Delta(-d.wtid, -d.recover, -d.nwaiter, -d.owner)

\* The lock word of a mutex that is free and that nobody waits for.
ZeroLock == [wtid |-> 0, recover |-> 0, nwaiter |-> 0, owner |-> 0]

(***************************************************************************)
(* _InterlockedExchangeAdd64: 64-bit addition with wrap-around.            *)
(***************************************************************************)
LockAdd(v, d) ==
    LET o == v.owner   + d.owner
        n == v.nwaiter + d.nwaiter + (o \div OwnerRadix)
        r == v.recover + d.recover + (n \div WaiterRadix)
        w == v.wtid    + d.wtid    + (r \div 2)
    IN  [wtid    |-> w % WTidRadix,
         recover |-> r % 2,
         nwaiter |-> n % WaiterRadix,
         owner   |-> o % OwnerRadix]

is_mtx_waited(v)          == v.nwaiter # 0
is_mtx_locked(v)          == v.owner # 0
is_mtx_waiterlist_full(v) == v.nwaiter = WaiterRadix - 1
is_mtx_ownerdead(v)       == v.recover = 1
is_mtx_unrecoverable(v)   == v.recover = 1 /\ v.owner = OwnerMask
mtx_num_waiter(v)         == v.nwaiter

is_thread_mtx_owner(v, tid)            == v.owner = tid
is_thread_mtx_waiterlist_owner(v, tid) == v.wtid = tid % WTidRadix

\* v & ~MTX_OWNER_TID_MASK
ClearOwner(v) == [v EXCEPT !.owner = 0]

\* v & ~MTX_WAITER_TID_MASK
ClearWTid(v) == [v EXCEPT !.wtid = 0]
=============================================================================
