--------------------------- MODULE RefereeServer ---------------------------
(***************************************************************************)
(* The lock referee server as a process (src/lock-referee-server.c) and    *)
(* the connections threads open to it (src/pshared-lock.c).                *)
(*                                                                         *)
(* A thread connects to the named pipe, spawning the server if there is    *)
(* none, asks for its robust data, and then makes synchronous requests.    *)
(* The server is one thread that waits alertably: the completions of its   *)
(* asynchronous reads and writes run as callbacks, in the order in which   *)
(* the operations complete, and after each wait it collects unused locks,  *)
(* ends if the last client has gone, and handles timeouts. The server's    *)
(* memory is the record srv; each function of the code that changes it is  *)
(* an operator from the memory before to the memory after.                 *)
(*                                                                         *)
(* Threads hold no robust mutex when they disconnect (RobustMutex is about *)
(* those that do). All timed waits of the library use the realtime clock,  *)
(* so the list of the monotonic clock, which stays empty, is left out.     *)
(***************************************************************************)
EXTENDS RefereeLock, SequencesExt, FiniteSetsExt

CONSTANTS
    Thread,         \* the threads of all the processes
    Key,            \* keys of the locks they wait on
    Workload,       \* functions from Thread to the requests it makes in turn
    MaxNow,         \* bound of the clock
    DiesAnywhere    \* may a thread die while a transaction is under way

Head0 == "head"     \* head of the timeout list
None  == "none"     \* a null pointer, no instance of the pipe
NoMsg == [op |-> "none"]    \* an empty pipe

WAIT(key, val, deadline) == [op |-> "WAIT", key |-> key, val |-> val,
                             deadline |-> deadline]
WAKE(key, val, num) == [op |-> "WAKE", key |-> key, val |-> val, num |-> num]
GETROBUST == [op |-> "GETROBUST"]
INITLOCK  == [op |-> "INITLOCK"]
NoTimeout == MaxNow + 1

IsRequest(msg) ==
    \/ msg = INITLOCK
    \/ /\ msg.op = "WAIT" /\ msg = WAIT(msg.key, msg.val, msg.deadline)
       /\ msg.key \in Key /\ msg.val \in Int /\ msg.deadline \in Int
    \/ /\ msg.op = "WAKE" /\ msg = WAKE(msg.key, msg.val, msg.num)
       /\ msg.key \in Key /\ msg.val \in Int /\ msg.num \in Nat

ASSUME RefereeAssumption ==
    /\ IsFiniteSet(Thread) /\ Key \subseteq Nat \ {0} /\ MaxNow \in Nat
    /\ Thread \cap {Head0, None, "listening"} = {}
    /\ DiesAnywhere \in BOOLEAN
    /\ \A w \in Workload : DOMAIN w = Thread /\ \A t \in Thread :
            w[t] \in Seq(Range(w[t])) /\ \A i \in DOMAIN w[t] : IsRequest(w[t][i])

VARIABLES
    at,             \* where a thread stands
    todo,           \* the requests it has still to make
    req,            \* the request in its pipe that the server has not read
    reply,          \* the last answer it has received
    accepted,       \* history: the threads whose connection was accepted, by a
                    \* server that has not given up since
    pipe,           \* the instance of the named pipe that listens
    loop,           \* where the server stands
    srv,            \* its memory
    now             \* the clock

vars == <<at, todo, req, reply, accepted, pipe, loop, srv, now>>

\* The end of the pipe that the thread holds is open.
Connected(t) == at[t] \in {"queued", "idle", "transact"}

-----------------------------------------------------------------------------
(***************************************************************************)
(* The array of locks, sorted by key.                                      *)
(***************************************************************************)
\* The halving of [l, h]: where the key is, or where it is to be inserted.
Narrow(locks, key) ==
    LET search[b \in (1 .. Len(locks) + 1) \X (0 .. Len(locks))] ==
            LET l == b[1]  h == b[2]  m == (l + h) \div 2
            IN  IF l > h THEN [found |-> FALSE, index |-> l]
                ELSE IF key = locks[m].key THEN [found |-> TRUE, index |-> m]
                ELSE IF key < locks[m].key THEN search[<<l, m - 1>>]
                ELSE search[<<m + 1, h>>]
    IN  search

search_key_index(locks, key) == Narrow(locks, key)[<<1, Len(locks)>>]

\* lock_array_get_lock() with create: the array in which the lock exists. The
\* room of the array, its reallocation and the element past the end that the
\* memmove() of lock-referee-server.c:586-588 reads and writes are left out.
lock_array_get_lock(locks, key) ==
    LET r == search_key_index(locks, key)
    IN  IF r.found THEN locks
        ELSE InsertAt(locks, r.index, [key |-> key, lock |-> lock_init])

\* Mutant of lock_array_drop_unused: the locks kept are not moved down.
lock_array_drop_unused_NoMove(locks) ==
    SubSeq(locks, 1, Len(SelectSeq(locks, LAMBDA e : ~lock_is_unused(e.lock))))

lock_array_drop_unused(locks) ==
    Unlink(locks, {i \in DOMAIN locks : lock_is_unused(locks[i].lock)})

-----------------------------------------------------------------------------
(***************************************************************************)
(* The timeout list: nodes linked both ways, in the order of deadlines.    *)
(* detach_list_node() clears next before it links the previous node to it. *)
(***************************************************************************)
Unlinked == [prev |-> None, next |-> None]

detach_list_node(node, t) ==
    LET p == node[t].prev
        n == node[t].next
        a == IF n = None THEN node
             ELSE [node EXCEPT ![n].prev = p, ![t].next = None]
    IN  IF p = None THEN a
        ELSE [a EXCEPT ![p].next = a[t].next, ![t].prev = None]

insert_list_node_after(node, t, after) ==
    LET n == node[after].next
        a == [node EXCEPT ![t] = [prev |-> after, next |-> n],
                          ![after].next = t]
    IN  IF n = None THEN a ELSE [a EXCEPT ![n].prev = t]

\* The nodes that can be reached from the head, in order.
Listed(node) ==
    LET from[k \in 0 .. Cardinality(Thread)] ==
            IF k = 0 THEN <<Head0>>
            ELSE LET s == from[k - 1] IN
                 IF node[Last(s)].next = None THEN s
                 ELSE Append(s, node[Last(s)].next)
    IN  Tail(from[Cardinality(Thread)])

timeout_list_add_waiter(s, t) ==
    LET l == Listed(s.node)
        before == {i \in DOMAIN l : s.tc[l[i]].deadline <= s.tc[t].deadline}
        after == IF before = {} THEN Head0 ELSE l[Max(before)]
    IN  [s EXCEPT !.node = insert_list_node_after(s.node, t, after)]

-----------------------------------------------------------------------------
(***************************************************************************)
(* Clients. num_pending_request counts the operations whose callback has   *)
(* not run. A freed client that is used, or a lock that does not exist,    *)
(* takes the server down.                                                  *)
(***************************************************************************)
NoClient == [live |-> FALSE, being_destroyed |-> FALSE, reading |-> FALSE,
             num_pending_request |-> 0, waiting_lock_key |-> 0,
             deadline |-> NoTimeout]

InitServer == [locks |-> <<>>, node |-> [x \in Thread \cup {Head0} |-> Unlinked],
               tc |-> [t \in Thread |-> NoClient], apc |-> <<>>,
               num_thread_client |-> 0, quit |-> FALSE, last_value |-> 0,
               sent |-> [t \in Thread |-> NoMsg], crashed |-> FALSE]

Crash(s) == [s EXCEPT !.crashed = TRUE]

update_thread_count(s, adjustment) ==
    [s EXCEPT !.num_thread_client = @ + adjustment,
              !.quit = s.num_thread_client + adjustment = 0]

\* No line sets waiting_lock_key, which is zero: no queue is left here.
thread_client_destroy(s, t) ==
    IF s.tc[t].num_pending_request > 0
    THEN [s EXCEPT !.tc[t].being_destroyed = TRUE]
    ELSE update_thread_count([s EXCEPT !.tc[t] = NoClient], -1)

thread_client_queue_write(s, t, msg) ==
    IF s.tc[t].being_destroyed THEN s
    ELSE IF ~Connected(t) THEN thread_client_destroy(s, t)
    ELSE [s EXCEPT !.tc[t].num_pending_request = @ + 1,
                   !.apc = Append(@, [op |-> "write", tc |-> t]),
                   !.sent[t] = msg]

\* A read completes at once if the pipe holds a request.
thread_client_queue_read(s, t) ==
    IF ~s.tc[t].live THEN Crash(s)
    ELSE IF s.tc[t].being_destroyed THEN s
    ELSE IF ~Connected(t) /\ req[t] = NoMsg THEN thread_client_destroy(s, t)
    ELSE [s EXCEPT !.tc[t].num_pending_request = @ + 1,
                   !.tc[t].reading = (req[t] = NoMsg),
                   !.apc = IF req[t] = NoMsg THEN @
                           ELSE Append(@, [op |-> "read", tc |-> t, msg |-> req[t]])]

\* The answer says timedout for a wait that has not, and conversely.
Answer(op, timedout) ==
    [op |-> op, timedout |-> IF timedout THEN 0 ELSE 1, elapsed |-> timedout]

thread_client_wakeup(s, t, timedout) ==
    IF ~s.tc[t].live THEN Crash(s)
    ELSE thread_client_queue_write(
            [s EXCEPT !.node = detach_list_node(s.node, t),
                      !.tc[t].waiting_lock_key = 0,
                      !.tc[t].deadline = NoTimeout],
            t, Answer("WAIT", timedout))

thread_client_process_timeout(s, t) ==
    LET r == search_key_index(s.locks, s.tc[t].waiting_lock_key)
    IN  IF ~r.found THEN Crash(s)
        ELSE thread_client_wakeup(
                [s EXCEPT !.locks[r.index].lock = lock_drop_waiter(@, t)], t, TRUE)

\* From the first client of the list to the first whose deadline is not past.
timeout_list_update(s) ==
    LET l == Listed(s.node)
        late == {t \in Thread : s.tc[t].deadline < now}
        upto[k \in 0 .. Len(l)] ==
            IF k = 0 THEN s
            ELSE IF \A j \in 1 .. k : l[j] \in late
                 THEN thread_client_process_timeout(upto[k - 1], l[k])
                 ELSE upto[k - 1]
    IN  upto[Len(l)]

-----------------------------------------------------------------------------
(***************************************************************************)
(* The requests.                                                           *)
(***************************************************************************)
\* The walk of lock_wake_waiters() through the queue q: after k nodes.
WakeWalk(s, q, gone) ==
    LET walk[k \in 0 .. Len(q)] ==
            IF k = 0 THEN s
            ELSE IF k \in gone THEN thread_client_wakeup(walk[k - 1], q[k].tc, FALSE)
                 ELSE walk[k - 1]
    IN  walk

handle_req_wake(s, t, msg) ==
    LET locks == lock_array_get_lock(s.locks, msg.key)
        i     == search_key_index(locks, msg.key).index
        lk    == locks[i].lock
        q     == lk.waiters_queue
        after == [s EXCEPT !.locks = [locks EXCEPT ![i].lock =
                                        lock_wake_waiters(lk, msg.num, msg.val)]]
    IN  thread_client_queue_write(
            WakeWalk(after, q, ToWake(q, msg.num, msg.val))[Len(q)],
            t, Answer("WAKE", FALSE))

handle_req_wait(s, t, msg) ==
    LET locks == lock_array_get_lock(s.locks, msg.key)
        i     == search_key_index(locks, msg.key).index
        lk    == locks[i].lock
        added == [s EXCEPT !.locks = [locks EXCEPT ![i].lock =
                                        lock_add_waiter(lk, t, msg.val)]]
    IN  IF WokenInAdvance(lk, msg.val) THEN thread_client_wakeup(added, t, FALSE)
        ELSE IF msg.deadline = NoTimeout THEN added
        ELSE timeout_list_add_waiter([added EXCEPT !.tc[t].deadline = msg.deadline], t)

\* The key of a new lock: the counter in its high half.
handle_req_initlock(s, t) ==
    thread_client_queue_write([s EXCEPT !.last_value = @ + 1], t,
                              [op |-> "INITLOCK", key |-> s.last_value])

handle_req_getrobust(s, t) ==
    thread_client_queue_write(s, t, Answer("GETROBUST", FALSE))

\* Mutant of read_completed: no read is queued while the client waits.
read_completed_NoRead(s, t, msg) ==
    LET done == [s EXCEPT !.tc[t].num_pending_request = @ - 1] IN
    IF msg = NoMsg \/ s.tc[t].being_destroyed THEN thread_client_destroy(done, t)
    ELSE IF msg.op = "WAIT" THEN handle_req_wait(done, t, msg)
    ELSE thread_client_queue_read(
                    CASE msg.op = "WAKE"     -> handle_req_wake(done, t, msg)
                      [] msg.op = "INITLOCK" -> handle_req_initlock(done, t)
                      [] OTHER               -> handle_req_getrobust(done, t), t)

read_completed(s, t, msg) ==
    LET done == [s EXCEPT !.tc[t].num_pending_request = @ - 1] IN
    IF msg = NoMsg \/ s.tc[t].being_destroyed
    THEN thread_client_destroy(done, t)
    ELSE thread_client_queue_read(
            CASE msg.op = "WAKE"     -> handle_req_wake(done, t, msg)
              [] msg.op = "WAIT"     -> handle_req_wait(done, t, msg)
              [] msg.op = "INITLOCK" -> handle_req_initlock(done, t)
              [] OTHER               -> handle_req_getrobust(done, t), t)

\* Mutant of write_completed: only the failure is handled.
write_completed_Uncounted(s, t) ==
    IF s.tc[t].being_destroyed THEN thread_client_destroy(s, t) ELSE s

write_completed(s, t) ==
    LET done == [s EXCEPT !.tc[t].num_pending_request = @ - 1] IN
    IF s.tc[t].being_destroyed THEN thread_client_destroy(done, t) ELSE done

-----------------------------------------------------------------------------
Init ==
    /\ at = [t \in Thread |-> "probe"]
    /\ todo \in Workload
    /\ req = [t \in Thread |-> NoMsg]
    /\ reply = [t \in Thread |-> NoMsg]
    /\ accepted = {}
    /\ pipe = None
    /\ loop = "absent"
    /\ srv = InitServer
    /\ now = 0

Goto(t, place) == at' = [at EXCEPT ![t] = place]

(***************************************************************************)
(* connect_to_lockref_server(). A wait for an instance of the pipe that    *)
(* finds none goes on to try_spawn_lockserver(), where one thread at most  *)
(* gets the first instance.                                                *)
(***************************************************************************)
WaitNamedPipe(t) ==
    /\ at[t] = "probe" /\ pipe = "listening"
    /\ Goto(t, "open")
    /\ UNCHANGED <<todo, req, reply, accepted, pipe, loop, srv, now>>

create_srv_first_pipe(t) ==
    /\ at[t] = "probe" /\ loop = "absent"
    /\ Goto(t, "spawn")
    /\ pipe' = "listening" /\ loop' = "spawning"
    /\ UNCHANGED <<todo, req, reply, accepted, srv, now>>

spawn_lock_server(t) ==
    /\ at[t] = "spawn"
    /\ Goto(t, "probe")
    /\ loop' = "wait"
    /\ UNCHANGED <<todo, req, reply, accepted, pipe, srv, now>>

\* The pipe cannot be made inheritable: try_spawn_lockserver() returns without
\* closing it, so that the name stays taken by an instance nobody serves.
DuplicateFails(t) ==
    /\ at[t] = "spawn"
    /\ Goto(t, "probe")
    /\ loop' = "leaked"
    /\ UNCHANGED <<todo, req, reply, accepted, pipe, srv, now>>

SpawnFails(t) ==
    /\ at[t] = "spawn"
    /\ Goto(t, "probe")
    /\ pipe' = None /\ loop' = "absent"
    /\ UNCHANGED <<todo, req, reply, accepted, srv, now>>

CreateFile(t) ==
    /\ at[t] = "open"
    /\ IF pipe = "listening" THEN Goto(t, "queued") /\ pipe' = t
       ELSE Goto(t, "probe") /\ UNCHANGED pipe
    /\ UNCHANGED <<todo, req, reply, accepted, loop, srv, now>>

\* The request completes the read that the server has pending, or waits for it.
Send(t, msg) ==
    /\ Goto(t, "transact")
    /\ IF srv.tc[t].reading
       THEN /\ srv' = [srv EXCEPT !.tc[t].reading = FALSE,
                                  !.apc = Append(@, [op |-> "read", tc |-> t,
                                                     msg |-> msg])]
            /\ UNCHANGED req
       ELSE req' = [req EXCEPT ![t] = msg] /\ UNCHANGED srv
    /\ UNCHANGED <<reply, accepted, pipe, loop, now>>

create_robust_data(t) ==
    /\ at[t] = "queued"
    /\ Send(t, GETROBUST)
    /\ UNCHANGED todo

Request(t) ==
    /\ at[t] = "idle" /\ todo[t] # <<>>
    /\ Send(t, Head(todo[t]))
    /\ todo' = [todo EXCEPT ![t] = Tail(@)]

Receive(t) ==
    /\ at[t] = "transact" /\ srv.sent[t] # NoMsg
    /\ Goto(t, "idle")
    /\ reply' = [reply EXCEPT ![t] = srv.sent[t]]
    /\ srv' = [srv EXCEPT !.sent[t] = NoMsg]
    /\ UNCHANGED <<todo, req, accepted, pipe, loop, now>>

\* The transaction fails: mm_check() aborts the process.
TransactFails(t) ==
    /\ at[t] = "transact" /\ srv.sent[t] = NoMsg
    /\ pipe # t /\ ~srv.tc[t].live
    /\ Goto(t, "abort")
    /\ UNCHANGED <<todo, req, reply, accepted, pipe, loop, srv, now>>

\* deinit_lock_referee_connection() at the end of a thread, or its death.
Disconnect(t) ==
    /\ at[t] = "idle" => todo[t] = <<>>
    /\ at[t] \in {"idle", "queued"}
                 \cup (IF DiesAnywhere THEN {"transact"} ELSE {})
    /\ Goto(t, "gone")
    /\ srv' = IF srv.tc[t].reading
              THEN [srv EXCEPT !.tc[t].reading = FALSE,
                               !.apc = Append(@, [op |-> "read", tc |-> t,
                                                  msg |-> NoMsg])]
              ELSE srv
    /\ UNCHANGED <<todo, req, reply, accepted, pipe, loop, now>>

-----------------------------------------------------------------------------
(***************************************************************************)
(* lockref_server_mainloop().                                              *)
(***************************************************************************)
Ends ==
    /\ loop' = "absent" /\ pipe' = None
    /\ srv' = [InitServer EXCEPT !.sent = srv.sent]

\* The server goes on with memory s, or dies of it.
Becomes(s, place) ==
    IF s.crashed THEN Ends ELSE srv' = s /\ loop' = place /\ UNCHANGED pipe

handle_new_connection ==
    /\ loop = "wait" /\ pipe \in Thread
    /\ srv' = thread_client_queue_read(
                update_thread_count([srv EXCEPT !.tc[pipe].live = TRUE], 1), pipe)
    /\ req' = [req EXCEPT ![pipe] = NoMsg]
    /\ accepted' = accepted \cup {pipe}
    /\ pipe' = "listening"
    /\ loop' = "collect"
    /\ UNCHANGED <<at, todo, reply, now>>

\* A connection that cannot be set up, for want of memory, of another instance
\* of the pipe or of an event, ends the server, whatever clients it has.
GiveUp ==
    /\ loop = "wait" /\ pipe \in Thread
    /\ Ends
    /\ accepted' = {}
    /\ UNCHANGED <<at, todo, req, reply, now>>

Callback ==
    /\ loop \in {"wait", "woken"} /\ srv.apc # <<>>
    /\ LET apc == Head(srv.apc)
           s   == [srv EXCEPT !.apc = Tail(@)]
       IN  Becomes(IF apc.op = "read" THEN read_completed(s, apc.tc, apc.msg)
                   ELSE write_completed(s, apc.tc), "woken")
    /\ UNCHANGED <<at, todo, req, reply, accepted, now>>

TimeoutElapsed ==
    /\ loop = "wait" /\ srv.apc = <<>> /\ pipe = "listening"
    /\ Listed(srv.node) # <<>>
    /\ srv.tc[Listed(srv.node)[1]].deadline <= now
    /\ loop' = "collect"
    /\ UNCHANGED <<at, todo, req, reply, accepted, pipe, srv, now>>

\* What follows a wait: collection, the test of quit, the timeouts.
Iterate ==
    /\ \/ loop = "collect"
       \/ loop = "woken" /\ srv.apc = <<>>
    /\ IF srv.quit THEN Ends
       ELSE Becomes(timeout_list_update(
                [srv EXCEPT !.locks = lock_array_drop_unused(srv.locks)]), "wait")
    /\ UNCHANGED <<at, todo, req, reply, accepted, now>>

\* Time matters while a timed wait is under way.
Tick ==
    /\ now < MaxNow /\ Listed(srv.node) # <<>>
    /\ now' = now + 1
    /\ UNCHANGED <<at, todo, req, reply, accepted, pipe, loop, srv>>

Connect(t) == WaitNamedPipe(t) \/ create_srv_first_pipe(t) \/ CreateFile(t)
Transact(t) == create_robust_data(t) \/ Request(t) \/ Receive(t)
                \/ TransactFails(t)
ServerStep == handle_new_connection \/ GiveUp \/ Callback \/ TimeoutElapsed
                \/ Iterate

Next ==
    \/ \E t \in Thread : Connect(t) \/ Transact(t) \/ Disconnect(t)
                         \/ spawn_lock_server(t) \/ SpawnFails(t)
                         \/ DuplicateFails(t)
    \/ ServerStep
    \/ Tick

Spec == Init /\ [][Next]_vars

\* The server has something to do. It is in the middle of an iteration, or an
\* event that ends its wait has happened.
ServerReady ==
    \/ loop \in {"collect", "woken"}
    \/ loop = "wait" /\ (srv.apc # <<>> \/ pipe \in Thread)

\* Threads and the server run, and CreateProcess() does not fail for ever.
\* The third conjunct is weak fairness of the server's steps.
FairSpec ==
    /\ Spec
    /\ \A t \in Thread : /\ WF_vars(Connect(t))
                         /\ WF_vars(Transact(t))
                         /\ SF_vars(spawn_lock_server(t))
    /\ []<>~ServerReady \/ []<><<ServerStep>>_vars

-----------------------------------------------------------------------------
Live == {t \in Thread : srv.tc[t].live}

CountApc(t, op) ==
    Cardinality({i \in DOMAIN srv.apc : srv.apc[i].tc = t /\ srv.apc[i].op = op})

\* The clients whose request is a WAIT that has been read and not answered.
Asleep == UNION {Sleepers(srv.locks[i].lock) : i \in DOMAIN srv.locks}

\* A server that does not give up never goes away from a client it has accepted:
\* only a thread whose connection it had not seen yet can find the pipe broken.
NeverAbandoned == \A t \in Thread : at[t] = "abort" => t \notin accepted

(***************************************************************************)
(* The callbacks, the requests they queue and the deferred destruction     *)
(* keep their accounts: a pending operation is counted exactly once, a     *)
(* client that is being used has a read pending, by which the end of its   *)
(* thread will be noticed, one that is being destroyed lives only as long  *)
(* as an operation is pending, and no callback is for a freed client. So a *)
(* server ends when the last client has gone and abandons none that it has *)
(* accepted, unless it gives up: then it leaves all of them (GiveUp).      *)
(***************************************************************************)
ClientAccounting ==
    /\ NeverAbandoned
    /\ srv.num_thread_client = Cardinality(Live)
    /\ Live # {} => ~srv.quit
    /\ \A t \in Thread :
        LET tc == srv.tc[t] IN
        /\ tc.num_pending_request = CountApc(t, "read") + CountApc(t, "write")
                                    + (IF tc.reading THEN 1 ELSE 0)
        /\ tc.live /\ ~tc.being_destroyed
            => CountApc(t, "read") + (IF tc.reading THEN 1 ELSE 0) = 1
        /\ tc.being_destroyed => tc.live /\ tc.num_pending_request > 0

(***************************************************************************)
(* The queues of the locks and the timeout list say who sleeps: the array  *)
(* is sorted, a client sleeps in one queue if and only if its thread waits *)
(* for an answer, and the timed sleepers are linked in the order of their  *)
(* deadlines. Binary search finds what is there.                           *)
(***************************************************************************)
SleepersExact ==
    LET list == Listed(srv.node) IN
    /\ \A i, j \in DOMAIN srv.locks : i < j => srv.locks[i].key < srv.locks[j].key
    /\ \A i \in DOMAIN srv.locks :
        search_key_index(srv.locks, srv.locks[i].key) = [found |-> TRUE, index |-> i]
    /\ \A t \in Thread :
        Cardinality({i \in DOMAIN srv.locks : t \in Sleepers(srv.locks[i].lock)}) <= 1
    /\ \A t \in Asleep : at[t] = "transact" /\ srv.tc[t].live /\ srv.sent[t] = NoMsg
    /\ \A t \in Thread : at[t] = "transact" /\ srv.tc[t].reading
                          /\ srv.sent[t] = NoMsg => t \in Asleep
    /\ Range(list) = {t \in Asleep : srv.tc[t].deadline # NoTimeout}
    /\ \A i \in 1 .. Len(list) - 1 :
        srv.tc[list[i]].deadline <= srv.tc[list[i + 1]].deadline

(***************************************************************************)
(* Every thread gets through connect_to_lockref_server(), whoever has to   *)
(* spawn the server and however many end or give up in between, and every  *)
(* request is answered or sleeps in a queue, or else its process aborts    *)
(* because the server ended before it accepted the connection or has given *)
(* up. Once the first instance of the pipe is leaked nothing is promised:  *)
(* a thread connects to it and waits for ever, the others for a server.    *)
(***************************************************************************)
EveryRequestServed ==
    \A t \in Thread :
        /\ at[t] \in {"probe", "open", "spawn"}
                ~> at[t] = "queued" \/ loop = "leaked"
        /\ at[t] = "transact"
                ~> \/ at[t] = "idle" \/ t \in Asleep
                   \/ at[t] = "abort" /\ t \notin accepted
                   \/ loop = "leaked"

(***************************************************************************)
(* pshared_wait_on_lock() returns ETIMEDOUT if and only if the wait has    *)
(* timed out.                                                              *)
(***************************************************************************)
WaitTellsTruth ==
    \A t \in Thread :
        reply[t] # NoMsg /\ reply[t].op = "WAIT"
            => (reply[t].timedout # 0 <=> reply[t].elapsed)

(***************************************************************************)
(* Instances. Threads that wait on two locks, in an order that makes the   *)
(* array insert before an element, and one that wakes them. One thread     *)
(* makes timed waits.                                                      *)
(***************************************************************************)
Contending ==
    {[t \in Thread |-> CASE t = "t1" -> <<WAIT(2, 1, 1)>>
                         [] t = "t2" -> <<WAIT(1, 1, NoTimeout)>>
                         [] OTHER    -> <<WAKE(1, 2, 1), WAKE(2, 1, 2)>>],
     [t \in Thread |-> CASE t = "t1" -> <<WAIT(1, 1, 1), INITLOCK>>
                         [] t = "t2" -> <<>>
                         [] OTHER    -> <<WAKE(1, 1, 1)>>]}

TimedWait == {[t \in Thread |-> IF t = "t1" THEN <<WAIT(1, 0, 1)>>
                                ELSE <<WAKE(1, 0, 1)>>]}

=============================================================================
