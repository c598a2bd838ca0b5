------------------------------ MODULE IpcWin32 ------------------------------
(***************************************************************************)
(* Local IPC on Windows (src/local-ipc-win32.c): a server that listens     *)
(* under a name, connections accepted from it or made as a pair, datagrams *)
(* that carry file descriptors.                                            *)
(*                                                                         *)
(* Named pipes, handle tables and DuplicateHandle() are external: a handle *)
(* is a slot of the table of its process, the lowest free one when it is   *)
(* made, whichever process makes it. A descriptor is a slot with an info.  *)
(* Sizes are in units: the count of descriptors takes one, and so does     *)
(* each descriptor and each character.                                     *)
(***************************************************************************)
EXTENDS Integers, Sequences, FiniteSets, SequencesExt, FiniteSetsExt

CONSTANTS
    Client,         \* processes that connect, strings
    Pairing,        \* clients that make a connected pair instead
    SendMsgs,       \* messages to send: data, and how often the file is passed
    RecvBufs,       \* room for data and for descriptors of a receiver
    MaxData,        \* MAX_DATA_SIZE
    MaxHandle,      \* bound: slots of a table
    MaxSends,       \* bound: messages sent
    Backlog,        \* bound: messages in flight in one direction
    Mishaps         \* failures that may happen besides the ones always tried

ASSUME IpcAssumption ==
    /\ Pairing \subseteq Client
    /\ IsFiniteSet(Client) /\ "server" \notin Client
    /\ MaxData \in Nat /\ MaxHandle \in Nat \ {0} /\ MaxSends \in Nat /\ Backlog \in Nat
    /\ \A m \in SendMsgs : m.data \in Seq(Range(m.data)) /\ m.fds \in Nat /\ 1 + m.fds <= MaxData
    /\ \A b \in RecvBufs : b.data \in Nat /\ b.fds \in Nat
    /\ Mishaps \subseteq {"later_duplicate", "instance"}

Server == "server"
Proc == Client \cup {Server}
HSlot == 1 .. MaxHandle
Pipe == 1 .. (1 + Cardinality(Client))
Side == {"srv", "cli"}

VARIABLES
    table,          \* object of each handle of each process
    fdInfo,         \* info of the descriptor around a handle, "none" if none
    queue,          \* messages on their way to each end of each pipe
    met,            \* pipes a client has opened
    srvAt,          \* none, idle, accept, replace, destroyed
    hpipe,          \* srv->hpipe, a slot
    cliAt,          \* start, done, failed
    sends,          \* messages sent
    got,            \* what the last reception has returned
    lost            \* history: handles of messages nobody received, which stay open

ipcVars == <<table, fdInfo, queue, met, srvAt, hpipe, cliAt, sends, got, lost>>

NoObj == <<"none">>
File(p) == <<"file", p>>
PipeEnd(k, side) == <<side, k>>
NothingGot == [msg |-> <<>>]

-----------------------------------------------------------------------------
\* The kernel.
EmptySlots(p) == {s \in HSlot : table[p][s] = NoObj}
IsOpen(obj) == \E p \in Proc, s \in HSlot : table[p][s] = obj
UnusedPipes == {k \in Pipe : k \notin met /\ ~IsOpen(PipeEnd(k, "srv"))}
OtherEnd(end) == PipeEnd(end[2], IF end[1] = "srv" THEN "cli" ELSE "srv")
Holder(obj) == CHOOSE p \in Proc : \E s \in HSlot : table[p][s] = obj

\* The handles in the messages on their way to an end.
HandlesIn(end) == UNION {Range(m.hnds) : m \in Range(queue[end])}

\* The lowest free slot, and the n lowest, if there are as many.
Lowest(p) == {s \in EmptySlots(p) : \A t \in EmptySlots(p) : s <= t}
LowestSlots(p, n) ==
    {q \in [1 .. n -> EmptySlots(p)] :
        /\ \A i, j \in 1 .. n : i < j => q[i] < q[j]
        /\ \A s \in EmptySlots(p) \ Range(q) : \A i \in 1 .. n : q[i] < s}

\* The table with the object obj in slots of p.
Filled(p, slots, obj) ==
    [table EXCEPT ![p] = [s \in HSlot |-> IF s \in slots THEN obj ELSE table[p][s]]]
Cleared(p, slots) == Filled(p, slots, NoObj)

-----------------------------------------------------------------------------
(***************************************************************************)
(* The server. FILE_FLAG_FIRST_PIPE_INSTANCE refuses a name in use.        *)
(***************************************************************************)
mm_ipc_srv_create ==
    /\ srvAt = "none"
    /\ \E k \in UnusedPipes, s \in Lowest(Server) :
        /\ k = Min(UnusedPipes)
        /\ hpipe' = s
        /\ table' = Filled(Server, {s}, PipeEnd(k, "srv"))
    /\ srvAt' = "idle"
    /\ UNCHANGED <<fdInfo, queue, met, cliAt, sends, got, lost>>

\* ConnectNamedPipe() waits for a client, and fails for ever if the one that
\* came has closed its end. The handle then becomes a descriptor.
ListeningPipe == table[Server][hpipe][2]
AcceptClient ==
    /\ srvAt = "idle" /\ ListeningPipe \in met
    /\ IsOpen(PipeEnd(ListeningPipe, "cli"))
    /\ fdInfo' = [fdInfo EXCEPT ![Server][hpipe] = "ipc"]
    /\ srvAt' = "replace"
    /\ UNCHANGED <<table, queue, met, hpipe, cliAt, sends, got, lost>>

\* A new pipe takes the place of the connected one. When it cannot be made the
\* call fails and srv->hpipe stays the handle of the descriptor.
mm_ipc_srv_accept ==
    /\ srvAt = "replace"
    /\ \/ \E k \in UnusedPipes, s \in Lowest(Server) :
            /\ k = Min(UnusedPipes)
            /\ hpipe' = s
            /\ table' = Filled(Server, {s}, PipeEnd(k, "srv"))
       \/ "instance" \in Mishaps /\ UNCHANGED <<hpipe, table>>
    /\ srvAt' = "idle"
    /\ UNCHANGED <<fdInfo, queue, met, cliAt, sends, got, lost>>

mm_ipc_srv_destroy ==
    /\ srvAt = "idle"
    /\ table' = Cleared(Server, {hpipe})
    /\ lost' = [lost EXCEPT ![Server] = @ \cup HandlesIn(table[Server][hpipe])]
    /\ queue' = [queue EXCEPT ![table[Server][hpipe]] = <<>>]
    /\ srvAt' = "destroyed"
    /\ UNCHANGED <<fdInfo, met, hpipe, cliAt, sends, got>>

-----------------------------------------------------------------------------
(***************************************************************************)
(* Clients. WaitNamedPipe() returns when a pipe is free, another client    *)
(* may then take it first and the loop begins again.                       *)
(***************************************************************************)
mm_ipc_connect ==
    \E c \in Client \ Pairing :
        /\ cliAt[c] = "start"
        /\ \/ /\ srvAt \in {"idle", "replace"} /\ ListeningPipe \notin met
              /\ met' = met \cup {ListeningPipe}
              /\ \/ /\ \E s \in Lowest(c) :
                          /\ table' = Filled(c, {s}, PipeEnd(ListeningPipe, "cli"))
                          /\ fdInfo' = [fdInfo EXCEPT ![c][s] = "ipc"]
                    /\ cliAt' = [cliAt EXCEPT ![c] = "done"]
                 \/ /\ cliAt' = [cliAt EXCEPT ![c] = "failed"]  \* no descriptor left
                    /\ UNCHANGED <<table, fdInfo>>
           \/ /\ cliAt' = [cliAt EXCEPT ![c] = "failed"]        \* no server, or CreateFile()
              /\ UNCHANGED <<table, fdInfo, met>>
    /\ UNCHANGED <<queue, srvAt, hpipe, sends, got, lost>>

\* Both ends in one process, or none of them.
mm_ipc_connected_pair ==
    \E c \in Pairing :
        /\ cliAt[c] = "start"
        /\ \/ /\ \E k \in UnusedPipes, two \in LowestSlots(c, 2) :
                    /\ k = Max(UnusedPipes)
                    /\ table' = [Filled(c, {two[1]}, PipeEnd(k, "srv"))
                                    EXCEPT ![c][two[2]] = PipeEnd(k, "cli")]
                    /\ fdInfo' = [fdInfo EXCEPT ![c][two[1]] = "ipc", ![c][two[2]] = "ipc"]
                    /\ met' = met \cup {k}
              /\ cliAt' = [cliAt EXCEPT ![c] = "done"]
           \/ cliAt' = [cliAt EXCEPT ![c] = "failed"] /\ UNCHANGED <<table, fdInfo, met>>
    /\ UNCHANGED <<queue, srvAt, hpipe, sends, got, lost>>

-----------------------------------------------------------------------------
(***************************************************************************)
(* Messages. The handles of the descriptors are made in the process of the *)
(* other end before the message is written.                                *)
(***************************************************************************)
HeaderSize(n) == 1 + n
\* What does not fit the buffer is left out, and the caller gets the size of the
\* rest. (Descriptors that alone do not fit are outside IpcAssumption: the code
\* does not check for them, and computes a negative length.)
serialize_msg(data, n) ==
    SubSeq(data, 1, IF Len(data) + HeaderSize(n) >= MaxData THEN MaxData - HeaderSize(n)
                    ELSE Len(data))

\* The file of p, in its slot 1, is duplicated into slots of the process of the
\* other end. The first duplication may fail; when a later one does, the handles
\* made so far are closed in p, in whose table they mean something else.
write_ancillary_data(p, peer, slots) ==
    {[hnds |-> slots, ok |-> TRUE, table |-> Filled(peer, Range(slots), table[p][1])]}
    \cup (IF slots # <<>> THEN {[hnds |-> <<>>, ok |-> FALSE, table |-> table]} ELSE {})
    \cup (IF Len(slots) > 1 /\ "later_duplicate" \in Mishaps
          THEN {[hnds |-> <<>>, ok |-> FALSE,
                 table |-> [Filled(peer, {slots[1]}, table[p][1])
                                EXCEPT ![p][slots[1]] = NoObj]]} ELSE {})

\* The message of p is written to the end there of h. When WriteFile() fails the
\* handles stay.
WriteTo(p, there, h, msg) ==
    \E slots \in LowestSlots(h, msg.fds) :
    \E anc \in write_ancillary_data(p, h, slots) :
        /\ table' = anc.table
        /\ \/ /\ anc.ok
              /\ queue' = [queue EXCEPT ![there] = Append(@,
                    [given |-> msg.data, data |-> serialize_msg(msg.data, msg.fds),
                     hnds |-> anc.hnds, file |-> table[p][1]])]
              /\ UNCHANGED lost
           \/ /\ lost' = [lost EXCEPT ![h] = @ \cup Range(anc.hnds)]
              /\ UNCHANGED queue

\* p sends msg from the end in slot s.
mm_ipc_sendmsg ==
    \E p \in Proc, s \in HSlot, msg \in SendMsgs :
        /\ fdInfo[p][s] = "ipc" /\ sends < MaxSends /\ table[p][s] # NoObj
        /\ IsOpen(OtherEnd(table[p][s])) /\ Len(queue[OtherEnd(table[p][s])]) < Backlog
        /\ sends' = sends + 1
        /\ WriteTo(p, OtherEnd(table[p][s]), Holder(OtherEnd(table[p][s])), msg)
        /\ UNCHANGED <<fdInfo, met, srvAt, hpipe, cliAt, got>>

\* ReadFile() on a pipe in byte mode returns all there is: behind the first
\* message come the headers and the data of the others.
Junk == "junk"
Following(rest) ==
    LET units == {u \in (1 .. Len(rest)) \X (1 .. MaxData) :
                    u[2] <= HeaderSize(Len(rest[u[1]].hnds)) + Len(rest[u[1]].data)}
    IN  [i \in 1 .. Cardinality(units) |-> Junk]
ReadAll(msgs) == Head(msgs).data \o Following(Tail(msgs))

\* The descriptors that find room are wrapped, until one cannot be; the handles
\* that remain are closed.
read_ancillary_data_KeepsRest(p, slots, room) ==
    {[n |-> n, table |-> table] : n \in 0 .. Min({Len(slots), room})}

read_ancillary_data(p, slots, room) ==
    {[n |-> n, table |-> Cleared(p, Range(SubSeq(slots, n + 1, Len(slots))))] :
        n \in 0 .. Min({Len(slots), room})}

\* What the buffers cannot hold is dropped, and the size of the whole message
\* returned. MSG_TRUNC is set when they are too large.
deserialize_msg(p, msgs, data, buf, anc) ==
    [msg |-> <<Head(msgs)>>, read |-> Len(msgs), buf |-> buf, rv |-> Len(data),
     data |-> SubSeq(data, 1, Min({buf.data, Len(data)})),
     objs |-> [i \in 1 .. anc.n |-> anc.table[p][Head(msgs).hnds[i]]],
     trunc |-> buf.data > Len(data),
     ctrunc |-> anc.n < Len(Head(msgs).hnds)]

mm_ipc_recvmsg ==
    \E p \in Proc, s \in HSlot, buf \in RecvBufs :
        /\ fdInfo[p][s] = "ipc" /\ table[p][s] # NoObj /\ queue[table[p][s]] # <<>>
        /\ LET here == table[p][s]
               msgs == queue[here]
               slots == Head(msgs).hnds
           IN  /\ \E anc \in read_ancillary_data(p, slots, buf.fds) :
                    /\ table' = anc.table
                    /\ fdInfo' = [fdInfo EXCEPT ![p] = [x \in HSlot |->
                            IF x \in Range(SubSeq(slots, 1, anc.n)) THEN "file" ELSE fdInfo[p][x]]]
                    /\ got' = deserialize_msg(p, msgs, ReadAll(msgs), buf, anc)
               /\ lost' = [lost EXCEPT ![p] = @ \cup (HandlesIn(here) \ Range(slots))]
               /\ queue' = [queue EXCEPT ![here] = <<>>]
    /\ UNCHANGED <<met, srvAt, hpipe, cliAt, sends>>

\* mm_close() of an end: what was on its way to it is dropped with the pipe,
\* the handles in the messages stay.
CloseConnection ==
    \E p \in Proc, s \in HSlot :
        LET here == table[p][s]
        IN  /\ fdInfo[p][s] = "ipc" /\ here # NoObj
            /\ ~(p = Server /\ s = hpipe /\ srvAt = "replace")
            /\ table' = Cleared(p, {s})
            /\ fdInfo' = [fdInfo EXCEPT ![p][s] = "none"]
            /\ lost' = [lost EXCEPT ![p] = @ \cup HandlesIn(here)]
            /\ queue' = [queue EXCEPT ![here] = <<>>]
    /\ UNCHANGED <<met, srvAt, hpipe, cliAt, sends, got>>

IpcInit ==
    /\ table = [p \in Proc |-> [s \in HSlot |-> IF s = 1 THEN File(p) ELSE NoObj]]
    /\ fdInfo = [p \in Proc |-> [s \in HSlot |-> IF s = 1 THEN "file" ELSE "none"]]
    /\ queue = [e \in {PipeEnd(k, side) : k \in Pipe, side \in Side} |-> <<>>]
    /\ met = {} /\ srvAt = "none" /\ hpipe = 1
    /\ cliAt = [c \in Client |-> "start"]
    /\ sends = 0 /\ got = NothingGot /\ lost = [p \in Proc |-> {}]

IpcNext ==
    \/ mm_ipc_srv_create \/ AcceptClient \/ mm_ipc_srv_accept \/ mm_ipc_srv_destroy
    \/ mm_ipc_connect \/ mm_ipc_connected_pair
    \/ mm_ipc_sendmsg \/ mm_ipc_recvmsg \/ CloseConnection

-----------------------------------------------------------------------------
\* The handles of a process are its descriptors, the listening pipe, those in
\* messages on their way to it, and those of messages that were never received,
\* which nobody can close any more; no descriptor is without its handle, and the
\* listening pipe is nobody's descriptor.
InFlight(p) ==
    UNION {HandlesIn(e) : e \in {f \in DOMAIN queue : IsOpen(f) /\ Holder(f) = p}}
IpcHandlesAccounted ==
    \A p \in Proc : \A s \in HSlot :
        /\ table[p][s] # NoObj =>
            \/ fdInfo[p][s] # "none"
            \/ p = Server /\ srvAt = "idle" /\ s = hpipe
            \/ s \in InFlight(p) \cup lost[p]
        /\ fdInfo[p][s] # "none" => table[p][s] # NoObj
        /\ (p = Server /\ srvAt = "idle" /\ s = hpipe) => fdInfo[p][s] = "none"

\* A reception gives the oldest message: its data up to the room for them, and
\* for the descriptors passed the very files of the sender, told by MSG_CTRUNC
\* when some are missing. The data are the ones given to mm_ipc_sendmsg(), up to
\* what fits a pipe message (nothing of the doc's "whole or not at all"). What is
\* behind them, and a size that is not the message's, is only there when ReadFile()
\* found more than one message. With descriptors passed, refused and dropped in
\* any order no process loses track of a handle, apart from those in lost.
IpcDelivers ==
    /\ IpcHandlesAccounted
    /\ got # NothingGot =>
        LET m == got.msg[1]
            n == Min({got.buf.data, Len(m.data)})
        IN  /\ m.data = SubSeq(m.given, 1,
                    Min({Len(m.given), MaxData - HeaderSize(Len(m.hnds))}))
            /\ SubSeq(got.data, 1, n) = SubSeq(m.data, 1, n)
            /\ got.read = 1 => Len(got.data) = n /\ got.rv = Len(m.data)
            /\ Len(got.objs) <= got.buf.fds
            /\ \A i \in 1 .. Len(got.objs) : got.objs[i] = m.file
            /\ got.ctrunc = (Len(got.objs) < Len(m.hnds))

-----------------------------------------------------------------------------
(***************************************************************************)
(* Instances. IpcDelivers fails with each of the Mishaps.                  *)
(***************************************************************************)
SomeSendMsgs == {[data |-> <<"a">>, fds |-> 2], [data |-> <<"a", "b", "c">>, fds |-> 1]}
SomeRecvBufs == {[data |-> 1, fds |-> 0], [data |-> 4, fds |-> 1]}
=============================================================================
