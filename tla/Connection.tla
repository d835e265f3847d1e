----------------------------- MODULE Connection -----------------------------
(***************************************************************************)
(* Opening and closing connections between the service points of different *)
(* hosts: connect_point and close_conn, the sync_thread and the            *)
(* sync_ack_thread that recv_thread starts, close_conn_aux, the            *)
(* seg_send_threads that repeat a SYN, a SYN+ACK, a FIN or a segment of    *)
(* data until its acknowledgement is noted, and the mutex mutex_con.       *)
(*                                                                         *)
(* Every host has one service point, and the two share a name.  The        *)
(* content and the order of the data are the matter of DataTransfer: here  *)
(* a segment of data is one byte, and all that counts is the state of the  *)
(* connection that meets it.                                               *)
(*                                                                         *)
(* A definition marked "variant" is a plausible mistake in the one after   *)
(* it; it is not part of the model.                                        *)
(***************************************************************************)
EXTENDS Integers, FiniteSets

CONSTANTS Points,      \* the service points
          Clients,     \* those whose application calls connect_point
          Senders,     \* those whose application sends data
          MaxCalls,    \* bound: calls of connect_point
          MaxIsn,      \* bound: connections opened or accepted in all
          MaxData,     \* bound: buffers each application sends in all
          MaxNet       \* bound: segments in flight at once

ASSUME ConnectionAssumption ==
    /\ Clients \subseteq Points /\ Senders \subseteq Points
    /\ MaxCalls \in Nat /\ MaxIsn \in Nat /\ MaxData \in Nat
    /\ MaxNet \in Nat

VARIABLES
    flag_con,   \* 0 no connection, 1 opening, 2 connected, 3 closing
    dest,       \* host the point is, or was, connected to
    seq_num_s,  \* next number to send
    seq_num_r,  \* first number of the data of the peer
    acks,       \* numbers whose acknowledgement is awaited
    threads,    \* segments with a seg_send_thread
    handlers,   \* SYNs and SYN+ACKs handed to a thread of their own
    recv,       \* recv_thread: "running", "leaked" (it has left mutex_con
                \* locked) or "blocked" (it waits for mutex_con for ever)
    buffered,   \* buffers send_point has taken and send_thread has not cut
    sent,       \* buffers send_point has taken in all
    calls,      \* calls of connect_point so far
    isns,       \* initial numbers taken from rand() so far
    net         \* segments in flight

conn  == <<flag_con, dest, seq_num_s, seq_num_r, acks>>
app   == <<buffered, sent, calls>>
vars  == <<conn, threads, handlers, recv, app, isns, net>>

(* The k-th initial number drawn from rand() by any point.  The numbers of *)
(* different connections are taken to be far apart; those of one are the   *)
(* SYN or SYN+ACK, the data and the FIN.                                   *)
Span   == MaxData + 3
Isn(k) == k * Span
ConnOf(n) == n \div Span

Numbers == 0..((MaxIsn + 1) * Span - 1)
Segment == [flags : {"DATA", "SYN", "SYNACK", "ACK", "FIN"}, src : Points,
            seq_num : Numbers, ack_num : Numbers]

(* The network, which held n, with a segment for the host that p is        *)
(* connected to now; one too many is lost.                                 *)
With(n, p, s) == LET m == n \cup {[to |-> dest[p], seg |-> s]}
                 IN  IF Cardinality(m) <= MaxNet THEN m ELSE n
Ack(p, n)    == [flags |-> "ACK", src |-> p, seq_num |-> 0, ack_num |-> n]

Init ==
    /\ flag_con = [p \in Points |-> 0]
    /\ dest = [p \in Points |-> p]
    /\ seq_num_s = [p \in Points |-> 0] /\ seq_num_r = [p \in Points |-> 0]
    /\ acks = [p \in Points |-> {}]
    /\ threads = [p \in Points |-> {}]
    /\ handlers = [p \in Points |-> {}]
    /\ recv = [p \in Points |-> "running"]
    /\ buffered = [p \in Points |-> 0] /\ sent = [p \in Points |-> 0]
    /\ calls = 0 /\ isns = 0
    /\ net = {}

-----------------------------------------------------------------------------
(* Point p starts sending a segment of its own, numbered n, and awaits the *)
(* acknowledgement n + 1.                                                  *)
StartSending(p, kind, n, ack) ==
    /\ acks' = [acks EXCEPT ![p] = @ \cup {n + 1}]
    /\ threads' = [threads EXCEPT ![p] = @ \cup
                     {[flags |-> kind, src |-> p, seq_num |-> n, ack_num |-> ack]}]
    /\ seq_num_s' = [seq_num_s EXCEPT ![p] = n + 1]

(* Calls of the application. *)
Connect(p, q) ==
    /\ recv[p] = "running"
    /\ flag_con[p] = 0 /\ calls < MaxCalls /\ isns < MaxIsn
    /\ calls' = calls + 1 /\ isns' = isns + 1
    /\ dest' = [dest EXCEPT ![p] = q]
    /\ StartSending(p, "SYN", Isn(isns + 1), 0)
    /\ flag_con' = [flag_con EXCEPT ![p] = 1]
    /\ UNCHANGED <<seq_num_r, handlers, recv, buffered, sent, net>>

CloseAtOnce(p) ==        \* variant: does not wait for the FIN of the peer
    /\ recv[p] = "running"
    /\ flag_con[p] = 2
    /\ StartSending(p, "FIN", seq_num_s[p], 0)
    /\ flag_con' = [flag_con EXCEPT ![p] = 0]
    /\ UNCHANGED <<dest, seq_num_r, handlers, recv, app, isns, net>>
CloseAgain(p) ==         \* variant: closes a connection that is closing
    /\ recv[p] = "running"
    /\ flag_con[p] \in {2, 3}
    /\ StartSending(p, "FIN", seq_num_s[p], 0)
    /\ flag_con' = [flag_con EXCEPT ![p] = 3]
    /\ UNCHANGED <<dest, seq_num_r, handlers, recv, app, isns, net>>
CloseConn(p) ==
    /\ recv[p] = "running"
    /\ flag_con[p] = 2
    /\ StartSending(p, "FIN", seq_num_s[p], 0)
    /\ flag_con' = [flag_con EXCEPT ![p] = 3]
    /\ UNCHANGED <<dest, seq_num_r, handlers, recv, app, isns, net>>

SendPoint(p) ==
    /\ recv[p] = "running"
    /\ flag_con[p] = 2 /\ sent[p] < MaxData
    /\ sent' = [sent EXCEPT ![p] = @ + 1]
    /\ buffered' = [buffered EXCEPT ![p] = @ + 1]
    /\ UNCHANGED <<conn, threads, handlers, recv, calls, isns, net>>

(* send_thread does not look at flag_con: what send_point has taken before *)
(* close_conn is cut into segments after it.                               *)
CutSegment(p) ==
    /\ buffered[p] > 0
    /\ buffered' = [buffered EXCEPT ![p] = @ - 1]
    /\ StartSending(p, "DATA", seq_num_s[p], 0)
    /\ UNCHANGED <<flag_con, dest, seq_num_r, handlers, recv, sent, calls,
                   isns, net>>

(* One turn of a seg_send_thread.  The first time it sends without looking *)
(* in acks, but a segment not sent yet has not been acknowledged.          *)
SendOnce(p, s) ==        \* variant: never sends again
    /\ s \in threads[p]
    /\ net' = With(net, p, s)
    /\ threads' = [threads EXCEPT ![p] = @ \ {s}]
    /\ UNCHANGED <<conn, handlers, recv, app, isns>>
SegSend(p, s) ==
    /\ s \in threads[p]
    /\ IF s.seq_num + 1 \in acks[p]
       THEN net' = With(net, p, s) /\ UNCHANGED threads
       ELSE threads' = [threads EXCEPT ![p] = @ \ {s}] /\ UNCHANGED net
    /\ UNCHANGED <<conn, handlers, recv, app, isns>>

-----------------------------------------------------------------------------
(* recv_thread of point p takes a segment; a copy may stay in the network. *)
Arrive(p, m, kind) ==
    /\ m \in net /\ m.to = p /\ m.seg.flags = kind
    /\ recv[p] # "blocked"

Taken(m)        == net' \in {net, net \ {m}}
Answer(p, m, s) == net' \in {With(net, p, s), With(net \ {m}, p, s)}

(* A SYN or a SYN+ACK is left to a thread of its own. *)
RecvSync(p, m) ==
    /\ Arrive(p, m, "SYN") \/ Arrive(p, m, "SYNACK")
    /\ handlers' = [handlers EXCEPT ![p] = @ \cup {m.seg}]
    /\ Taken(m)
    /\ UNCHANGED <<conn, threads, recv, app, isns>>

(* sync_thread accepts a connection, unless the point has one. *)
Accept(p, syn) ==
    /\ isns < MaxIsn
    /\ isns' = isns + 1
    /\ dest' = [dest EXCEPT ![p] = syn.src]
    /\ seq_num_r' = [seq_num_r EXCEPT ![p] = syn.seq_num + 1]
    /\ StartSending(p, "SYNACK", Isn(isns + 1), syn.seq_num + 1)
    /\ flag_con' = [flag_con EXCEPT ![p] = 2]

SyncThreadAlways(p, syn) ==  \* variant: does not look for a connection
    /\ syn \in handlers[p] /\ syn.flags = "SYN" /\ recv[p] = "running"
    /\ handlers' = [handlers EXCEPT ![p] = @ \ {syn}]
    /\ IF isns < MaxIsn THEN Accept(p, syn) ELSE UNCHANGED <<conn, threads, isns>>
    /\ UNCHANGED <<recv, app, net>>
SyncThread(p, syn) ==
    /\ syn \in handlers[p] /\ syn.flags = "SYN" /\ recv[p] = "running"
    /\ handlers' = [handlers EXCEPT ![p] = @ \ {syn}]
    /\ IF flag_con[p] = 0 THEN Accept(p, syn) ELSE UNCHANGED <<conn, threads, isns>>
    /\ UNCHANGED <<recv, app, net>>

(* sync_ack_thread completes the connection of connect_point; a SYN+ACK    *)
(* that comes later is not answered.                                       *)
SyncAckThread(p, syn) ==
    /\ syn \in handlers[p] /\ syn.flags = "SYNACK" /\ recv[p] = "running"
    /\ handlers' = [handlers EXCEPT ![p] = @ \ {syn}]
    /\ IF flag_con[p] = 1
       THEN /\ acks' = [acks EXCEPT ![p] = @ \ {syn.ack_num}]
            /\ seq_num_r' = [seq_num_r EXCEPT ![p] = syn.seq_num + 1]
            /\ net' = With(net, p, Ack(p, syn.seq_num + 1))
            /\ flag_con' = [flag_con EXCEPT ![p] = 2]
       ELSE UNCHANGED <<acks, seq_num_r, net, flag_con>>
    /\ UNCHANGED <<dest, seq_num_s, threads, recv, app, isns>>

RecvAck(p, m) ==
    /\ Arrive(p, m, "ACK")
    /\ acks' = [acks EXCEPT ![p] = @ \ {m.seg.ack_num}]
    /\ Taken(m)
    /\ UNCHANGED <<flag_con, dest, seq_num_s, seq_num_r, threads, handlers, recv,
                   app, isns>>

(* Data for a point that is connected: acknowledged, or outside the window *)
(* and dropped.                                                            *)
RecvData(p, m) ==
    /\ Arrive(p, m, "DATA") /\ recv[p] = "running" /\ flag_con[p] = 2
    /\ Answer(p, m, Ack(p, m.seg.seq_num + 1)) \/ Taken(m)
    /\ UNCHANGED <<conn, threads, handlers, recv, app, isns>>

(* Data for a point that is not: recv_thread leaves the switch without     *)
(* unlocking mutex_con.                                                    *)
LeakMutexCon(p, m) ==
    /\ Arrive(p, m, "DATA") /\ recv[p] = "running" /\ flag_con[p] # 2
    /\ recv' = [recv EXCEPT ![p] = "leaked"]
    /\ Taken(m)
    /\ UNCHANGED <<conn, threads, handlers, app, isns>>

(* The next segment that needs mutex_con stops recv_thread for good. *)
Block(p, m) ==
    /\ Arrive(p, m, "DATA") \/ Arrive(p, m, "FIN")
    /\ recv[p] = "leaked"
    /\ recv' = [recv EXCEPT ![p] = "blocked"]
    /\ Taken(m)
    /\ UNCHANGED <<conn, threads, handlers, app, isns>>

(* close_conn_aux: a connected point acknowledges the FIN and sends its    *)
(* own; a closing one acknowledges it; the others do not answer.           *)
RecvFinNoFin(p, m) ==    \* variant: a connected point sends no FIN
    /\ Arrive(p, m, "FIN") /\ recv[p] = "running"
    /\ IF flag_con[p] \in {2, 3}
       THEN /\ Answer(p, m, Ack(p, m.seg.seq_num + 1))
            /\ flag_con' = [flag_con EXCEPT ![p] = 0]
       ELSE Taken(m) /\ UNCHANGED flag_con
    /\ UNCHANGED <<dest, seq_num_s, seq_num_r, acks, threads, handlers, recv, app,
                   isns>>
RecvFin(p, m) ==
    /\ Arrive(p, m, "FIN") /\ recv[p] = "running"
    /\ IF flag_con[p] \in {2, 3}
       THEN /\ Answer(p, m, Ack(p, m.seg.seq_num + 1))
            /\ flag_con' = [flag_con EXCEPT ![p] = 0]
       ELSE Taken(m) /\ UNCHANGED flag_con
    /\ IF flag_con[p] = 2 THEN StartSending(p, "FIN", seq_num_s[p], 0)
                          ELSE UNCHANGED <<acks, threads, seq_num_s>>
    /\ UNCHANGED <<dest, seq_num_r, handlers, recv, app, isns>>

Lose(m) ==
    /\ m \in net /\ net' = net \ {m}
    /\ UNCHANGED <<conn, threads, handlers, recv, app, isns>>

-----------------------------------------------------------------------------
Handle(p, m) ==
    RecvSync(p, m) \/ RecvAck(p, m) \/ RecvData(p, m) \/ LeakMutexCon(p, m)
      \/ Block(p, m) \/ RecvFin(p, m)

Next ==
    \/ \E p \in Clients : \E q \in Points \ {p} : Connect(p, q)
    \/ \E p \in Points : CloseConn(p)
    \/ \E p \in Senders : SendPoint(p) \/ CutSegment(p)
    \/ \E p \in Points : \E s \in threads[p] : SegSend(p, s)
    \/ \E p \in Points : \E m \in net : Handle(p, m)
    \/ \E p \in Points : \E s \in handlers[p] : SyncThread(p, s) \/ SyncAckThread(p, s)
    \/ \E m \in net : Lose(m)

Spec == Init /\ [][Next]_vars

(* Every seg_send_thread wakes up, every thread started for a SYN or a     *)
(* SYN+ACK runs, and of the segments of one kind that keep coming to a     *)
(* point one gets through.                                                 *)
Fairness ==
    \A p \in Points :
        /\ \A kind \in {"SYN", "SYNACK", "FIN"} :
             /\ WF_vars(\E s \in threads[p] : s.flags = kind /\ SegSend(p, s))
             /\ SF_vars(\E m \in net : m.seg.flags = kind /\ Handle(p, m))
        /\ WF_vars(\E s \in handlers[p] : SyncThread(p, s))
        /\ WF_vars(\E s \in handlers[p] : SyncAckThread(p, s))

FairSpec == Spec /\ Fairness

-----------------------------------------------------------------------------
(* Every variable keeps to its range; in particular a point takes one      *)
(* number for its SYN or SYN+ACK, one for each buffer and one for its FIN. *)
TypeOK ==
    /\ flag_con \in [Points -> 0..3] /\ dest \in [Points -> Points]
    /\ seq_num_s \in [Points -> Numbers] /\ seq_num_r \in [Points -> Numbers]
    /\ acks \in [Points -> SUBSET Numbers]
    /\ threads \in [Points -> SUBSET Segment] /\ handlers \in [Points -> SUBSET Segment]
    /\ recv \in [Points -> {"running", "leaked", "blocked"}]
    /\ buffered \in [Points -> 0..MaxData] /\ sent \in [Points -> 0..MaxData]
    /\ calls \in 0..MaxCalls /\ isns \in 0..MaxIsn
    /\ net \subseteq [to : Points, seg : Segment]

(* The two points are in one connection, or were in it last. *)
SameConnection(p, q) ==
    /\ dest[p] = q /\ dest[q] = p
    /\ ConnOf(seq_num_r[p]) = ConnOf(seq_num_s[q])
    /\ ConnOf(seq_num_r[q]) = ConnOf(seq_num_s[p])

(* A client that is connected is connected to a point that has accepted    *)
(* this very connection and has not left it: whatever copies of its SYN    *)
(* are about, the two agree on the numbers.                                *)
ClientHasServer ==
    \A p \in Clients : flag_con[p] = 2 =>
        flag_con[dest[p]] \in {2, 3} /\ SameConnection(p, dest[p])

(* No point is free again while its peer takes the connection for open:    *)
(* flag_con returns to 0 only when the peer has asked for it or been told. *)
OrderlyClose ==
    \A p, q \in Points :
        flag_con[p] = 0 /\ seq_num_r[p] # 0 /\ SameConnection(p, q) => flag_con[q] # 2

(* connect_point "establishes a connection": the point does not go on      *)
(* trying for ever.                                                        *)
ConnectCompletes == \A p \in Clients : flag_con[p] = 1 ~> flag_con[p] # 1

(* close_conn frees the point of the client in the end.                    *)
ClientCloses == \A p \in Clients : flag_con[p] = 3 ~> flag_con[p] = 0
=============================================================================
