---------------------------- MODULE LayerThreads ----------------------------
(***************************************************************************)
(* The threads of the layers of one host and what they hand to each other: *)
(* upwards a frame goes from internalrecv of the link layer to the one of  *)
(* the network layer, to the one of the transport layer and to recv_thread *)
(* of its service point; downwards internalsend of the network layer takes *)
(* packets from the send queue and hands them to internalsend of the link  *)
(* layer.                                                                  *)
(*                                                                         *)
(* Each thread hands a frame to the next one in a variable both share, and *)
(* a pair of mutexes guards it.  They are used as binary semaphores: the   *)
(* writer locks the one the reader unlocks and the other way round.  A     *)
(* mutex is TRUE here while it is locked.                                  *)
(*                                                                         *)
(* Of a frame only its end matters: where on its way the host is done with *)
(* it.  A field of a shared variable holds the frame it was written for,   *)
(* as the fields are written and read one by one.                          *)
(*                                                                         *)
(* A definition marked "variant" is not part of the model: it is a         *)
(* plausible mistake in the definition after it.                           *)
(***************************************************************************)
EXTENDS Integers, Sequences

CONSTANTS Points,            \* service points that are allocated
          MAX_SEND_WAITING   \* slots of the send queue

ASSUME LayerThreadsAssumption ==
    /\ MAX_SEND_WAITING \in Nat \ {0}
    /\ Points \cap {"net", "forward", "transport"} = {}

(* A frame whose checksum is right goes as far as the network layer, when  *)
(* it holds a piece, a damaged datagram or a route; as far as the send     *)
(* queue, when it is for another host; as far as the transport layer, when *)
(* its segment is damaged or its service point is not allocated; and else  *)
(* to a service point, whose thread finds data, a FIN or something else.   *)
Ends  == {"net", "forward", "transport"}
Frame == [id : {0}, to : Ends] \cup [id : {0, 1}, to : Points]
Kind  == {"data", "fin", "other"}
None  == <<>>
Slot  == [data : Frame \cup {None}, size : Frame \cup {None}]
EmptySlot == [data |-> None, size |-> None]

VARIABLES
    link_recv_mutex, net_recv_mutex,   \* guard recv_frame
    net2_recv_mutex, transp_recv_mutex, \* guard recv_datagram
    mutex_pack_prod, mutex_pack_cons,  \* guard wait_buff of each point
    mutex_con,        \* of each point
    recv_frame,       \* from the link layer to the network layer
    recv_datagram,    \* from the network layer to the transport layer
    wait_buff,        \* from the transport layer to each point
    link, buf_rcv,    \* the thread of the link layer, and what it received
    net, recv,        \* the thread of the network layer, and what it copied
    transp, new_recv, \* the thread of the transport layer, likewise
    point, taken,     \* the recv_thread of each point, likewise
    flag_con,         \* each point: is it connected, that is, 2
    queued,           \* items in the send queue
    intersend_mutex, send_mutex,       \* guard send_frame
    send_frame,       \* from the network layer to the link layer: the fields
                      \* written and not yet sent
    send, transmit,   \* internalsend of the network layer, of the link layer
    next              \* history: the id of the next frame for a point

mutexes == <<link_recv_mutex, net_recv_mutex, net2_recv_mutex, transp_recv_mutex,
             mutex_pack_prod, mutex_pack_cons, mutex_con>>
above   == <<mutex_pack_prod, mutex_pack_cons, mutex_con, wait_buff, point, taken,
             flag_con>>
sending == <<intersend_mutex, send_mutex, send_frame, send, transmit>>
vars    == <<mutexes, recv_frame, recv_datagram, wait_buff, link, buf_rcv, net, recv,
             transp, new_recv, point, taken, flag_con, queued, next, sending>>

(* main locks the mutexes of what is empty; alloc_service_point likewise.  *)
Init ==
    /\ link_recv_mutex = FALSE /\ net_recv_mutex = TRUE
    /\ net2_recv_mutex = FALSE /\ transp_recv_mutex = TRUE
    /\ mutex_pack_prod = [p \in Points |-> FALSE]
    /\ mutex_pack_cons = [p \in Points |-> TRUE]
    /\ mutex_con = [p \in Points |-> FALSE]
    /\ recv_frame = EmptySlot /\ recv_datagram = EmptySlot
    /\ wait_buff = [p \in Points |-> None]
    /\ link = "lock" /\ buf_rcv = None
    /\ net = "lock" /\ recv = EmptySlot
    /\ transp = "lock" /\ new_recv = EmptySlot
    /\ point = [p \in Points |-> "lock"] /\ taken = [p \in Points |-> None]
    /\ flag_con = [p \in Points |-> FALSE]
    /\ queued = 0 /\ next = 0
    /\ intersend_mutex = FALSE /\ send_mutex = TRUE /\ send_frame = {}
    /\ send = "remove" /\ transmit = "lock"

-----------------------------------------------------------------------------
(* internalrecv of link.c *)
LinkLock ==
    /\ link = "lock" /\ ~link_recv_mutex
    /\ link_recv_mutex' = TRUE /\ link' = "recvfrom"
    /\ UNCHANGED <<net_recv_mutex, net2_recv_mutex, transp_recv_mutex, above, recv_frame,
                   recv_datagram, buf_rcv, net, recv, transp, new_recv, queued, next, sending>>

(* recvfrom, until a checksum is right; then getrecvframe writes the size  *)
(* and the data.                                                           *)
Accept(f) ==
    /\ link = "recvfrom" /\ (f.to \in Points => f.id = next)
    /\ next' = IF f.to \in Points THEN 1 - next ELSE next
    /\ buf_rcv' = f /\ recv_frame' = [recv_frame EXCEPT !.size = f]
    /\ link' = "data"
    /\ UNCHANGED <<mutexes, recv_datagram, wait_buff, net, recv, transp, new_recv,
                   point, taken, flag_con, queued, sending>>

LinkHandUp ==
    /\ link = "data"
    /\ recv_frame' = [recv_frame EXCEPT !.data = buf_rcv]
    /\ net_recv_mutex' = FALSE /\ link' = "lock" /\ buf_rcv' = None
    /\ UNCHANGED <<link_recv_mutex, net2_recv_mutex, transp_recv_mutex, above,
                   recv_datagram, net, recv, transp, new_recv, queued, next, sending>>

-----------------------------------------------------------------------------
(* internalrecv of net_layer.c *)
NetLockEarly ==  \* variant: releases the link layer before it has copied the frame
    /\ net = "lock" /\ ~net_recv_mutex
    /\ net_recv_mutex' = TRUE
    /\ recv' = [recv EXCEPT !.data = recv_frame.data]
    /\ net' = "size" /\ link_recv_mutex' = FALSE
    /\ UNCHANGED <<net2_recv_mutex, transp_recv_mutex, above, recv_frame,
                   recv_datagram, link, buf_rcv, transp, new_recv, queued, next, sending>>
NetLock ==
    /\ net = "lock" /\ ~net_recv_mutex
    /\ net_recv_mutex' = TRUE
    /\ recv' = [recv EXCEPT !.data = recv_frame.data]
    /\ net' = "size"
    /\ UNCHANGED <<link_recv_mutex, net2_recv_mutex, transp_recv_mutex, above, recv_frame,
                   recv_datagram, link, buf_rcv, transp, new_recv, queued, next, sending>>

NetCopiedOwn ==  \* variant: a packet for another host does not release the link layer
    /\ net = "size"
    /\ recv' = [recv EXCEPT !.size = recv_frame.size]
    /\ recv_frame' = EmptySlot /\ net' = "dest"
    /\ link_recv_mutex' = (recv_frame.size.to = "forward")
    /\ UNCHANGED <<net_recv_mutex, net2_recv_mutex, transp_recv_mutex, above,
                   recv_datagram, link, buf_rcv, transp, new_recv, queued, next, sending>>
NetCopied ==
    /\ net = "size"
    /\ recv' = [recv EXCEPT !.size = recv_frame.size]
    /\ recv_frame' = EmptySlot /\ link_recv_mutex' = FALSE /\ net' = "dest"
    /\ UNCHANGED <<net_recv_mutex, net2_recv_mutex, transp_recv_mutex, above,
                   recv_datagram, link, buf_rcv, transp, new_recv, queued, next, sending>>

(* A damaged datagram, a piece, a route; *)
NetDone ==
    /\ net = "dest" /\ recv.data.to = "net" /\ net' = "lock" /\ recv' = EmptySlot
    /\ UNCHANGED <<mutexes, recv_frame, recv_datagram, wait_buff, link, buf_rcv,
                   transp, new_recv, point, taken, flag_con, queued, next, sending>>

(* a packet for another host: net_resend waits for room in the queue; *)
NetForwardAny ==  \* variant: net_resend does not wait for room
    /\ net = "dest" /\ recv.data.to = "forward"
    /\ queued' = queued + 1 /\ net' = "lock" /\ recv' = EmptySlot
    /\ UNCHANGED <<mutexes, recv_frame, recv_datagram, wait_buff, link, buf_rcv,
                   transp, new_recv, point, taken, flag_con, next, sending>>
NetForward ==
    /\ net = "dest" /\ recv.data.to = "forward" /\ queued < MAX_SEND_WAITING
    /\ queued' = queued + 1 /\ net' = "lock" /\ recv' = EmptySlot
    /\ UNCHANGED <<mutexes, recv_frame, recv_datagram, wait_buff, link, buf_rcv,
                   transp, new_recv, point, taken, flag_con, next, sending>>

(* a packet for the transport layer. *)
NetPass ==
    /\ net = "dest" /\ recv.data.to \in Points \cup {"transport"} /\ ~net2_recv_mutex
    /\ net2_recv_mutex' = TRUE
    /\ recv_datagram' = [recv_datagram EXCEPT !.data = recv.data]
    /\ net' = "pass"
    /\ UNCHANGED <<link_recv_mutex, net_recv_mutex, transp_recv_mutex, above, recv_frame,
                   link, buf_rcv, recv, transp, new_recv, queued, next, sending>>

NetHandUp ==
    /\ net = "pass"
    /\ recv_datagram' = [recv_datagram EXCEPT !.size = recv.size]
    /\ transp_recv_mutex' = FALSE /\ net' = "lock" /\ recv' = EmptySlot
    /\ UNCHANGED <<link_recv_mutex, net_recv_mutex, net2_recv_mutex, above, recv_frame,
                   link, buf_rcv, transp, new_recv, queued, next, sending>>

-----------------------------------------------------------------------------
(* internalrecv of transport_layer.c *)
TranspLock ==
    /\ transp = "lock" /\ ~transp_recv_mutex
    /\ transp_recv_mutex' = TRUE
    /\ new_recv' = [new_recv EXCEPT !.data = recv_datagram.data]
    /\ transp' = "size"
    /\ UNCHANGED <<link_recv_mutex, net_recv_mutex, net2_recv_mutex, above, recv_frame,
                   recv_datagram, link, buf_rcv, net, recv, queued, next, sending>>

TranspCopied ==
    /\ transp = "size"
    /\ new_recv' = [new_recv EXCEPT !.size = recv_datagram.size]
    /\ recv_datagram' = EmptySlot /\ net2_recv_mutex' = FALSE /\ transp' = "dest"
    /\ UNCHANGED <<link_recv_mutex, net_recv_mutex, transp_recv_mutex, above, recv_frame,
                   link, buf_rcv, net, recv, queued, next, sending>>

TranspDone ==
    /\ transp = "dest" /\ new_recv.data.to = "transport" /\ transp' = "lock" /\ new_recv' = EmptySlot
    /\ UNCHANGED <<mutexes, recv_frame, recv_datagram, wait_buff, link, buf_rcv, net, recv,
                   point, taken, flag_con, queued, next, sending>>

TranspHandUpOver(p) ==  \* variant: does not wait for the recv_thread
    /\ transp = "dest" /\ new_recv.data.to = p
    /\ mutex_pack_prod' = [mutex_pack_prod EXCEPT ![p] = TRUE]
    /\ wait_buff' = [wait_buff EXCEPT ![p] = new_recv.data]
    /\ mutex_pack_cons' = [mutex_pack_cons EXCEPT ![p] = FALSE]
    /\ transp' = "lock" /\ new_recv' = EmptySlot
    /\ UNCHANGED <<link_recv_mutex, net_recv_mutex, net2_recv_mutex, transp_recv_mutex,
                   mutex_con, recv_frame, recv_datagram, link, buf_rcv, net, recv,
                   point, taken, flag_con, queued, next, sending>>
TranspHandUp(p) ==
    /\ transp = "dest" /\ new_recv.data.to = p /\ ~mutex_pack_prod[p]
    /\ mutex_pack_prod' = [mutex_pack_prod EXCEPT ![p] = TRUE]
    /\ wait_buff' = [wait_buff EXCEPT ![p] = new_recv.data]
    /\ mutex_pack_cons' = [mutex_pack_cons EXCEPT ![p] = FALSE]
    /\ transp' = "lock" /\ new_recv' = EmptySlot
    /\ UNCHANGED <<link_recv_mutex, net_recv_mutex, net2_recv_mutex, transp_recv_mutex,
                   mutex_con, recv_frame, recv_datagram, link, buf_rcv, net, recv,
                   point, taken, flag_con, queued, next, sending>>

-----------------------------------------------------------------------------
(* recv_thread *)
below == <<link_recv_mutex, net_recv_mutex, net2_recv_mutex, transp_recv_mutex,
           recv_frame, recv_datagram, link, buf_rcv, net, recv, transp, new_recv, next, sending>>

Take(p) ==
    /\ point[p] = "lock" /\ ~mutex_pack_cons[p]
    /\ mutex_pack_cons' = [mutex_pack_cons EXCEPT ![p] = TRUE]
    /\ taken' = [taken EXCEPT ![p] = wait_buff[p]]
    /\ wait_buff' = [wait_buff EXCEPT ![p] = None]
    /\ mutex_pack_prod' = [mutex_pack_prod EXCEPT ![p] = FALSE]
    /\ \E kind \in Kind : point' = [point EXCEPT ![p] = kind]
    /\ UNCHANGED <<below, mutex_con, flag_con, queued>>

(* A segment that needs no mutex_con. *)
HandleOther(p) ==
    /\ point[p] = "other"
    /\ point' = [point EXCEPT ![p] = "lock"] /\ taken' = [taken EXCEPT ![p] = None]
    /\ UNCHANGED <<below, mutex_pack_prod, mutex_pack_cons, mutex_con, wait_buff,
                   flag_con, queued>>

(* Data: it is acknowledged, through the send queue, unless it is outside  *)
(* the window, which is "other" here.  When the point is not connected the *)
(* data is dropped and mutex_con stays locked.                             *)
HandleData(p) ==
    /\ point[p] = "data" /\ ~mutex_con[p]
    /\ IF flag_con[p]
       THEN /\ queued < MAX_SEND_WAITING /\ queued' = queued + 1
            /\ UNCHANGED mutex_con
       ELSE /\ mutex_con' = [mutex_con EXCEPT ![p] = TRUE]
            /\ UNCHANGED queued
    /\ point' = [point EXCEPT ![p] = "lock"] /\ taken' = [taken EXCEPT ![p] = None]
    /\ UNCHANGED <<below, mutex_pack_prod, mutex_pack_cons, wait_buff, flag_con>>

(* FIN: close_conn_aux acknowledges it, if the point is connected or is    *)
(* closing itself, and frees the point.  The code holds mutex_con while    *)
(* net_send waits for room; here it waits before it takes mutex_con, which *)
(* comes to the same, as making room takes no mutex_con.                   *)
HandleFin(p) ==
    /\ point[p] = "fin" /\ ~mutex_con[p]
    /\ \/ queued < MAX_SEND_WAITING /\ queued' = queued + 1
       \/ ~flag_con[p] /\ UNCHANGED queued
    /\ flag_con' = [flag_con EXCEPT ![p] = FALSE]
    /\ point' = [point EXCEPT ![p] = "lock"] /\ taken' = [taken EXCEPT ![p] = None]
    /\ UNCHANGED <<below, mutex_pack_prod, mutex_pack_cons, mutex_con, wait_buff>>

-----------------------------------------------------------------------------
(* sync_thread and sync_ack_thread open a connection. *)
Connect(p) ==
    /\ ~mutex_con[p] /\ ~flag_con[p]
    /\ flag_con' = [flag_con EXCEPT ![p] = TRUE]
    /\ UNCHANGED <<below, mutexes, wait_buff, point, taken, queued>>

-----------------------------------------------------------------------------
(* internalsend of net_layer.c takes an item and calls link_send, once for *)
(* each piece when it is cut; one call stands for these, as no lock is     *)
(* held between them.  link_send refuses a piece when there is no link to  *)
(* its neighbour or it is too large,                                       *)
receiving == <<mutexes, recv_frame, recv_datagram, wait_buff, link, buf_rcv, net, recv,
               transp, new_recv, point, taken, flag_con, next>>

Remove ==
    /\ send = "remove" /\ queued > 0
    /\ queued' = queued - 1 /\ send' = "link_send"
    /\ UNCHANGED <<receiving, intersend_mutex, send_mutex, send_frame, transmit>>

LinkRefuse ==
    /\ send = "link_send" /\ send' = "remove"
    /\ UNCHANGED <<receiving, queued, intersend_mutex, send_mutex, send_frame, transmit>>

(* or fills send_frame and socket_dest for the thread of the link layer.   *)
LinkSend ==
    /\ send = "link_send" /\ ~intersend_mutex
    /\ intersend_mutex' = TRUE
    /\ send_frame' = send_frame \cup {"data"} /\ send' = "socket_dest"
    /\ UNCHANGED <<receiving, queued, send_mutex, transmit>>

LinkSendDone ==
    /\ send = "socket_dest"
    /\ send_frame' = send_frame \cup {"socket_dest"}
    /\ send_mutex' = FALSE /\ send' = "remove"
    /\ UNCHANGED <<receiving, queued, intersend_mutex, transmit>>

(* internalsend of link.c *)
TransmitLock ==
    /\ transmit = "lock" /\ ~send_mutex
    /\ send_mutex' = TRUE /\ transmit' = "sendto"
    /\ UNCHANGED <<receiving, queued, intersend_mutex, send_frame, send>>

Transmit ==
    /\ transmit = "sendto"
    /\ send_frame' = {} /\ intersend_mutex' = FALSE /\ transmit' = "lock"
    /\ UNCHANGED <<receiving, queued, send_mutex, send>>

Link   == LinkLock \/ LinkHandUp
Net    == NetLock \/ NetCopied \/ NetDone \/ NetForward \/ NetPass \/ NetHandUp
Transp == TranspLock \/ TranspCopied \/ TranspDone \/ \E p \in Points : TranspHandUp(p)
Sender   == Remove \/ LinkRefuse \/ LinkSend \/ LinkSendDone
Wire     == TransmitLock \/ Transmit
Recv(p) == Take(p) \/ HandleOther(p) \/ HandleData(p) \/ HandleFin(p)

Next == \/ Link \/ Net \/ Transp \/ Sender \/ Wire
        \/ \E p \in Points : Recv(p) \/ Connect(p)
        \/ \E f \in Frame : Accept(f)

Spec == Init /\ [][Next]_vars

(* The threads run; one waits for each mutex, and the send queue lets its  *)
(* producers in in turn (semop).                                           *)
Fairness == /\ WF_vars(Link) /\ WF_vars(Net) /\ WF_vars(Transp)
            /\ WF_vars(Sender) /\ WF_vars(Wire)
            /\ SF_vars(NetForward)
            /\ \A p \in Points : SF_vars(Recv(p))

FairSpec == Spec /\ Fairness

-----------------------------------------------------------------------------
MutexTypes ==
    /\ link_recv_mutex \in BOOLEAN /\ net_recv_mutex \in BOOLEAN
    /\ net2_recv_mutex \in BOOLEAN /\ transp_recv_mutex \in BOOLEAN
    /\ intersend_mutex \in BOOLEAN /\ send_mutex \in BOOLEAN

PointTypes ==
    /\ mutex_pack_prod \in [Points -> BOOLEAN] /\ mutex_pack_cons \in [Points -> BOOLEAN]
    /\ mutex_con \in [Points -> BOOLEAN] /\ flag_con \in [Points -> BOOLEAN]
    /\ wait_buff \in [Points -> Frame \cup {None}]
    /\ point \in [Points -> {"lock"} \cup Kind] /\ taken \in [Points -> Frame \cup {None}]

LayerTypes ==
    /\ recv_frame \in Slot /\ recv_datagram \in Slot
    /\ link \in {"lock", "recvfrom", "data"} /\ buf_rcv \in Frame \cup {None}
    /\ net \in {"lock", "size", "dest", "pass"} /\ recv \in Slot
    /\ transp \in {"lock", "size", "dest"} /\ new_recv \in Slot
    /\ queued \in 0..MAX_SEND_WAITING /\ next \in {0, 1}
    /\ send_frame \subseteq {"data", "socket_dest"}
    /\ send \in {"remove", "link_send", "socket_dest"} /\ transmit \in {"lock", "sendto"}

TypeOK == MutexTypes /\ PointTypes /\ LayerTypes

(* What a layer has copied is one frame, not the data of one and the size  *)
(* of another.                                                             *)
WholeFrames ==
    /\ net \in {"dest", "pass"} => recv.data = recv.size /\ recv.data # None
    /\ transp = "dest" => new_recv.data = new_recv.size /\ new_recv.data # None
    /\ transmit = "sendto" => send_frame = {"data", "socket_dest"}
    /\ send = "socket_dest" => send_frame = {"data"}

(* The frames that are under way to p, oldest first.  A variable is full   *)
(* while the mutex its reader waits for is unlocked.                       *)
If(there, f) == IF there THEN <<f>> ELSE <<>>
InWaitBuff(p) == If(~mutex_pack_cons[p], wait_buff[p])
InTransp(p)   == If(transp # "lock" /\ new_recv.data.to = p, new_recv.data)
InDatagram(p) == If(~transp_recv_mutex /\ recv_datagram.data.to = p, recv_datagram.data)
InNet(p)      == If(net # "lock" /\ recv.data.to = p, recv.data)
InFrame(p)    == If(~net_recv_mutex /\ recv_frame.data.to = p, recv_frame.data)
InLink(p)     == If(link = "data" /\ buf_rcv.to = p, buf_rcv)
UnderWay(p)   == InWaitBuff(p) \o InTransp(p) \o InDatagram(p)
                 \o InNet(p) \o InFrame(p) \o InLink(p)

Channel == INSTANCE FrameChannel WITH
              Capacity <- 5, waiting <- [p \in Points |-> UnderWay(p)]

(* Whatever the order in which the threads run, the four hand-overs are a  *)
(* channel that neither loses, repeats nor reorders the frames of a point. *)
ImplementsChannel == Channel!Spec

(* The thread of the point waits for mutex_con, which nobody will unlock.  *)
Stuck(p) == point[p] \in {"data", "fin"} /\ mutex_con[p]

(* The host listens again and again: the threads never wait for one        *)
(* another in a circle.  Only a recv_thread that found mutex_con locked    *)
(* stops it, and then for all service points.                              *)
ListensOn == \/ <>\E p \in Points : Stuck(p)
             \/ []<>(link = "recvfrom") /\ []<>(send = "remove")
=============================================================================
