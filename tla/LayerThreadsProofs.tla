------------------------- MODULE LayerThreadsProofs -------------------------
(***************************************************************************)
(* The hand-overs of LayerThreads, for any number of service points and    *)
(* any length of the send queue: TypeOK and WholeFrames are invariants,    *)
(* and the hand-overs implement the channel of module FrameChannel.        *)
(*                                                                         *)
(* No mutex says who may touch a shared variable: the one who may is told  *)
(* by a mutex, or by where a thread is.  Each part of the inductive        *)
(* invariant says for one shared variable that there is exactly one such   *)
(* sign at a time, and what the variable holds then.                       *)
(***************************************************************************)
EXTENDS LayerThreads, SequenceTheorems, TLAPS

(* recv_frame: link_recv_mutex unlocked, the thread of the link layer      *)
(* between its two mutexes, net_recv_mutex unlocked, or the thread of the  *)
(* network layer copying.                                                  *)
FrameInv ==
    /\ ~link_recv_mutex => net_recv_mutex /\ link = "lock" /\ net # "size"
    /\ link # "lock" => link_recv_mutex /\ net_recv_mutex /\ net # "size"
    /\ ~net_recv_mutex => link_recv_mutex /\ link = "lock" /\ net # "size"
    /\ net = "size" => link_recv_mutex /\ net_recv_mutex /\ link = "lock"
    /\ link = "data" => recv_frame.size = buf_rcv /\ buf_rcv \in Frame
    /\ ~net_recv_mutex => recv_frame.data = recv_frame.size /\ recv_frame.data \in Frame
    /\ net = "size" => recv.data = recv_frame.size /\ recv.data \in Frame
    /\ net \in {"dest", "pass"} => recv.data = recv.size /\ recv.data \in Frame

(* recv_datagram, between the network and the transport layer. *)
DatagramInv ==
    /\ ~net2_recv_mutex => transp_recv_mutex /\ net # "pass" /\ transp # "size"
    /\ net = "pass" => net2_recv_mutex /\ transp_recv_mutex /\ transp # "size"
    /\ ~transp_recv_mutex => net2_recv_mutex /\ net # "pass" /\ transp # "size"
    /\ transp = "size" => net2_recv_mutex /\ transp_recv_mutex /\ net # "pass"
    /\ net = "pass" => recv_datagram.data = recv.data
    /\ ~transp_recv_mutex =>
         recv_datagram.data = recv_datagram.size /\ recv_datagram.data \in Frame
    /\ transp = "size" => new_recv.data = recv_datagram.size /\ new_recv.data \in Frame
    /\ transp = "dest" => new_recv.data = new_recv.size /\ new_recv.data \in Frame

(* send_frame, from the network layer to the link layer. *)
SendInv ==
    /\ ~intersend_mutex => send_mutex /\ send # "socket_dest" /\ transmit = "lock"
    /\ send = "socket_dest" => intersend_mutex /\ send_mutex /\ transmit = "lock"
    /\ ~send_mutex => intersend_mutex /\ send # "socket_dest" /\ transmit = "lock"
    /\ transmit = "sendto" => intersend_mutex /\ send_mutex /\ send # "socket_dest"
    /\ ~intersend_mutex => send_frame = {}
    /\ send = "socket_dest" => send_frame = {"data"}
    /\ ~send_mutex \/ transmit = "sendto" => send_frame = {"data", "socket_dest"}

HandOverInv == TypeOK /\ FrameInv /\ DatagramInv /\ SendInv

-----------------------------------------------------------------------------
LEMMA NoneIsNoFrame == None \notin Frame
  BY DEF None, Frame

LEMMA InitHandOver == Init => HandOverInv
  <1> SUFFICES ASSUME Init PROVE HandOverInv
    OBVIOUS
  <1>1. TypeOK
    <2>1. MutexTypes
      BY DEF Init, MutexTypes
    <2>2. PointTypes
      BY DEF Init, PointTypes
    <2>3. LayerTypes
      BY LayerThreadsAssumption DEF LayerThreadsAssumption, Init, LayerTypes, Slot, EmptySlot
    <2> QED
      BY <2>1, <2>2, <2>3 DEF TypeOK
  <1>2. FrameInv /\ DatagramInv /\ SendInv
    BY DEF Init, FrameInv, DatagramInv, SendInv
  <1> QED
    BY <1>1, <1>2 DEF HandOverInv

LEMMA MutexStep ==
  ASSUME MutexTypes, [Next]_vars
  PROVE  MutexTypes'
  <1>1. CASE LinkLock \/ LinkHandUp
    BY <1>1 DEF LinkLock, LinkHandUp, MutexTypes, above, sending
  <1>2. CASE NetLock \/ NetCopied \/ NetDone \/ NetForward \/ NetPass \/ NetHandUp
    BY <1>2 DEF NetLock, NetCopied, NetDone, NetForward, NetPass, NetHandUp,
       MutexTypes, above, sending, mutexes
  <1>3. CASE TranspLock \/ TranspCopied \/ TranspDone
     \/ (\E p \in Points : TranspHandUp(p))
    BY <1>3 DEF TranspLock, TranspCopied, TranspDone, TranspHandUp, MutexTypes,
       above, sending, mutexes
  <1>4. CASE Remove \/ LinkRefuse \/ LinkSend \/ LinkSendDone
    BY <1>4 DEF Remove, LinkRefuse, LinkSend, LinkSendDone, MutexTypes, receiving,
       mutexes
  <1>5. CASE TransmitLock \/ Transmit
    BY <1>5 DEF TransmitLock, Transmit, MutexTypes, receiving, mutexes
  <1>6. CASE \E f \in Frame : Accept(f)
    BY <1>6 DEF Accept, MutexTypes, mutexes, sending
  <1>7. CASE \E p \in Points : Take(p) \/ HandleOther(p) \/ HandleData(p)
     \/ HandleFin(p) \/ Connect(p)
    BY <1>7 DEF Take, HandleOther, HandleData, HandleFin, Connect, MutexTypes, below,
       sending, mutexes
  <1>8. CASE UNCHANGED vars
    BY <1>8 DEF MutexTypes, vars, mutexes, sending
  <1> QED
    BY <1>1, <1>2, <1>3, <1>4, <1>5, <1>6, <1>7, <1>8
       DEF Next, Link, Net, Transp, Sender, Wire, Recv

LEMMA PointStep ==
  ASSUME PointTypes, LayerTypes, [Next]_vars
  PROVE  PointTypes'
  <1>1. CASE LinkLock \/ LinkHandUp
    BY <1>1 DEF LinkLock, LinkHandUp, PointTypes, LayerTypes, Slot, above, sending
  <1>2. CASE NetLock \/ NetCopied \/ NetDone \/ NetForward \/ NetPass \/ NetHandUp
    BY <1>2 DEF NetLock, NetCopied, NetDone, NetForward, NetPass, NetHandUp,
       EmptySlot, PointTypes, LayerTypes, Slot, above, sending, mutexes
  <1>3. CASE TranspLock
    BY <1>3 DEF TranspLock, PointTypes, LayerTypes, Slot, above, sending
  <1>4. CASE TranspCopied
    BY <1>4 DEF TranspCopied, EmptySlot, PointTypes, LayerTypes, Slot, above, sending
  <1>5. CASE TranspDone
    BY <1>5 DEF TranspDone, EmptySlot, PointTypes, mutexes, sending
  <1>6. CASE \E p \in Points : TranspHandUp(p)
    BY <1>6 DEF TranspHandUp, EmptySlot, PointTypes, LayerTypes, Slot, sending
  <1>7. CASE Remove \/ LinkRefuse \/ LinkSend \/ LinkSendDone
    BY <1>7 DEF Remove, LinkRefuse, LinkSend, LinkSendDone, PointTypes, receiving,
       mutexes
  <1>8. CASE TransmitLock \/ Transmit
    BY <1>8 DEF TransmitLock, Transmit, PointTypes, receiving, mutexes
  <1>9. CASE \E f \in Frame : Accept(f)
    BY <1>9 DEF Accept, PointTypes, LayerTypes, Slot, mutexes, sending, Frame
  <1>10. CASE \E p \in Points : Take(p)
    BY <1>10 DEF Take, PointTypes, Kind, below, sending
  <1>11. CASE \E p \in Points : HandleOther(p)
    BY <1>11 DEF HandleOther, PointTypes, below, sending
  <1>12. CASE \E p \in Points : HandleData(p)
    <2> PICK p \in Points : HandleData(p)
      BY <1>12
    <2>1. UNCHANGED <<mutex_pack_prod, mutex_pack_cons, wait_buff, flag_con>>
      BY DEF HandleData
    <2>2. mutex_con' \in [Points -> BOOLEAN]
      <3>1. mutex_con' = mutex_con \/ mutex_con' = [mutex_con EXCEPT ![p] = TRUE]
        BY DEF HandleData
      <3> QED
        BY <3>1 DEF PointTypes
    <2>3. point' \in [Points -> {"lock"} \cup Kind] /\ taken' \in [Points -> Frame \cup {None}]
      BY DEF HandleData, PointTypes
    <2> QED
      BY <2>1, <2>2, <2>3 DEF PointTypes
  <1>13. CASE \E p \in Points : HandleFin(p)
    BY <1>13 DEF HandleFin, PointTypes, below, sending
  <1>14. CASE \E p \in Points : Connect(p)
    BY <1>14 DEF Connect, PointTypes, mutexes, below, sending
  <1>15. CASE UNCHANGED vars
    BY <1>15 DEF PointTypes, vars, mutexes, sending
  <1> QED
    BY <1>1, <1>2, <1>3, <1>4, <1>5, <1>6, <1>7, <1>8, <1>9, <1>10, <1>11, <1>12,
       <1>13, <1>14, <1>15
       DEF Next, Link, Net, Transp, Sender, Wire, Recv

LEMMA LayerStep ==
  ASSUME PointTypes, LayerTypes, [Next]_vars
  PROVE  LayerTypes'
  <1>1. CASE LinkLock
    BY <1>1 DEF LinkLock, LayerTypes, above, sending
  <1>2. CASE LinkHandUp
    BY <1>2 DEF LinkHandUp, LayerTypes, Slot, above, sending
  <1>3. CASE NetLock
    BY <1>3 DEF NetLock, LayerTypes, Slot, above, sending
  <1>4. CASE NetCopied
    BY <1>4 DEF NetCopied, EmptySlot, LayerTypes, Slot, above, sending
  <1>5. CASE NetDone
    BY <1>5 DEF NetDone, EmptySlot, LayerTypes, Slot, mutexes, sending
  <1>6. CASE NetForward
    BY <1>6, LayerThreadsAssumption DEF NetForward, EmptySlot, LayerTypes, Slot,
       mutexes, sending, LayerThreadsAssumption
  <1>7. CASE NetPass
    BY <1>7 DEF NetPass, LayerTypes, Slot, above, sending
  <1>8. CASE NetHandUp
    BY <1>8 DEF NetHandUp, EmptySlot, LayerTypes, Slot, above, sending
  <1>9. CASE TranspLock
    BY <1>9 DEF TranspLock, LayerTypes, Slot, above, sending
  <1>10. CASE TranspCopied
    BY <1>10 DEF TranspCopied, EmptySlot, LayerTypes, Slot, above, sending
  <1>11. CASE TranspDone
    BY <1>11 DEF TranspDone, EmptySlot, LayerTypes, Slot, mutexes, sending
  <1>12. CASE \E p \in Points : TranspHandUp(p)
    BY <1>12 DEF TranspHandUp, EmptySlot, LayerTypes, Slot, sending
  <1>13. CASE Remove
    BY <1>13, LayerThreadsAssumption DEF Remove, LayerTypes, receiving, mutexes,
       LayerThreadsAssumption
  <1>14. CASE LinkRefuse
    BY <1>14 DEF LinkRefuse, LayerTypes, receiving, mutexes
  <1>15. CASE LinkSend
    BY <1>15 DEF LinkSend, LayerTypes, receiving, mutexes
  <1>16. CASE LinkSendDone
    BY <1>16 DEF LinkSendDone, LayerTypes, receiving, mutexes
  <1>17. CASE TransmitLock
    BY <1>17 DEF TransmitLock, LayerTypes, receiving, mutexes
  <1>18. CASE Transmit
    BY <1>18 DEF Transmit, LayerTypes, receiving, mutexes
  <1>19. CASE \E f \in Frame : Accept(f)
    BY <1>19 DEF Accept, LayerTypes, Slot, mutexes, sending, Frame
  <1>20. CASE \E p \in Points : Take(p)
    BY <1>20 DEF Take, LayerTypes, below, sending, mutexes
  <1>21. CASE \E p \in Points : HandleOther(p)
    BY <1>21 DEF HandleOther, LayerTypes, below, sending, mutexes
  <1>22. CASE \E p \in Points : HandleData(p)
    BY <1>22, LayerThreadsAssumption DEF HandleData, LayerTypes, below, sending,
       mutexes, LayerThreadsAssumption
  <1>23. CASE \E p \in Points : HandleFin(p)
    BY <1>23, LayerThreadsAssumption DEF HandleFin, LayerTypes, below, sending,
       mutexes, LayerThreadsAssumption
  <1>24. CASE \E p \in Points : Connect(p)
    BY <1>24 DEF Connect, LayerTypes, mutexes, below, sending
  <1>25. CASE UNCHANGED vars
    BY <1>25 DEF LayerTypes, vars, mutexes, sending
  <1> QED
    BY <1>1, <1>2, <1>3, <1>4, <1>5, <1>6, <1>7, <1>8, <1>9, <1>10, <1>11, <1>12,
       <1>13, <1>14, <1>15, <1>16, <1>17, <1>18, <1>19, <1>20, <1>21, <1>22, <1>23,
       <1>24, <1>25
       DEF Next, Link, Net, Transp, Sender, Wire, Recv

LEMMA FrameStep ==
  ASSUME LayerTypes, FrameInv, [Next]_vars
  PROVE  FrameInv'
  <1>1. CASE LinkLock
    BY <1>1 DEF LinkLock, FrameInv, above, sending
  <1>2. CASE LinkHandUp
    BY <1>2 DEF LinkHandUp, FrameInv, LayerTypes, Slot, above, sending
  <1>3. CASE NetLock
    BY <1>3 DEF NetLock, FrameInv, LayerTypes, Slot, above, sending
  <1>4. CASE NetCopied
    BY <1>4 DEF NetCopied, EmptySlot, FrameInv, LayerTypes, Slot, above, sending
  <1>5. CASE NetDone
    BY <1>5 DEF NetDone, EmptySlot, FrameInv, mutexes, sending
  <1>6. CASE NetForward
    BY <1>6 DEF NetForward, EmptySlot, FrameInv, mutexes, sending
  <1>7. CASE NetPass
    BY <1>7 DEF NetPass, FrameInv, LayerTypes, Slot, above, sending
  <1>8. CASE NetHandUp
    BY <1>8 DEF NetHandUp, EmptySlot, FrameInv, LayerTypes, Slot, above, sending
  <1>9. CASE TranspLock \/ TranspCopied \/ TranspDone
     \/ (\E p \in Points : TranspHandUp(p))
    BY <1>9 DEF TranspLock, TranspCopied, TranspDone, TranspHandUp, EmptySlot,
       FrameInv, LayerTypes, Slot, above, sending, mutexes
  <1>10. CASE Remove \/ LinkRefuse \/ LinkSend \/ LinkSendDone
    BY <1>10 DEF Remove, LinkRefuse, LinkSend, LinkSendDone, FrameInv, receiving,
       mutexes
  <1>11. CASE TransmitLock \/ Transmit
    BY <1>11 DEF TransmitLock, Transmit, FrameInv, receiving, mutexes
  <1>12. CASE \E f \in Frame : Accept(f)
    BY <1>12 DEF Accept, FrameInv, LayerTypes, Slot, mutexes, sending, Frame
  <1>13. CASE \E p \in Points : Take(p) \/ HandleOther(p) \/ HandleData(p)
     \/ HandleFin(p) \/ Connect(p)
    BY <1>13 DEF Take, HandleOther, HandleData, HandleFin, Connect, FrameInv, below,
       sending, mutexes
  <1>14. CASE UNCHANGED vars
    BY <1>14 DEF FrameInv, vars, mutexes, sending
  <1> QED
    BY <1>1, <1>2, <1>3, <1>4, <1>5, <1>6, <1>7, <1>8, <1>9, <1>10, <1>11, <1>12,
       <1>13, <1>14
       DEF Next, Link, Net, Transp, Sender, Wire, Recv

LEMMA DatagramStep ==
  ASSUME LayerTypes, FrameInv, DatagramInv, [Next]_vars
  PROVE  DatagramInv'
  <1>1. CASE LinkLock \/ LinkHandUp
    BY <1>1 DEF LinkLock, LinkHandUp, DatagramInv, LayerTypes, Slot, above, sending
  <1>2. CASE NetLock
    BY <1>2 DEF NetLock, DatagramInv, LayerTypes, Slot, above, sending
  <1>3. CASE NetCopied
    BY <1>3 DEF NetCopied, EmptySlot, DatagramInv, LayerTypes, Slot, above, sending
  <1>4. CASE NetDone
    BY <1>4 DEF NetDone, EmptySlot, DatagramInv, mutexes, sending
  <1>5. CASE NetForward
    BY <1>5 DEF NetForward, EmptySlot, DatagramInv, mutexes, sending
  <1>6. CASE NetPass
    BY <1>6 DEF NetPass, DatagramInv, LayerTypes, Slot, FrameInv, above, sending
  <1>7. CASE NetHandUp
    BY <1>7 DEF NetHandUp, EmptySlot, DatagramInv, LayerTypes, Slot, FrameInv, above,
       sending
  <1>8. CASE TranspLock
    BY <1>8 DEF TranspLock, DatagramInv, LayerTypes, Slot, above, sending
  <1>9. CASE TranspCopied
    BY <1>9 DEF TranspCopied, EmptySlot, DatagramInv, LayerTypes, Slot, above, sending
  <1>10. CASE TranspDone
    BY <1>10 DEF TranspDone, EmptySlot, DatagramInv, mutexes, sending
  <1>11. CASE \E p \in Points : TranspHandUp(p)
    BY <1>11 DEF TranspHandUp, EmptySlot, DatagramInv, sending
  <1>12. CASE Remove \/ LinkRefuse \/ LinkSend \/ LinkSendDone
    BY <1>12 DEF Remove, LinkRefuse, LinkSend, LinkSendDone, DatagramInv, receiving,
       mutexes
  <1>13. CASE TransmitLock \/ Transmit
    BY <1>13 DEF TransmitLock, Transmit, DatagramInv, receiving, mutexes
  <1>14. CASE \E f \in Frame : Accept(f)
    BY <1>14 DEF Accept, DatagramInv, LayerTypes, Slot, mutexes, sending, Frame
  <1>15. CASE \E p \in Points : Take(p) \/ HandleOther(p) \/ HandleData(p)
     \/ HandleFin(p) \/ Connect(p)
    BY <1>15 DEF Take, HandleOther, HandleData, HandleFin, Connect, DatagramInv,
       below, sending, mutexes
  <1>16. CASE UNCHANGED vars
    BY <1>16 DEF DatagramInv, vars, mutexes, sending
  <1> QED
    BY <1>1, <1>2, <1>3, <1>4, <1>5, <1>6, <1>7, <1>8, <1>9, <1>10, <1>11, <1>12,
       <1>13, <1>14, <1>15, <1>16
       DEF Next, Link, Net, Transp, Sender, Wire, Recv

LEMMA SendStep ==
  ASSUME SendInv, [Next]_vars
  PROVE  SendInv'
  <1>1. CASE LinkLock \/ LinkHandUp
    BY <1>1 DEF LinkLock, LinkHandUp, SendInv, above, sending
  <1>2. CASE NetLock \/ NetCopied \/ NetDone \/ NetForward \/ NetPass \/ NetHandUp
    BY <1>2 DEF NetLock, NetCopied, NetDone, NetForward, NetPass, NetHandUp, SendInv,
       above, sending, mutexes
  <1>3. CASE TranspLock \/ TranspCopied \/ TranspDone
     \/ (\E p \in Points : TranspHandUp(p))
    BY <1>3 DEF TranspLock, TranspCopied, TranspDone, TranspHandUp, SendInv, above,
       sending, mutexes
  <1>4. CASE Remove
    BY <1>4 DEF Remove, SendInv, receiving, mutexes
  <1>5. CASE LinkRefuse
    BY <1>5 DEF LinkRefuse, SendInv, receiving, mutexes
  <1>6. CASE LinkSend
    BY <1>6 DEF LinkSend, SendInv, receiving, mutexes
  <1>7. CASE LinkSendDone
    BY <1>7 DEF LinkSendDone, SendInv, receiving, mutexes
  <1>8. CASE TransmitLock
    BY <1>8 DEF TransmitLock, SendInv, receiving, mutexes
  <1>9. CASE Transmit
    BY <1>9 DEF Transmit, SendInv, receiving, mutexes
  <1>10. CASE \E f \in Frame : Accept(f)
    BY <1>10 DEF Accept, SendInv, mutexes, sending
  <1>11. CASE \E p \in Points : Take(p) \/ HandleOther(p) \/ HandleData(p)
     \/ HandleFin(p) \/ Connect(p)
    BY <1>11 DEF Take, HandleOther, HandleData, HandleFin, Connect, SendInv, below,
       sending, mutexes
  <1>12. CASE UNCHANGED vars
    BY <1>12 DEF SendInv, vars, mutexes, sending
  <1> QED
    BY <1>1, <1>2, <1>3, <1>4, <1>5, <1>6, <1>7, <1>8, <1>9, <1>10, <1>11, <1>12
       DEF Next, Link, Net, Transp, Sender, Wire, Recv

-----------------------------------------------------------------------------
LEMMA HandOverStep ==
  ASSUME HandOverInv, [Next]_vars
  PROVE  HandOverInv'
  BY MutexStep, PointStep, LayerStep, FrameStep, DatagramStep, SendStep
     DEF HandOverInv, TypeOK

(* In every state exactly one of the signs named above holds for each      *)
(* shared variable, and the variable holds what its writer has put in so   *)
(* far: the pairs of mutexes exclude writer and reader in every            *)
(* interleaving.                                                           *)
THEOREM HandOversExclusive == Spec => []HandOverInv
  <1>1. HandOverInv /\ [Next]_vars => HandOverInv'
    BY HandOverStep
  <1> QED
    BY InitHandOver, <1>1, PTL DEF Spec

(* Every variable keeps its type; the send queue never holds more than     *)
(* MAX_SEND_WAITING items.                                                 *)
THEOREM TypeCorrect == Spec => []TypeOK
  <1>1. HandOverInv => TypeOK
    BY DEF HandOverInv
  <1> QED
    BY HandOversExclusive, <1>1, PTL

(* What a layer has copied is one frame, never the data of one and the     *)
(* size of another, and what is sent is one packet to its own neighbour.   *)
THEOREM FramesWhole == Spec => []WholeFrames
  <1>1. HandOverInv => WholeFrames
    BY NoneIsNoFrame DEF HandOverInv, FrameInv, DatagramInv, SendInv, WholeFrames
  <1> QED
    BY HandOversExclusive, <1>1, PTL

-----------------------------------------------------------------------------
(* wait_buff of a point is full while mutex_pack_cons is unlocked, and     *)
(* only then is mutex_pack_prod locked: the thread of the point takes a    *)
(* frame when it has none.                                                 *)
PointInv ==
    \A p \in Points :
        /\ ~mutex_pack_cons[p] <=> mutex_pack_prod[p]
        /\ ~mutex_pack_cons[p] => wait_buff[p] \in Frame
        /\ point[p] = "lock" <=> taken[p] = None

(* A step keeps this: the transport layer waits for mutex_pack_prod. *)
LEMMA WaitStep ==
    ASSUME TypeOK, FrameInv, DatagramInv, PointInv, [Next]_vars
    PROVE  PointInv'
  <1>1. CASE UNCHANGED above
    BY <1>1 DEF above, PointInv
  <1>2. CASE Link \/ Net \/ Sender \/ Wire
    <2>1. UNCHANGED above
      BY <1>2 DEF Link, LinkLock, LinkHandUp, Net, NetLock, NetCopied, NetDone, NetForward,
         NetPass, NetHandUp, Sender, Remove, LinkRefuse, LinkSend, LinkSendDone, Wire,
         TransmitLock, Transmit, above, mutexes, receiving
    <2> QED BY <1>1, <2>1
  <1>3. CASE TranspLock \/ TranspCopied \/ TranspDone \/ \E f \in Frame : Accept(f)
    <2>1. UNCHANGED above
      BY <1>3 DEF TranspLock, TranspCopied, TranspDone, Accept, above, mutexes
    <2> QED BY <1>1, <2>1
  <1>4. ASSUME NEW q \in Points, TranspHandUp(q) PROVE PointInv'
    <2>1. new_recv.data \in Frame
      BY <1>4 DEF TranspHandUp, DatagramInv
    <2> QED BY <1>4, <2>1 DEF TranspHandUp, PointInv, TypeOK, PointTypes
  <1>5. ASSUME NEW q \in Points, Take(q) PROVE PointInv'
    <2>1. PICK kind \in Kind : point' = [point EXCEPT ![q] = kind]
      BY <1>5 DEF Take
    <2>2. wait_buff[q] \in Frame /\ wait_buff[q] # None /\ kind # "lock"
      BY <1>5, NoneIsNoFrame DEF Take, PointInv, Kind
    <2> QED BY <1>5, <2>1, <2>2 DEF Take, PointInv, TypeOK, PointTypes
  <1>6. ASSUME NEW q \in Points, HandleOther(q) \/ HandleData(q) \/ HandleFin(q) PROVE PointInv'
    <2>1. /\ UNCHANGED <<mutex_pack_prod, mutex_pack_cons, wait_buff>>
          /\ point' = [point EXCEPT ![q] = "lock"] /\ taken' = [taken EXCEPT ![q] = None]
      BY <1>6 DEF HandleOther, HandleData, HandleFin
    <2> QED BY <2>1 DEF PointInv, TypeOK, PointTypes
  <1>7. ASSUME NEW q \in Points, Connect(q) PROVE PointInv'
    BY <1>7 DEF Connect, PointInv, mutexes
  <1>8. CASE UNCHANGED vars
    BY <1>8 DEF PointInv, vars, mutexes
  <1> QED BY <1>2, <1>3, <1>4, <1>5, <1>6, <1>7, <1>8 DEF Next, Transp, Recv

(* The inductive invariant of the refinement. *)
ChannelInv == HandOverInv /\ PointInv

(* A variable that holds a frame or nothing. *)
LEMMA IfFacts ==
    ASSUME NEW there \in BOOLEAN, NEW f, there => f \in Frame
    PROVE  If(there, f) \in Seq(Frame) /\ Len(If(there, f)) <= 1
  <1>1. CASE there
    <2>1. If(there, f) = <<f>>
      BY <1>1 DEF If
    <2>2. <<f>> \in Seq(Frame)
      BY <1>1
    <2>3. Len(<<f>>) = 1
      OBVIOUS
    <2> QED BY <2>1, <2>2, <2>3
  <1>2. CASE ~there
    <2>1. If(there, f) = <<>>
      BY <1>2 DEF If
    <2> QED BY <2>1
  <1> QED BY <1>1, <1>2

Part(s) == s \in Seq(Frame) /\ Len(s) <= 1

(* Each part of UnderWay is a frame or nothing, whenever it is read. *)
LEMMA PartsTyped ==
    ASSUME ChannelInv, NEW p \in Points
    PROVE  /\ Part(InWaitBuff(p)) /\ Part(InTransp(p)) /\ Part(InDatagram(p))
           /\ Part(InNet(p)) /\ Part(InFrame(p)) /\ Part(InLink(p))
  <1>1. Part(InWaitBuff(p))
    <2>1. ~mutex_pack_cons[p] => wait_buff[p] \in Frame
      BY DEF ChannelInv, PointInv
    <2> QED BY <2>1, IfFacts DEF Part, InWaitBuff
  <1>2. Part(InTransp(p))
    <2>1. transp # "lock" /\ new_recv.data.to = p => new_recv.data \in Frame
      BY DEF ChannelInv, HandOverInv, DatagramInv, TypeOK, LayerTypes
    <2> QED BY <2>1, IfFacts DEF Part, InTransp
  <1>3. Part(InDatagram(p))
    <2>1. ~transp_recv_mutex /\ recv_datagram.data.to = p => recv_datagram.data \in Frame
      BY DEF ChannelInv, HandOverInv, DatagramInv
    <2> QED BY <2>1, IfFacts DEF Part, InDatagram
  <1>4. Part(InNet(p))
    <2>1. net # "lock" /\ recv.data.to = p => recv.data \in Frame
      BY DEF ChannelInv, HandOverInv, FrameInv, TypeOK, LayerTypes
    <2> QED BY <2>1, IfFacts DEF Part, InNet
  <1>5. Part(InFrame(p))
    <2>1. ~net_recv_mutex /\ recv_frame.data.to = p => recv_frame.data \in Frame
      BY DEF ChannelInv, HandOverInv, FrameInv
    <2> QED BY <2>1, IfFacts DEF Part, InFrame
  <1>6. Part(InLink(p))
    <2>1. link = "data" /\ buf_rcv.to = p => buf_rcv \in Frame
      BY DEF ChannelInv, HandOverInv, FrameInv
    <2> QED BY <2>1, IfFacts DEF Part, InLink
  <1> QED BY <1>1, <1>2, <1>3, <1>4, <1>5, <1>6

(* Of sequences of frames. *)
LEMMA ConcatSeq == \A s, t \in Seq(Frame) : s \o t \in Seq(Frame)
  BY ConcatProperties

(* Their lengths add up. *)
LEMMA ConcatLen == \A s, t \in Seq(Frame) : Len(s \o t) = Len(s) + Len(t)
  BY ConcatProperties

(* One part more holds at most one frame more. *)
LEMMA JoinPart ==
    ASSUME NEW s \in Seq(Frame), NEW t, Part(t), NEW n \in Nat, Len(s) <= n
    PROVE  s \o t \in Seq(Frame) /\ Len(s \o t) <= n + 1
  <1> DEFINE u == s \o t
             a == Len(s)
             b == Len(t)
             c == Len(u)
  <1>1. t \in Seq(Frame) /\ b <= 1
    BY DEF Part
  <1>2. a \in Nat /\ b \in Nat /\ a <= n
    BY <1>1, LenProperties
  <1>3. u \in Seq(Frame) /\ c = a + b
    BY <1>1, ConcatSeq, ConcatLen, Zenon
  <1> HIDE DEF u, a, b, c
  <1>4. u \in Seq(Frame) /\ c <= n + 1
    BY <1>1, <1>2, <1>3
  <1> QED BY <1>4 DEF u, c

(* s begins with f, and r is the rest. *)
FirstRest(s, f, r) == s \in Seq(Frame) /\ s # <<>> /\ Head(s) = f /\ Tail(s) = r

(* One frame is the first, and nothing follows it. *)
LEMMA FirstRestOne ==
    ASSUME NEW f \in Frame
    PROVE  FirstRest(<<f>>, f, <<>>)
  BY DEF FirstRest

(* What is put behind a sequence leaves its first frame the first. *)
LEMMA FirstRestConcat ==
    ASSUME NEW s, NEW f, NEW r, FirstRest(s, f, r), NEW t \in Seq(Frame)
    PROVE  FirstRest(s \o t, f, r \o t)
  <1> DEFINE n == Len(s)
             m == Len(t)
             u == s \o t
             v == r \o t
             w == Tail(u)
  <1>1. s \in Seq(Frame) /\ s # <<>> /\ Head(s) = f /\ Tail(s) = r
    BY DEF FirstRest
  <1>2. n \in Nat \ {0} /\ m \in Nat
    BY <1>1, LenProperties, EmptySeq
  <1>3. f = s[1] /\ r \in Seq(Frame) /\ Len(r) = n - 1 /\ \A i \in 1..(n - 1) : r[i] = s[i + 1]
    BY <1>1, HeadTailProperties
  <1>4. /\ u \in Seq(Frame) /\ Len(u) = n + m
        /\ \A i \in 1..(n + m) : u[i] = IF i <= n THEN s[i] ELSE t[i - n]
    BY <1>1, ConcatProperties
  <1>5. /\ v \in Seq(Frame) /\ Len(v) = (n - 1) + m
        /\ \A i \in 1..((n - 1) + m) : v[i] = IF i <= n - 1 THEN r[i] ELSE t[i - (n - 1)]
    <2>1. /\ v \in Seq(Frame) /\ Len(v) = Len(r) + m
          /\ \A i \in 1..(Len(r) + m) : v[i] = IF i <= Len(r) THEN r[i] ELSE t[i - Len(r)]
      BY <1>3, ConcatProperties
    <2> HIDE DEF n, m, v
    <2> QED BY <2>1, <1>3
  <1> HIDE DEF n, m, u, v
  <1>6. u # <<>> /\ u[1] = s[1]
    BY <1>2, <1>4, EmptySeq
  <1>7. /\ Head(u) = u[1] /\ w \in Seq(Frame) /\ Len(w) = (n + m) - 1
        /\ \A i \in 1..((n + m) - 1) : w[i] = u[i + 1]
    BY <1>4, <1>6, HeadTailProperties
  <1> HIDE DEF w
  <1>8. ASSUME NEW i \in 1..((n + m) - 1) PROVE w[i] = v[i]
    <2>1. i \in 1..((n - 1) + m) /\ i + 1 \in 1..(n + m) /\ (i <= n - 1 <=> i + 1 <= n)
          /\ i - (n - 1) = (i + 1) - n
      BY <1>2
    <2>2. w[i] = IF i + 1 <= n THEN s[i + 1] ELSE t[(i + 1) - n]
      BY <2>1, <1>4, <1>7
    <2>3. v[i] = IF i <= n - 1 THEN r[i] ELSE t[i - (n - 1)]
      BY <2>1, <1>5
    <2>4. i <= n - 1 => r[i] = s[i + 1]
      BY <1>2, <1>3
    <2> QED BY <2>1, <2>2, <2>3, <2>4
  <1>9. Len(w) = Len(v)
    BY <1>2, <1>5, <1>7
  <1>10. w = v
    BY <1>5, <1>7, <1>8, <1>9, SeqEqual
  <1>11. Head(u) = f
    BY <1>3, <1>6, <1>7
  <1> QED BY <1>4, <1>6, <1>10, <1>11 DEF FirstRest, u, v, w

(* A frame that moves up one place is under way as before. *)
LEMMA Move ==
    ASSUME NEW x \in Seq(Frame), NEW s \in Seq(Frame)
    PROVE  x \o <<>> \o s = x \o s \o <<>>
  <1>1. x \o <<>> = x /\ x \o s \in Seq(Frame)
    BY ConcatEmptySeq, ConcatProperties
  <1>2. (x \o s) \o <<>> = x \o s
    BY <1>1, ConcatEmptySeq
  <1> QED BY <1>1, <1>2

-----------------------------------------------------------------------------
Unmoved(p) ==
    /\ InWaitBuff(p)' = InWaitBuff(p) /\ InTransp(p)' = InTransp(p)
    /\ InDatagram(p)' = InDatagram(p) /\ InNet(p)' = InNet(p)
    /\ InFrame(p)' = InFrame(p) /\ InLink(p)' = InLink(p)

(* No part has changed, nor has the whole. *)
LEMMA UnmovedSame ==
    ASSUME NEW p, Unmoved(p)
    PROVE  UnderWay(p)' = UnderWay(p)
  BY DEF Unmoved, UnderWay

(* What the layers do on the way up: link.c fills recv_frame, *)
LEMMA LinkStays ==
    ASSUME ChannelInv, NEW p \in Points, LinkLock \/ LinkHandUp
    PROVE  UnderWay(p)' = UnderWay(p)
  <1>1. CASE LinkLock
    <2>1. Unmoved(p)
      BY <1>1 DEF LinkLock, Unmoved, InWaitBuff, InTransp, InDatagram, InNet, InFrame, InLink,
         above
    <2> QED BY <2>1, UnmovedSame
  <1>2. CASE LinkHandUp
    <2> DEFINE x == InWaitBuff(p) \o InTransp(p) \o InDatagram(p) \o InNet(p)
    <2>1. /\ InWaitBuff(p)' = InWaitBuff(p) /\ InTransp(p)' = InTransp(p)
          /\ InDatagram(p)' = InDatagram(p) /\ InNet(p)' = InNet(p)
      BY <1>2 DEF LinkHandUp, InWaitBuff, InTransp, InDatagram, InNet, above
    <2>2. InFrame(p) = <<>> /\ InLink(p)' = <<>>
      BY <1>2 DEF LinkHandUp, InFrame, InLink, If, ChannelInv, HandOverInv, FrameInv
    <2>3. InFrame(p)' = InLink(p)
      BY <1>2 DEF LinkHandUp, InFrame, InLink, If, ChannelInv, HandOverInv, TypeOK, LayerTypes, Slot
    <2>4. x \in Seq(Frame) /\ InLink(p) \in Seq(Frame)
      BY PartsTyped, ConcatProperties DEF Part
    <2>5. UnderWay(p) = x \o <<>> \o InLink(p)
      BY <2>2 DEF UnderWay
    <2>6. UnderWay(p)' = x \o InLink(p) \o <<>>
      BY <2>1, <2>2, <2>3 DEF UnderWay
    <2> HIDE DEF x
    <2> QED BY <2>4, <2>5, <2>6, Move
  <1> QED BY <1>1, <1>2

(* net_layer.c copies it, keeps what is not for a point and passes on the rest, *)
LEMMA NetStays ==
    ASSUME ChannelInv, NEW p \in Points, Net
    PROVE  UnderWay(p)' = UnderWay(p)
  <1>1. CASE NetLock
    <2> DEFINE x == InWaitBuff(p) \o InTransp(p) \o InDatagram(p)
    <2>1. /\ InWaitBuff(p)' = InWaitBuff(p) /\ InTransp(p)' = InTransp(p)
          /\ InDatagram(p)' = InDatagram(p) /\ InLink(p)' = InLink(p)
      BY <1>1 DEF NetLock, InWaitBuff, InTransp, InDatagram, InLink, above
    <2>2. InNet(p) = <<>> /\ InFrame(p)' = <<>>
      BY <1>1 DEF NetLock, InNet, InFrame, If
    <2>3. InNet(p)' = InFrame(p)
      BY <1>1 DEF NetLock, InNet, InFrame, If, ChannelInv, HandOverInv, TypeOK, LayerTypes, Slot
    <2>4. x \in Seq(Frame) /\ InFrame(p) \in Seq(Frame)
      BY PartsTyped, ConcatProperties DEF Part
    <2>5. UnderWay(p) = x \o <<>> \o InFrame(p) \o InLink(p)
      BY <2>2 DEF UnderWay
    <2>6. UnderWay(p)' = x \o InFrame(p) \o <<>> \o InLink(p)
      BY <2>1, <2>2, <2>3 DEF UnderWay
    <2> HIDE DEF x
    <2>7. x \o <<>> \o InFrame(p) = x \o InFrame(p) \o <<>>
      BY <2>4, Move
    <2> QED BY <2>5, <2>6, <2>7
  <1>2. CASE NetCopied
    <2>1. Unmoved(p)
      BY <1>2 DEF NetCopied, Unmoved, InWaitBuff, InTransp, InDatagram, InNet, InFrame, InLink,
         above, If, ChannelInv, HandOverInv, FrameInv, TypeOK, LayerTypes, Slot
    <2> QED BY <2>1, UnmovedSame
  <1>3. CASE NetDone \/ NetForward
    <2>1. p \notin {"net", "forward"}
      BY LayerThreadsAssumption
    <2>2. Unmoved(p)
      BY <1>3, <2>1 DEF NetDone, NetForward, Unmoved, InWaitBuff, InTransp, InDatagram, InNet,
         InFrame, InLink, mutexes, If
    <2> QED BY <2>2, UnmovedSame
  <1>4. CASE NetPass
    <2>1. Unmoved(p)
      BY <1>4 DEF NetPass, Unmoved, InWaitBuff, InTransp, InDatagram, InNet, InFrame, InLink,
         above, If, ChannelInv, HandOverInv, DatagramInv
    <2> QED BY <2>1, UnmovedSame
  <1>5. CASE NetHandUp
    <2> DEFINE x == InWaitBuff(p) \o InTransp(p)
    <2>1. /\ InWaitBuff(p)' = InWaitBuff(p) /\ InTransp(p)' = InTransp(p)
          /\ InFrame(p)' = InFrame(p) /\ InLink(p)' = InLink(p)
      BY <1>5 DEF NetHandUp, InWaitBuff, InTransp, InFrame, InLink, above
    <2>2. InDatagram(p) = <<>> /\ InNet(p)' = <<>>
      BY <1>5 DEF NetHandUp, InNet, InDatagram, If, ChannelInv, HandOverInv, DatagramInv
    <2>3. InDatagram(p)' = InNet(p)
      BY <1>5 DEF NetHandUp, InNet, InDatagram, If, ChannelInv, HandOverInv, DatagramInv,
         TypeOK, LayerTypes, Slot
    <2>4. x \in Seq(Frame) /\ InNet(p) \in Seq(Frame)
      BY PartsTyped, ConcatProperties DEF Part
    <2>5. UnderWay(p) = x \o <<>> \o InNet(p) \o InFrame(p) \o InLink(p)
      BY <2>2 DEF UnderWay
    <2>6. UnderWay(p)' = x \o InNet(p) \o <<>> \o InFrame(p) \o InLink(p)
      BY <2>1, <2>2, <2>3 DEF UnderWay
    <2> HIDE DEF x
    <2>7. x \o <<>> \o InNet(p) = x \o InNet(p) \o <<>>
      BY <2>4, Move
    <2> QED BY <2>5, <2>6, <2>7
  <1> QED BY <1>1, <1>2, <1>3, <1>4, <1>5 DEF Net

(* transport_layer.c copies that and fills the point's wait_buff. *)
LEMMA TranspStays ==
    ASSUME ChannelInv, NEW p \in Points, Transp
    PROVE  UnderWay(p)' = UnderWay(p)
  <1>1. CASE TranspLock
    <2> DEFINE x == InWaitBuff(p)
    <2>1. /\ InWaitBuff(p)' = InWaitBuff(p) /\ InNet(p)' = InNet(p)
          /\ InFrame(p)' = InFrame(p) /\ InLink(p)' = InLink(p)
      BY <1>1 DEF TranspLock, InWaitBuff, InNet, InFrame, InLink, above
    <2>2. InTransp(p) = <<>> /\ InDatagram(p)' = <<>>
      BY <1>1 DEF TranspLock, InTransp, InDatagram, If
    <2>3. InTransp(p)' = InDatagram(p)
      BY <1>1 DEF TranspLock, InTransp, InDatagram, If, ChannelInv, HandOverInv, TypeOK, LayerTypes, Slot
    <2>4. x \in Seq(Frame) /\ InDatagram(p) \in Seq(Frame)
      BY PartsTyped DEF Part
    <2>5. UnderWay(p) = x \o <<>> \o InDatagram(p) \o InNet(p) \o InFrame(p) \o InLink(p)
      BY <2>2 DEF UnderWay
    <2>6. UnderWay(p)' = x \o InDatagram(p) \o <<>> \o InNet(p) \o InFrame(p) \o InLink(p)
      BY <2>1, <2>2, <2>3 DEF UnderWay
    <2> HIDE DEF x
    <2>7. x \o <<>> \o InDatagram(p) = x \o InDatagram(p) \o <<>>
      BY <2>4, Move
    <2> QED BY <2>5, <2>6, <2>7
  <1>2. CASE TranspCopied
    <2>1. Unmoved(p)
      BY <1>2 DEF TranspCopied, Unmoved, InWaitBuff, InTransp, InDatagram, InNet, InFrame, InLink,
         above, If, ChannelInv, HandOverInv, DatagramInv, TypeOK, LayerTypes, Slot
    <2> QED BY <2>1, UnmovedSame
  <1>3. CASE TranspDone
    <2>1. p # "transport"
      BY LayerThreadsAssumption
    <2>2. Unmoved(p)
      BY <1>3, <2>1 DEF TranspDone, Unmoved, InWaitBuff, InTransp, InDatagram, InNet,
         InFrame, InLink, mutexes, If
    <2> QED BY <2>2, UnmovedSame
  <1>4. ASSUME NEW q \in Points, TranspHandUp(q) PROVE UnderWay(p)' = UnderWay(p)
    <2>1. CASE p # q
      <3>1. mutex_pack_cons'[p] = mutex_pack_cons[p] /\ wait_buff'[p] = wait_buff[p]
        BY <1>4, <2>1 DEF TranspHandUp, ChannelInv, HandOverInv, TypeOK, PointTypes
      <3>2. Unmoved(p)
        BY <1>4, <2>1, <3>1 DEF TranspHandUp, Unmoved, InWaitBuff, InTransp, InDatagram, InNet,
           InFrame, InLink, If
      <3> QED BY <3>2, UnmovedSame
    <2>2. CASE p = q
      <3>1. mutex_pack_cons[p] /\ ~mutex_pack_cons'[p] /\ wait_buff'[p] = new_recv.data
        BY <1>4, <2>2 DEF TranspHandUp, ChannelInv, HandOverInv, TypeOK, PointTypes, PointInv
      <3>2. /\ InDatagram(p)' = InDatagram(p) /\ InNet(p)' = InNet(p)
            /\ InFrame(p)' = InFrame(p) /\ InLink(p)' = InLink(p)
        BY <1>4 DEF TranspHandUp, InDatagram, InNet, InFrame, InLink
      <3>3. InWaitBuff(p) = <<>> /\ InTransp(p)' = <<>>
        BY <1>4, <3>1 DEF TranspHandUp, InWaitBuff, InTransp, If
      <3>4. InWaitBuff(p)' = InTransp(p)
        BY <1>4, <2>2, <3>1 DEF TranspHandUp, InWaitBuff, InTransp, If
      <3>5. InTransp(p) \in Seq(Frame)
        BY PartsTyped DEF Part
      <3>6. <<>> \o InTransp(p) = InTransp(p) \o <<>>
        BY <3>5, ConcatEmptySeq
      <3> QED BY <3>2, <3>3, <3>4, <3>6 DEF UnderWay
    <2> QED BY <2>1, <2>2
  <1> QED BY <1>1, <1>2, <1>3, <1>4 DEF Transp

(* What is sent, and what a thread does with its frame, moves none. *)
LEMMA OthersStay ==
    ASSUME ChannelInv, NEW p \in Points, NEW q \in Points,
           \/ Sender \/ Wire
           \/ HandleOther(q) \/ HandleData(q) \/ HandleFin(q) \/ Connect(q)
    PROVE  UnderWay(p)' = UnderWay(p)
  <1>1. Unmoved(p)
    <2>1. CASE Sender \/ Wire
      BY <2>1 DEF Sender, Remove, LinkRefuse, LinkSend, LinkSendDone, Wire,
         TransmitLock, Transmit, receiving, mutexes, Unmoved, InWaitBuff, InTransp, InDatagram, InNet, InFrame, InLink
    <2>2. CASE HandleOther(q) \/ HandleData(q) \/ HandleFin(q) \/ Connect(q)
      BY <2>2 DEF HandleOther, HandleData, HandleFin, Connect, below, mutexes, Unmoved,
         InWaitBuff, InTransp, InDatagram, InNet, InFrame, InLink
    <2> QED BY <2>1, <2>2
  <1> QED BY <1>1, UnmovedSame

-----------------------------------------------------------------------------
(* What recvfrom accepts for a point comes last; *)
LEMMA AcceptStep ==
    ASSUME ChannelInv, NEW f \in Frame, Accept(f)
    PROVE  /\ f.to \notin Points => \A p \in Points : UnderWay(p)' = UnderWay(p)
           /\ f.to \in Points =>
                /\ Len(UnderWay(f.to)) < 5
                /\ UnderWay(f.to)' = Append(UnderWay(f.to), f)
                /\ \A p \in Points \ {f.to} : UnderWay(p)' = UnderWay(p)
  <1>1. ASSUME NEW p \in Points
        PROVE  /\ InWaitBuff(p)' = InWaitBuff(p) /\ InTransp(p)' = InTransp(p)
               /\ InDatagram(p)' = InDatagram(p) /\ InNet(p)' = InNet(p)
               /\ InFrame(p)' = <<>> /\ InFrame(p) = <<>> /\ InLink(p) = <<>>
    BY DEF Accept, mutexes, InWaitBuff, InTransp, InDatagram, InNet, InFrame, InLink,
       If, ChannelInv, HandOverInv, FrameInv
  <1>2. ASSUME NEW p \in Points, p # f.to PROVE UnderWay(p)' = UnderWay(p)
    <2>1. InLink(p)' = <<>>
      BY <1>2 DEF Accept, InLink, If
    <2> QED BY <1>1, <2>1 DEF UnderWay
  <1>3. ASSUME f.to \in Points
        PROVE  Len(UnderWay(f.to)) < 5 /\ UnderWay(f.to)' = Append(UnderWay(f.to), f)
    <2> DEFINE p == f.to
               x == InWaitBuff(p) \o InTransp(p) \o InDatagram(p) \o InNet(p)
    <2>1. InLink(p)' = <<f>>
      BY DEF Accept, InLink, If
    <2>2. x \in Seq(Frame) /\ Len(x) <= 4
      <3>1. /\ InWaitBuff(p) \o InTransp(p) \in Seq(Frame)
            /\ Len(InWaitBuff(p) \o InTransp(p)) <= 2
        <4>1. Part(InWaitBuff(p)) /\ Part(InTransp(p))
          BY <1>3, PartsTyped
        <4>2. InWaitBuff(p) \in Seq(Frame) /\ Len(InWaitBuff(p)) <= 1
          BY <4>1 DEF Part
        <4> QED BY <4>1, <4>2, JoinPart
      <3>2. /\ InWaitBuff(p) \o InTransp(p) \o InDatagram(p) \in Seq(Frame)
            /\ Len(InWaitBuff(p) \o InTransp(p) \o InDatagram(p)) <= 3
        BY <1>3, <3>1, PartsTyped, JoinPart
      <3>3. 3 \in Nat /\ 3 + 1 = 4 /\ Part(InNet(p))
        BY <1>3, PartsTyped
      <3> QED BY <3>2, <3>3, JoinPart
    <2>3. UnderWay(p) = x \o <<>> \o <<>>
      BY <1>1, <1>3 DEF UnderWay
    <2>4. UnderWay(p)' = x \o <<>> \o <<f>>
      BY <1>1, <1>3, <2>1 DEF UnderWay
    <2> HIDE DEF x
    <2>5. x \o <<>> = x
      BY <2>2, ConcatEmptySeq
    <2>6. Append(x, f) = x \o <<f>>
      BY <2>2, AppendIsConcat
    <2> QED BY <2>2, <2>3, <2>4, <2>5, <2>6
  <1> QED BY <1>2, <1>3

(* the thread of a point takes the first. *)
LEMMA TakeStep ==
    ASSUME ChannelInv, NEW q \in Points, Take(q)
    PROVE  /\ UnderWay(q) # <<>> /\ Head(UnderWay(q)) = wait_buff[q]
           /\ UnderWay(q)' = Tail(UnderWay(q))
           /\ \A p \in Points \ {q} : UnderWay(p)' = UnderWay(p)
  <1>1. ASSUME NEW p \in Points
        PROVE  /\ InTransp(p)' = InTransp(p) /\ InDatagram(p)' = InDatagram(p)
               /\ InNet(p)' = InNet(p) /\ InFrame(p)' = InFrame(p) /\ InLink(p)' = InLink(p)
    BY DEF Take, below, InTransp, InDatagram, InNet, InFrame, InLink
  <1>2. ASSUME NEW p \in Points, p # q PROVE UnderWay(p)' = UnderWay(p)
    <2>1. mutex_pack_cons'[p] = mutex_pack_cons[p] /\ wait_buff'[p] = wait_buff[p]
      BY <1>2 DEF Take, ChannelInv, HandOverInv, TypeOK, PointTypes
    <2> QED BY <1>1, <2>1 DEF UnderWay, InWaitBuff
  <1>3. /\ UnderWay(q) # <<>> /\ Head(UnderWay(q)) = wait_buff[q]
        /\ UnderWay(q)' = Tail(UnderWay(q))
    <2> DEFINE f == wait_buff[q]
    <2>1. f \in Frame /\ InWaitBuff(q) = <<f>>
      BY DEF Take, ChannelInv, PointInv, InWaitBuff, If
    <2>2. InWaitBuff(q)' = <<>>
      BY DEF Take, ChannelInv, HandOverInv, TypeOK, PointTypes, InWaitBuff, If
    <2>3. FirstRest(InWaitBuff(q), f, <<>>)
      BY <2>1, FirstRestOne
    <2>4. FirstRest(InWaitBuff(q) \o InTransp(q), f, <<>> \o InTransp(q))
      BY <2>3, PartsTyped, FirstRestConcat DEF Part
    <2>5. FirstRest(InWaitBuff(q) \o InTransp(q) \o InDatagram(q), f,
                    <<>> \o InTransp(q) \o InDatagram(q))
      BY <2>4, PartsTyped, FirstRestConcat DEF Part
    <2>6. FirstRest(InWaitBuff(q) \o InTransp(q) \o InDatagram(q) \o InNet(q), f,
                    <<>> \o InTransp(q) \o InDatagram(q) \o InNet(q))
      BY <2>5, PartsTyped, FirstRestConcat DEF Part
    <2>7. FirstRest(InWaitBuff(q) \o InTransp(q) \o InDatagram(q) \o InNet(q) \o InFrame(q), f,
                    <<>> \o InTransp(q) \o InDatagram(q) \o InNet(q) \o InFrame(q))
      BY <2>6, PartsTyped, FirstRestConcat DEF Part
    <2>8. FirstRest(UnderWay(q), f, <<>> \o InTransp(q) \o InDatagram(q) \o InNet(q)
                                       \o InFrame(q) \o InLink(q))
      BY <2>7, PartsTyped, FirstRestConcat DEF Part, UnderWay
    <2>9. UnderWay(q)' = <<>> \o InTransp(q) \o InDatagram(q) \o InNet(q)
                            \o InFrame(q) \o InLink(q)
      BY <1>1, <2>2 DEF UnderWay
    <2> QED BY <2>8, <2>9 DEF FirstRest
  <1> QED BY <1>2, <1>3

-----------------------------------------------------------------------------
(* What the channel of module FrameChannel sees. *)
Waiting == [p \in Points |-> UnderWay(p)]

(* Where nothing is accepted, taken or finished the channel stutters. *)
LEMMA ChannelStutters ==
    ASSUME UNCHANGED <<next, taken>>, \A p \in Points : UnderWay(p)' = UnderWay(p)
    PROVE  UNCHANGED <<next, Waiting, taken>>
  BY DEF Waiting

(* Every step of the threads is a step of the channel or a stutter. *)
LEMMA ChannelStep ==
    ASSUME ChannelInv, [Next]_vars
    PROVE  [Channel!Next]_<<next, Waiting, taken>>
  <1> DEFINE Same == \A p \in Points : UnderWay(p)' = UnderWay(p)
             Goal == [Channel!Next]_<<next, Waiting, taken>>
  <1>1. CASE UNCHANGED vars
    <2>1. Same
      BY <1>1 DEF vars, mutexes, UnderWay, InWaitBuff, InTransp, InDatagram, InNet, InFrame,
         InLink
    <2> QED BY <1>1, <2>1, ChannelStutters DEF vars
  <1>2. CASE Link \/ Net \/ Transp \/ Sender \/ Wire \/ \E p \in Points : Connect(p)
    <2>1. Same
      BY <1>2, LinkStays, NetStays, TranspStays, OthersStay DEF Link
    <2>2. UNCHANGED <<next, taken>>
      <3>1. CASE Link \/ Net
        BY <3>1 DEF Link, LinkLock, LinkHandUp, Net, NetLock, NetCopied, NetDone, NetForward,
           NetPass, NetHandUp, above
      <3>2. CASE Transp
        BY <3>2 DEF Transp, TranspLock, TranspCopied, TranspDone, TranspHandUp, above
      <3>3. CASE Sender \/ Wire \/ \E p \in Points : Connect(p)
        BY <3>3 DEF Sender, Remove, LinkRefuse, LinkSend, LinkSendDone, Wire, TransmitLock,
           Transmit, receiving, Connect, below
      <3> QED BY <1>2, <3>1, <3>2, <3>3
    <2> QED BY <2>1, <2>2, ChannelStutters
  <1>3. ASSUME NEW q \in Points, HandleOther(q) \/ HandleData(q) \/ HandleFin(q)
        PROVE  Channel!Next
    <2>1. Same
      BY <1>3, OthersStay
    <2>2. taken' = [taken EXCEPT ![q] = <<>>] /\ next' = next
      BY <1>3 DEF HandleOther, HandleData, HandleFin, below, None
    <2>3. Waiting' = Waiting
      BY <2>1 DEF Waiting
    <2> QED BY <2>2, <2>3 DEF Channel!Next, Channel!Finish, Waiting
  <1>4. ASSUME NEW q \in Points, Take(q) PROVE Channel!Next
    <2>1. /\ UnderWay(q) # <<>> /\ Head(UnderWay(q)) = wait_buff[q]
          /\ UnderWay(q)' = Tail(UnderWay(q))
          /\ \A p \in Points \ {q} : UnderWay(p)' = UnderWay(p)
      BY <1>4, TakeStep
    <2>2. taken[q] = <<>>
      BY <1>4 DEF Take, ChannelInv, PointInv, None
    <2>3. taken' = [taken EXCEPT ![q] = wait_buff[q]] /\ next' = next
      BY <1>4 DEF Take, below
    <2>4. Waiting' = [Waiting EXCEPT ![q] = Tail(Waiting[q])]
      BY <2>1 DEF Waiting
    <2>5. Waiting[q] = UnderWay(q)
      BY DEF Waiting
    <2> QED BY <2>1, <2>2, <2>3, <2>4, <2>5 DEF Channel!Next, Channel!Take, Waiting
  <1>5. ASSUME NEW f \in Frame, Accept(f) PROVE Goal
    <2>1. CASE f.to \in Points
      <3> DEFINE p == f.to
      <3>1. /\ Len(UnderWay(p)) < 5 /\ UnderWay(p)' = Append(UnderWay(p), f)
            /\ \A q \in Points \ {p} : UnderWay(q)' = UnderWay(q)
        BY <1>5, <2>1, AcceptStep
      <3>2. f.id = next /\ next' = 1 - next /\ taken' = taken
        BY <1>5, <2>1 DEF Accept
      <3>3. Waiting' = [Waiting EXCEPT ![p] = Append(Waiting[p], f)]
        BY <2>1, <3>1 DEF Waiting
      <3>4. Waiting[p] = UnderWay(p)
        BY <2>1 DEF Waiting
      <3>5. Channel!Accept(p)
        BY <3>1, <3>2, <3>3, <3>4 DEF Channel!Accept, Waiting
      <3> QED BY <2>1, <3>5 DEF Channel!Next
    <2>2. CASE f.to \notin Points
      <3>1. Same
        BY <1>5, <2>2, AcceptStep
      <3>2. UNCHANGED <<next, taken>>
        BY <1>5, <2>2 DEF Accept
      <3> QED BY <3>1, <3>2, ChannelStutters
    <2> QED BY <2>1, <2>2
  <1> HIDE DEF Goal
  <1>6. Channel!Next => Goal
    BY DEF Goal
  <1>7. (\E q \in Points : Recv(q)) => Goal
    BY <1>3, <1>4, <1>6 DEF Recv
  <1>8. Goal
    BY <1>1, <1>2, <1>5, <1>7 DEF Next, Goal
  <1> QED BY <1>8 DEF Goal

(* All is empty at first. *)
LEMMA ChannelInit ==
    ASSUME Init
    PROVE  PointInv /\ Channel!Init
  <1>1. PointInv
    BY DEF Init, PointInv
  <1>2. \A p \in Points : UnderWay(p) = <<>>
    <2>1. \A p \in Points : /\ InWaitBuff(p) = <<>> /\ InTransp(p) = <<>> /\ InDatagram(p) = <<>>
                            /\ InNet(p) = <<>> /\ InFrame(p) = <<>> /\ InLink(p) = <<>>
      BY DEF Init, InWaitBuff, InTransp, InDatagram, InNet, InFrame, InLink, If
    <2>2. <<>> \o <<>> = <<>>
      BY EmptySeq, ConcatEmptySeq
    <2> QED BY <2>1, <2>2 DEF UnderWay
  <1>3. next = 0 /\ taken \in [Points -> {<<>>}]
    BY DEF Init, None
  <1> QED BY <1>1, <1>2, <1>3 DEF Channel!Init

(* The four hand-overs are a channel (FrameChannel) that neither loses,    *)
(* repeats nor reorders the frames the host accepts for a service point,   *)
(* in every interleaving of the threads: every step of the threads is a    *)
(* step of the channel or a stutter.                                       *)
THEOREM HandOversAreChannel == Spec => ImplementsChannel
  <1>1. Init => ChannelInv
    BY InitHandOver, ChannelInit DEF ChannelInv
  <1>2. ChannelInv /\ [Next]_vars => ChannelInv'
    BY HandOverStep, WaitStep DEF ChannelInv, HandOverInv
  <1>3. Init => Channel!Init
    BY ChannelInit
  <1>4. ChannelInv /\ [Next]_vars => [Channel!Next]_<<next, Waiting, taken>>
    BY ChannelStep
  <1> QED
    BY <1>1, <1>2, <1>3, <1>4, PTL
       DEF Spec, ImplementsChannel, Channel!Spec, Channel!vars, Waiting
=============================================================================
